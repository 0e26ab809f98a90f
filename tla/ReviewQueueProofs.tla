-------------------------- MODULE ReviewQueueProofs --------------------------
(***************************************************************************)
(* Theorems about ReviewQueue, for any number of deliveries, workers,      *)
(* schedulers, retries and faults.                                         *)
(***************************************************************************)
EXTENDS ReviewQueue, TLAPS

WorkerAct(w) == WorkerStep(w) \/ StageFails(w) \/ WorkerCrash(w)
SchedulerAct(s) == SchedulerStep(s) \/ PopFails(s)

LEMMA NextCases ==
  ASSUME [Next]_vars
  PROVE  \/ \E d \in Deliveries : Request(d)
         \/ \E w \in Workers : WorkerAct(w)
         \/ \E s \in Schedulers : SchedulerAct(s)
         \/ UNCHANGED vars
BY DEF Next, WorkerAct, SchedulerAct

LEMMA JobFacts ==
  /\ \A j \in Job : j.delivery \in Deliveries /\ j.retries \in 0 .. MaxRetries
  /\ \A d \in Deliveries : FirstTry(d) \in Job /\ FirstTry(d).delivery = d
  /\ \A j \in Job : j.retries < MaxRetries => NextTry(j) \in Job
  /\ \A j : NextTry(j).delivery = j.delivery
  /\ MaxRetries \in Nat
BY QueueAssumption DEF Job, FirstTry, NextTry

(* What sending a message appends to the orchestrator's queue. *)
LEMMA AppendEntry ==
  ASSUME sent \in Seq(Member), NEW e \in Member
  PROVE  /\ Append(sent, e) \in Seq(Member)
         /\ DOMAIN Append(sent, e) = DOMAIN sent \cup {Len(sent) + 1}
         /\ Len(sent) + 1 \notin DOMAIN sent
         /\ Append(sent, e)[Len(sent) + 1] = e
         /\ \A i \in DOMAIN sent : Append(sent, e)[i] = sent[i]
<1>1. Append(sent, e) \in Seq(Member) /\ Len(Append(sent, e)) = Len(sent) + 1
  OBVIOUS
<1>2. DOMAIN sent = 1 .. Len(sent) /\ Len(sent) \in Nat
  OBVIOUS
<1>3. DOMAIN Append(sent, e) = 1 .. Len(sent) + 1
  BY <1>1, <1>2
<1>4. Append(sent, e)[Len(sent) + 1] = e
  OBVIOUS
<1>5. \A i \in 1 .. Len(sent) : Append(sent, e)[i] = sent[i]
  OBVIOUS
<1> QED BY <1>1, <1>2, <1>3, <1>4, <1>5

-----------------------------------------------------------------------------
(* Type correctness. *)

LEMMA TypeInit == Init => TypeOK
BY QueueAssumption DEF Init, TypeOK, NoMember

LEMMA NewMember ==
  ASSUME TypeOK, NEW w \in Workers, wpc[w] = "zadd"
  PROVE  make_member(ordinal[w], job[w].delivery) \in Member
BY JobFacts DEF TypeOK, make_member, Member

LEMMA TypeForgetJob ==
  ASSUME TypeOK, NEW w \in Workers, ForgetJob(w), wpc' = [wpc EXCEPT ![w] = "idle"]
  PROVE  /\ wpc' \in [Workers -> {"idle", "load", "zadd", "staged", "retry"}]
         /\ job' \in [Workers -> Job \cup {NoJob}]
         /\ \A v \in Workers : wpc'[v] # "idle" => job'[v] \in Job
         /\ ordinal' \in [Workers -> 0 .. MaxOrdinal]
         /\ \A v \in Workers : wpc'[v] = "zadd" => ordinal'[v] # 0
BY QueueAssumption DEF TypeOK, ForgetJob

LEMMA TypeForgetEntry ==
  ASSUME TypeOK, NEW s \in Schedulers, ForgetEntry(s), spc' = [spc EXCEPT ![s] = "idle"]
  PROVE  /\ spc' \in [Schedulers -> {"idle", "range", "remove", "send"}]
         /\ top' \in [Schedulers -> Nat]
         /\ picked' \in [Schedulers -> Member \cup {NoMember}]
         /\ \A t \in Schedulers : spc'[t] \in {"remove", "send"} => picked'[t] \in Member
         /\ snapshot' \in [Schedulers -> SUBSET Member]
BY DEF TypeOK, ForgetEntry

LEMMA TypeRequest ==
  ASSUME TypeOK, NEW d \in Deliveries, Request(d)
  PROVE  TypeOK'
<1> USE DEF workerVars, schedulerVars, historyVars
<1>1. CASE Ingest(d)
  <2>1. sends' \in [Deliveries -> 0 .. MaxSends] /\ requests' \in [Deliveries -> Nat]
    BY <1>1, QueueAssumption DEF Ingest, TypeOK
  <2> QED BY <1>1, <2>1 DEF Ingest, TypeOK
<1>2. ASSUME EndRequest(d) PROVE requests' \in [Deliveries -> Nat]
  BY <1>2 DEF EndRequest, TypeOK
<1>3. CASE Dispatch(d)
  <2>1. ingestion' \in [Job -> Nat]
    BY <1>3, JobFacts DEF Dispatch, TypeOK
  <2> QED BY <1>2, <1>3, <2>1 DEF Dispatch, TypeOK
<1>4. CASE DispatchFails(d)
  <2>1. faults' \in 0 .. MaxFaults
    BY <1>4, QueueAssumption DEF DispatchFails, Fault, TypeOK
  <2> QED BY <1>2, <1>4, <2>1 DEF DispatchFails, TypeOK
<1> QED BY <1>1, <1>3, <1>4 DEF Request

LEMMA TypeWorker ==
  ASSUME TypeOK, NEW w \in Workers, WorkerAct(w)
  PROVE  TypeOK'
<1> USE QueueAssumption DEF workerVars, schedulerVars, historyVars, webhookVars, GotoW
<1>1. CASE Take(w)
  <2>1. PICK j \in Job : /\ ingestion[j] > 0
                         /\ ingestion' = [ingestion EXCEPT ![j] = @ - 1]
                         /\ job' = [job EXCEPT ![w] = j]
    BY <1>1 DEF Take
  <2>2. ingestion' \in [Job -> Nat]
    BY <2>1 DEF TypeOK
  <2> QED BY <1>1, <2>1, <2>2 DEF Take, TypeOK
<1>2. CASE Stamp(w)
  BY <1>2 DEF Stamp, TypeOK
<1>3. CASE Zadd(w)
  BY <1>3, NewMember DEF Zadd, AddMember, TypeOK
<1>4. CASE Ack(w)
  BY <1>4, TypeForgetJob DEF Ack, TypeOK
<1>5. CASE Retry(w)
  <2>1. NextTry(job[w]) \in Job
    BY <1>5, JobFacts DEF Retry, TypeOK
  <2>2. ingestion' \in [Job -> Nat]
    BY <1>5, <2>1 DEF Retry, TypeOK
  <2> QED BY <1>5, <2>2, TypeForgetJob DEF Retry, TypeOK
<1>6. CASE DeadLetter(w)
  <2>1. job[w].delivery \in Deliveries
    BY <1>6, JobFacts DEF DeadLetter, TypeOK
  <2>2. deadLetters' \subseteq Deliveries
    BY <1>6, <2>1 DEF DeadLetter, TypeOK
  <2> QED BY <1>6, <2>2, TypeForgetJob DEF DeadLetter, TypeOK
<1>7. CASE StageFails(w)
  <2>1. zset' \subseteq Member /\ repeated' \subseteq Deliveries
    BY <1>7, NewMember, JobFacts DEF StageFails, AddMember, Repeat, TypeOK
  <2>2. faults' \in 0 .. MaxFaults
    BY <1>7 DEF StageFails, Fault, TypeOK
  <2> QED BY <1>7, <2>1, <2>2 DEF StageFails, TypeOK
<1>8. CASE WorkerCrash(w)
  <2>1. job[w] \in Job /\ job[w].delivery \in Deliveries /\ ingestion[job[w]] + 1 \in Nat
    BY <1>8, JobFacts DEF WorkerCrash, TypeOK
  <2>2. ingestion' \in [Job -> Nat]
    <3>1. ingestion' = ingestion \/ ingestion' = [ingestion EXCEPT ![job[w]] = ingestion[job[w]] + 1]
      BY <1>8 DEF WorkerCrash
    <3> QED BY <2>1, <3>1 DEF TypeOK
  <2>4. repeated' \subseteq Deliveries
    BY <1>8, <2>1 DEF WorkerCrash, Repeat, TypeOK
  <2>5. dropped' \subseteq Deliveries
    BY <1>8, <2>1 DEF WorkerCrash, TypeOK
  <2>3. faults' \in 0 .. MaxFaults
    BY <1>8 DEF WorkerCrash, Fault, TypeOK
  <2> QED BY <1>8, <2>2, <2>3, <2>4, <2>5, TypeForgetJob DEF WorkerCrash, TypeOK
<1> QED BY <1>1, <1>2, <1>3, <1>4, <1>5, <1>6, <1>7, <1>8 DEF WorkerAct, WorkerStep

LEMMA ScoreIsNat == \A m \in Member : ScoreOf(m) \in Nat
BY QueueAssumption DEF ScoreOf, Member

LEMMA TypeScheduler ==
  ASSUME TypeOK, NEW s \in Schedulers, SchedulerAct(s)
  PROVE  TypeOK'
<1> USE QueueAssumption DEF workerVars, schedulerVars, historyVars, webhookVars, GotoS
<1>1. CASE ReadTopScore(s)
  BY <1>1, ScoreIsNat DEF ReadTopScore, TypeOK
<1>2. CASE PickOldest(s)
  BY <1>2 DEF PickOldest, AtScore, TypeOK
<1>3. CASE Remove(s)
  BY <1>3 DEF Remove, TypeOK
<1>4. CASE ComeAwayEmpty(s)
  BY <1>4, TypeForgetEntry DEF ComeAwayEmpty, TypeOK
<1>5. CASE Send(s)
  BY <1>5, TypeForgetEntry, AppendEntry DEF Send, SendEntry, TypeOK
<1>6. CASE PopFails(s)
  <2>1. sent' \in Seq(Member)
    <3>1. sent' = sent \/ (picked[s] \in Member /\ sent' = Append(sent, picked[s]))
      BY <1>6 DEF PopFails, SendEntry, TypeOK
    <3> QED BY <3>1, AppendEntry DEF TypeOK
  <2>3. spc[s] = "send" => picked[s].delivery \in Deliveries
    BY DEF TypeOK, Member
  <2>4. dropped' \subseteq Deliveries
    <3>1. \/ dropped' = dropped
          \/ spc[s] = "send" /\ dropped' = dropped \cup {picked[s].delivery}
      BY <1>6 DEF PopFails
    <3> QED BY <2>3, <3>1 DEF TypeOK
  <2>2. faults' \in 0 .. MaxFaults
    BY <1>6 DEF PopFails, Fault, TypeOK
  <2> QED BY <1>6, <2>1, <2>2, <2>4, TypeForgetEntry DEF PopFails, TypeOK
<1> QED BY <1>1, <1>2, <1>3, <1>4, <1>5, <1>6 DEF SchedulerAct, SchedulerStep

LEMMA TypeStep == TypeOK /\ [Next]_vars => TypeOK'
<1>1. TypeOK /\ UNCHANGED vars => TypeOK'
  BY DEF vars, TypeOK, workerVars, schedulerVars, historyVars, webhookVars
<1> QED BY <1>1, NextCases, TypeRequest, TypeWorker, TypeScheduler

(* Every reachable state is well typed: a working process holds a proper
   message, and a scheduler that removes or sends holds a proper entry. *)
THEOREM QueueTypeCorrect == Spec => []TypeOK
BY TypeInit, TypeStep, PTL DEF Spec

-----------------------------------------------------------------------------
(* What a step leaves alone. *)

LEMMA RequestUnchanged ==
  ASSUME NEW d \in Deliveries, Request(d)
  PROVE  UNCHANGED <<deadLetters, zset, clock, sent, workerVars, schedulerVars, repeated>>
BY DEF Request, Ingest, Dispatch, DispatchFails, historyVars

LEMMA WorkerUnchanged ==
  ASSUME NEW w \in Workers, WorkerAct(w)
  PROVE  UNCHANGED <<webhookVars, sent, schedulerVars>>
BY DEF WorkerAct, WorkerStep, Take, Stamp, Zadd, Ack, Retry, DeadLetter, StageFails, WorkerCrash

LEMMA SchedulerUnchanged ==
  ASSUME NEW s \in Schedulers, SchedulerAct(s)
  PROVE  UNCHANGED <<webhookVars, ingestion, deadLetters, clock, workerVars, repeated>>
BY DEF SchedulerAct, SchedulerStep, ReadTopScore, PickOldest, Remove, ComeAwayEmpty, Send,
   PopFails, historyVars

LEMMA OtherWorkers ==
  ASSUME TypeOK, NEW w \in Workers, WorkerAct(w), NEW v \in Workers, v # w
  PROVE  wpc'[v] = wpc[v] /\ job'[v] = job[v] /\ ordinal'[v] = ordinal[v]
<1> USE DEF TypeOK, GotoW, ForgetJob
<1>1. CASE Take(w) \/ Stamp(w) \/ Zadd(w) \/ Ack(w)
  BY <1>1 DEF Take, Stamp, Zadd, Ack
<1>2. CASE Retry(w) \/ DeadLetter(w)
  BY <1>2 DEF Retry, DeadLetter
<1>3. CASE StageFails(w)
  BY <1>3 DEF StageFails
<1>4. CASE WorkerCrash(w)
  BY <1>4 DEF WorkerCrash
<1> QED BY <1>1, <1>2, <1>3, <1>4 DEF WorkerAct, WorkerStep

LEMMA OtherSchedulers ==
  ASSUME TypeOK, NEW s \in Schedulers, SchedulerAct(s), NEW t \in Schedulers, t # s
  PROVE  /\ spc'[t] = spc[t]
         /\ top'[t] = top[t]
         /\ picked'[t] = picked[t]
         /\ snapshot'[t] = snapshot[t]
<1> USE DEF TypeOK, GotoS, ForgetEntry
<1>1. CASE ReadTopScore(s)
  BY <1>1 DEF ReadTopScore
<1>2. CASE PickOldest(s)
  BY <1>2 DEF PickOldest
<1>3. CASE Remove(s) \/ ComeAwayEmpty(s) \/ Send(s)
  BY <1>3 DEF Remove, ComeAwayEmpty, Send
<1>4. CASE PopFails(s)
  BY <1>4 DEF PopFails
<1> QED BY <1>1, <1>2, <1>3, <1>4 DEF SchedulerAct, SchedulerStep

-----------------------------------------------------------------------------
(* How entries move. *)

(* A worker step adds at most the worker's own entry. *)
LEMMA WorkerEntries ==
  ASSUME TypeOK, NEW w \in Workers, WorkerAct(w)
  PROVE  /\ \/ zset' = zset
            \/ wpc[w] = "zadd" /\ AddMember(w) /\ (Zadd(w) \/ StageFails(w))
         /\ sent' = sent
         /\ spc' = spc /\ picked' = picked /\ Taken' = Taken
<1>1. \/ zset' = zset
      \/ wpc[w] = "zadd" /\ AddMember(w) /\ (Zadd(w) \/ StageFails(w))
  BY DEF WorkerAct, WorkerStep, Take, Stamp, Zadd, Ack, Retry, DeadLetter, StageFails,
     WorkerCrash, GotoW
<1> QED BY <1>1, WorkerUnchanged DEF schedulerVars, Taken

TakesOut(s) == Remove(s)
HandsOver(s) == spc[s] = "send" /\ SendEntry(s) /\ (Send(s) \/ PopFails(s))
Drops(s) == spc[s] = "send" /\ sent' = sent /\ dropped' = dropped \cup {picked[s].delivery}
              /\ PopFails(s)

(* The ways a scheduler step changes where entries are. *)
LEMMA SchedulerCases ==
  ASSUME TypeOK, NEW s \in Schedulers, SchedulerAct(s)
  PROVE  \/ TakesOut(s)
         \/ HandsOver(s)
         \/ Drops(s)
         \/ /\ spc[s] # "send" /\ spc'[s] # "send"
            /\ UNCHANGED <<zset, sent, dropped>>
<1>1. CASE ReadTopScore(s) \/ PickOldest(s) \/ ComeAwayEmpty(s)
  BY <1>1 DEF ReadTopScore, PickOldest, ComeAwayEmpty, GotoS, TypeOK, historyVars
<1>2. CASE Remove(s) \/ Send(s)
  BY <1>2 DEF Remove, Send, TakesOut, HandsOver, GotoS
<1>3. CASE PopFails(s)
  BY <1>3 DEF PopFails, HandsOver, Drops, TypeOK
<1> QED BY <1>1, <1>2, <1>3 DEF SchedulerAct, SchedulerStep

LEMMA IdleCase ==
  ASSUME TypeOK, NEW s \in Schedulers, SchedulerAct(s), spc[s] # "send", spc'[s] # "send"
  PROVE  Taken' = Taken
<1>1. \A t \in Schedulers : t # s => spc'[t] = spc[t] /\ picked'[t] = picked[t]
  BY OtherSchedulers
<1>2. \A t \in Schedulers :
        (spc'[t] = "send" <=> spc[t] = "send") /\ (spc[t] = "send" => picked'[t] = picked[t])
  BY <1>1
<1> QED BY <1>2 DEF Taken

LEMMA TakesOutEffect ==
  ASSUME TypeOK, NEW s \in Schedulers, TakesOut(s)
  PROVE  /\ picked[s] \in zset
         /\ zset' = zset \ {picked[s]}
         /\ sent' = sent
         /\ spc'[s] = "send" /\ picked' = picked
         /\ spc[s] = "remove"
         /\ Taken' = Taken \cup {picked[s]}
<1>1. /\ spc[s] = "remove" /\ spc' = [spc EXCEPT ![s] = "send"]
      /\ picked' = picked
      /\ picked[s] \in zset /\ zset' = zset \ {picked[s]} /\ sent' = sent
  BY DEF TakesOut, Remove, GotoS
<1>2. \A t \in Schedulers : spc'[t] = "send" <=> spc[t] = "send" \/ t = s
  BY <1>1 DEF TypeOK
<1>3. spc'[s] = "send"
  BY <1>1 DEF TypeOK
<1>4. Taken' = Taken \cup {picked[s]}
  BY <1>1, <1>2 DEF Taken
<1> QED BY <1>1, <1>3, <1>4

LEMMA LeavesEffect ==
  ASSUME TypeOK, EntriesMoveOn, NEW s \in Schedulers, HandsOver(s) \/ Drops(s)
  PROVE  /\ picked[s] \in Taken /\ picked[s] \in Member
         /\ zset' = zset
         /\ spc[s] = "send" /\ spc'[s] = "idle"
         /\ Taken' = Taken \ {picked[s]}
<1>1. /\ spc[s] = "send" /\ spc' = [spc EXCEPT ![s] = "idle"]
      /\ picked' = [picked EXCEPT ![s] = NoMember]
      /\ zset' = zset
  BY DEF HandsOver, Drops, Send, PopFails, GotoS, ForgetEntry
<1>2. \A t \in Schedulers : spc'[t] = "send" <=> spc[t] = "send" /\ t # s
  BY <1>1 DEF TypeOK
<1>3. \A t \in Schedulers : t # s => picked'[t] = picked[t]
  BY <1>1 DEF TypeOK
<1>4. \A t \in Schedulers : spc[t] = "send" /\ t # s => picked[t] # picked[s]
  BY <1>1 DEF EntriesMoveOn
<1>5. Taken' = Taken \ {picked[s]}
  BY <1>1, <1>2, <1>3, <1>4 DEF Taken
<1> QED BY <1>1, <1>5 DEF Taken, TypeOK

LEMMA HandsOverEffect ==
  ASSUME TypeOK, NEW s \in Schedulers, HandsOver(s)
  PROVE  /\ sent' = Append(sent, picked[s])
         /\ DOMAIN sent' = DOMAIN sent \cup {Len(sent) + 1}
         /\ Len(sent) + 1 \notin DOMAIN sent
         /\ sent'[Len(sent) + 1] = picked[s]
         /\ \A i \in DOMAIN sent : sent'[i] = sent[i]
         /\ SentEntries' = SentEntries \cup {picked[s]}
<1>1. picked[s] \in Member /\ sent' = Append(sent, picked[s])
  BY DEF HandsOver, SendEntry, TypeOK
<1>2. /\ DOMAIN sent' = DOMAIN sent \cup {Len(sent) + 1}
      /\ Len(sent) + 1 \notin DOMAIN sent
      /\ sent'[Len(sent) + 1] = picked[s]
      /\ \A i \in DOMAIN sent : sent'[i] = sent[i]
  BY <1>1, AppendEntry DEF TypeOK
<1> QED BY <1>1, <1>2 DEF SentEntries

-----------------------------------------------------------------------------
(* Each entry moves on, once. *)

EntryInvariant == OrdinalsGrow /\ EntriesMoveOn

EntryOf(w) == make_member(ordinal[w], job[w].delivery)

(* A ZADD adds a member nobody has seen. *)
LEMMA NewEntryFresh ==
  ASSUME EntryInvariant, NEW w \in Workers, wpc[w] = "zadd"
  PROVE  EntryOf(w) \notin Entries /\ \A s \in Schedulers : EntryOf(w) \notin snapshot[s]
<1>1. EntryOf(w).ordinal = ordinal[w]
  BY DEF EntryOf, make_member
<1> QED BY <1>1 DEF EntryInvariant, OrdinalsGrow

LEMMA EntriesInit == Init => EntryInvariant
BY DEF Init, EntryInvariant, OrdinalsGrow, EntriesMoveOn, Entries, Taken, SentEntries

LEMMA MoveOnWorker ==
  ASSUME TypeOK, EntryInvariant, NEW w \in Workers, WorkerAct(w)
  PROVE  EntriesMoveOn'
<1>1. /\ zset' = zset \/ (wpc[w] = "zadd" /\ zset' = zset \cup {EntryOf(w)})
      /\ sent' = sent /\ spc' = spc /\ picked' = picked /\ Taken' = Taken
  BY WorkerEntries DEF AddMember, EntryOf
<1>2. SentEntries' = SentEntries
  BY <1>1 DEF SentEntries
<1>3. wpc[w] = "zadd" => EntryOf(w) \notin Taken \cup SentEntries
  BY NewEntryFresh DEF Entries
<1>4. (zset \cap (Taken \cup SentEntries) = {})'
  BY <1>1, <1>2, <1>3 DEF EntryInvariant, EntriesMoveOn
<1> QED BY <1>1, <1>2, <1>4 DEF EntryInvariant, EntriesMoveOn

LEMMA MoveOnTaken ==
  ASSUME TypeOK, EntryInvariant, NEW s \in Schedulers, TakesOut(s), SchedulerAct(s)
  PROVE  EntriesMoveOn' /\ Entries' = Entries
<1>1. /\ picked[s] \in zset /\ zset' = zset \ {picked[s]} /\ sent' = sent
      /\ spc'[s] = "send" /\ picked' = picked /\ Taken' = Taken \cup {picked[s]}
  BY TakesOutEffect
<1>2. SentEntries' = SentEntries
  BY <1>1 DEF SentEntries
<1>3. picked[s] \notin Taken \cup SentEntries
  BY <1>1 DEF EntryInvariant, EntriesMoveOn
<1>4. \A t \in Schedulers : spc'[t] = "send" => t = s \/ spc[t] = "send"
  BY OtherSchedulers
<1>5. \A t \in Schedulers : spc[t] = "send" => picked[t] # picked[s]
  BY <1>3 DEF Taken
<1>6. (\A t, u \in Schedulers :
         spc[t] = "send" /\ spc[u] = "send" /\ picked[t] = picked[u] => t = u)'
  BY <1>1, <1>4, <1>5 DEF EntryInvariant, EntriesMoveOn
<1>7. (zset \cap (Taken \cup SentEntries) = {} /\ Taken \cap SentEntries = {})'
  BY <1>1, <1>2, <1>3 DEF EntryInvariant, EntriesMoveOn
<1> QED BY <1>1, <1>2, <1>6, <1>7 DEF EntryInvariant, EntriesMoveOn, Entries

LEMMA MoveOnHanded ==
  ASSUME TypeOK, EntryInvariant, NEW s \in Schedulers, HandsOver(s), SchedulerAct(s)
  PROVE  EntriesMoveOn' /\ Entries' = Entries
<1>1. /\ picked[s] \in Taken /\ zset' = zset
      /\ spc[s] = "send" /\ spc'[s] = "idle" /\ Taken' = Taken \ {picked[s]}
  BY LeavesEffect DEF EntryInvariant
<1>2. /\ SentEntries' = SentEntries \cup {picked[s]}
      /\ DOMAIN sent' = DOMAIN sent \cup {Len(sent) + 1}
      /\ sent'[Len(sent) + 1] = picked[s]
      /\ \A i \in DOMAIN sent : sent'[i] = sent[i]
  BY HandsOverEffect
<1>3. picked[s] \notin zset \cup SentEntries
  BY <1>1 DEF EntryInvariant, EntriesMoveOn
<1>4. \A t \in Schedulers : spc'[t] = "send" => t # s /\ spc[t] = "send" /\ picked'[t] = picked[t]
  BY <1>1, OtherSchedulers
<1>5. (\A t, u \in Schedulers :
         spc[t] = "send" /\ spc[u] = "send" /\ picked[t] = picked[u] => t = u)'
  BY <1>4 DEF EntryInvariant, EntriesMoveOn
<1>6. (\A i, j \in DOMAIN sent : sent[i] = sent[j] => i = j)'
  <2>1. \A i \in DOMAIN sent : sent[i] # picked[s]
    BY <1>3 DEF SentEntries
  <2> QED BY <1>2, <2>1 DEF EntryInvariant, EntriesMoveOn
<1>7. (zset \cap (Taken \cup SentEntries) = {} /\ Taken \cap SentEntries = {})'
  BY <1>1, <1>2, <1>3 DEF EntryInvariant, EntriesMoveOn
<1>8. Entries' = Entries
  BY <1>1, <1>2 DEF Entries
<1> QED BY <1>5, <1>6, <1>7, <1>8 DEF EntriesMoveOn

LEMMA MoveOnDropped ==
  ASSUME TypeOK, EntryInvariant, NEW s \in Schedulers, Drops(s), SchedulerAct(s)
  PROVE  EntriesMoveOn' /\ Entries' = Entries \ {picked[s]}
<1>1. /\ picked[s] \in Taken /\ zset' = zset
      /\ spc[s] = "send" /\ spc'[s] = "idle" /\ Taken' = Taken \ {picked[s]}
  BY LeavesEffect DEF EntryInvariant
<1>2. sent' = sent /\ SentEntries' = SentEntries
  BY DEF Drops, SentEntries
<1>3. picked[s] \notin zset \cup SentEntries
  BY <1>1 DEF EntryInvariant, EntriesMoveOn
<1>4. \A t \in Schedulers : spc'[t] = "send" => t # s /\ spc[t] = "send" /\ picked'[t] = picked[t]
  BY <1>1, OtherSchedulers
<1>5. (\A t, u \in Schedulers :
         spc[t] = "send" /\ spc[u] = "send" /\ picked[t] = picked[u] => t = u)'
  BY <1>4 DEF EntryInvariant, EntriesMoveOn
<1>7. (zset \cap (Taken \cup SentEntries) = {} /\ Taken \cap SentEntries = {})'
  BY <1>1, <1>2 DEF EntryInvariant, EntriesMoveOn
<1>8. Entries' = Entries \ {picked[s]}
  BY <1>1, <1>2, <1>3 DEF Entries
<1> QED BY <1>2, <1>5, <1>7, <1>8 DEF EntryInvariant, EntriesMoveOn

LEMMA MoveOnUntouched ==
  ASSUME TypeOK, EntryInvariant, NEW s \in Schedulers, SchedulerAct(s),
         spc[s] # "send", spc'[s] # "send", UNCHANGED <<zset, sent, dropped>>
  PROVE  EntriesMoveOn' /\ Entries' = Entries
<1>1. Taken' = Taken /\ SentEntries' = SentEntries
  BY IdleCase DEF SentEntries
<1>4. \A t \in Schedulers : spc'[t] = "send" => spc[t] = "send" /\ picked'[t] = picked[t]
  BY OtherSchedulers
<1> QED BY <1>1, <1>4 DEF EntryInvariant, EntriesMoveOn, Entries

(* Where entries go in one step. *)
LEMMA EntriesStep ==
  ASSUME TypeOK, EntryInvariant, [Next]_vars
  PROVE  /\ EntriesMoveOn'
         /\ \/ Entries' \subseteq Entries
            \/ \E w \in Workers : /\ wpc[w] = "zadd"
                                  /\ Zadd(w) \/ StageFails(w)
                                  /\ Entries' = Entries \cup {EntryOf(w)}
<1>1. ASSUME UNCHANGED <<zset, sent, schedulerVars>>
      PROVE  EntriesMoveOn' /\ Entries' = Entries
  BY <1>1 DEF schedulerVars, EntryInvariant, EntriesMoveOn, Entries, Taken, SentEntries
<1>2. CASE (\E d \in Deliveries : Request(d)) \/ UNCHANGED vars
  BY <1>1, <1>2, RequestUnchanged DEF vars
<1>3. ASSUME NEW w \in Workers, WorkerAct(w)
      PROVE  /\ EntriesMoveOn'
             /\ \/ Entries' \subseteq Entries
                \/ /\ wpc[w] = "zadd"
                   /\ Zadd(w) \/ StageFails(w)
                   /\ Entries' = Entries \cup {EntryOf(w)}
  <2>1. EntriesMoveOn'
    BY <1>3, MoveOnWorker
  <2>2. sent' = sent /\ Taken' = Taken /\ SentEntries' = SentEntries
    BY <1>3, WorkerEntries DEF SentEntries
  <2>3. \/ zset' = zset
        \/ wpc[w] = "zadd" /\ zset' = zset \cup {EntryOf(w)} /\ (Zadd(w) \/ StageFails(w))
    BY <1>3, WorkerEntries DEF AddMember, EntryOf
  <2> QED BY <2>1, <2>2, <2>3 DEF Entries
<1>4. ASSUME NEW s \in Schedulers, SchedulerAct(s)
      PROVE  EntriesMoveOn' /\ Entries' \subseteq Entries
  BY <1>4, SchedulerCases, MoveOnTaken, MoveOnHanded, MoveOnDropped, MoveOnUntouched
<1> QED BY <1>2, <1>3, <1>4, NextCases, <1>1

LEMMA SnapshotsStep ==
  ASSUME TypeOK, [Next]_vars, NEW t \in Schedulers
  PROVE  snapshot'[t] \subseteq snapshot[t] \cup zset
<1>1. ASSUME snapshot' = snapshot PROVE snapshot'[t] \subseteq snapshot[t] \cup zset
  BY <1>1
<1>2. ASSUME NEW s \in Schedulers, SchedulerAct(s)
      PROVE  snapshot'[t] \subseteq snapshot[t] \cup zset
  <2>1. CASE s # t
    BY <1>2, <2>1, OtherSchedulers
  <2>2. CASE s = t
    BY <1>2, <2>2 DEF SchedulerAct, SchedulerStep, ReadTopScore, PickOldest, Remove,
       ComeAwayEmpty, Send, PopFails, ForgetEntry, TypeOK
  <2> QED BY <2>1, <2>2
<1> QED BY <1>1, <1>2, NextCases, RequestUnchanged, WorkerUnchanged DEF vars, schedulerVars

LEMMA ClockStep ==
  ASSUME TypeOK, [Next]_vars
  PROVE  /\ clock \in Nat /\ clock' \in Nat
         /\ clock' = clock \/ \E w \in Workers : Stamp(w)
         /\ clock' = clock \/ clock' = clock + 1
<1>1. ASSUME NEW w \in Workers, WorkerAct(w) PROVE clock' = clock \/ Stamp(w)
  BY <1>1 DEF WorkerAct, WorkerStep, Take, Zadd, Ack, Retry, DeadLetter, StageFails, WorkerCrash
<1>2. clock' = clock \/ \E w \in Workers : Stamp(w)
  BY <1>1, NextCases, RequestUnchanged, SchedulerUnchanged DEF vars
<1>3. \A w \in Workers : Stamp(w) => clock' = clock + 1
  BY DEF Stamp
<1>4. clock \in Nat
  BY QueueAssumption DEF TypeOK
<1> QED BY <1>2, <1>3, <1>4

(* A worker about to add either was, or has just read the clock. *)
LEMMA ZaddStep ==
  ASSUME TypeOK, [Next]_vars, NEW w \in Workers, wpc'[w] = "zadd"
  PROVE  \/ /\ Stamp(w) /\ ordinal'[w] = clock /\ clock' = clock + 1
         \/ /\ wpc[w] = "zadd" /\ ordinal'[w] = ordinal[w]
            /\ \A v \in Workers : Zadd(v) \/ StageFails(v) => v # w
<1>1. ASSUME UNCHANGED workerVars, \A v \in Workers : ~Zadd(v) /\ ~StageFails(v)
      PROVE  /\ wpc[w] = "zadd" /\ ordinal'[w] = ordinal[w]
             /\ \A v \in Workers : Zadd(v) \/ StageFails(v) => v # w
  BY <1>1 DEF workerVars
<1>2. \A v \in Workers : (Zadd(v) \/ StageFails(v)) => wpc'[v] # "zadd"
  BY DEF Zadd, StageFails, GotoW, TypeOK
<1>3. ASSUME NEW v \in Workers, WorkerAct(v), v # w
      PROVE  wpc[w] = "zadd" /\ ordinal'[w] = ordinal[w]
  BY <1>3, OtherWorkers
<1>4. ASSUME WorkerAct(w) PROVE Stamp(w) /\ ordinal'[w] = clock /\ clock' = clock + 1
  BY <1>4 DEF WorkerAct, WorkerStep, Take, Stamp, Zadd, Ack, Retry, DeadLetter, StageFails,
     WorkerCrash, GotoW, TypeOK
<1>5. ASSUME UNCHANGED workerVars PROVE wpc[w] = "zadd" /\ ordinal'[w] = ordinal[w]
  BY <1>5 DEF workerVars
<1> QED BY <1>2, <1>3, <1>4, <1>5, NextCases, RequestUnchanged, SchedulerUnchanged DEF vars

LEMMA OrdinalsStep ==
  ASSUME TypeOK, EntryInvariant, [Next]_vars
  PROVE  OrdinalsGrow'
<1>0. clock \in Nat /\ clock' \in Nat /\ (clock' = clock \/ clock' = clock + 1)
  BY ClockStep
<1>t. /\ \A e \in Entries : e.ordinal \in Nat
      /\ \A w \in Workers : ordinal[w] \in Nat
      /\ \A s \in Schedulers : \A e \in snapshot[s] : e.ordinal \in Nat
  <2>1. \A e \in Member : e.ordinal \in Nat
    BY QueueAssumption DEF Member
  <2>2. Taken \subseteq Member /\ SentEntries \subseteq Member
    BY DEF TypeOK, Taken, SentEntries
  <2> QED BY <2>1, <2>2, QueueAssumption DEF TypeOK, Entries
(* Whatever is an entry afterwards is old, or was just added by a worker. *)
<1>1. ASSUME NEW e \in Entries'
      PROVE  \/ e \in Entries
             \/ \E v \in Workers : /\ wpc[v] = "zadd" /\ (Zadd(v) \/ StageFails(v))
                                   /\ e = EntryOf(v)
  BY EntriesStep
<1>2. ASSUME NEW s \in Schedulers, NEW e \in snapshot'[s]
      PROVE  e \in snapshot[s] \/ e \in Entries
  BY SnapshotsStep DEF Entries
<1>3. \A v \in Workers : EntryOf(v).ordinal = ordinal[v]
  BY DEF EntryOf, make_member
<1>4. \A e \in Entries' : e.ordinal < clock'
  BY <1>0, <1>t, <1>1, <1>3 DEF EntryInvariant, OrdinalsGrow
<1>5. \A s \in Schedulers : \A e \in snapshot'[s] : e.ordinal < clock'
  BY <1>0, <1>t, <1>2 DEF EntryInvariant, OrdinalsGrow
<1>6. ASSUME NEW w \in Workers, wpc'[w] = "zadd"
      PROVE  /\ ordinal'[w] < clock'
             /\ \A e \in Entries' : e.ordinal # ordinal'[w]
             /\ \A s \in Schedulers : \A e \in snapshot'[s] : e.ordinal # ordinal'[w]
             /\ \A v \in Workers : wpc'[v] = "zadd" /\ ordinal'[v] = ordinal'[w] => v = w
  <2>1. CASE Stamp(w) /\ ordinal'[w] = clock /\ clock' = clock + 1
    <3>1. ordinal'[w] < clock'
      BY <1>0, <2>1
    <3>2. \A e \in Entries' : e.ordinal # clock
      BY <1>0, <1>t, <1>1, <1>3 DEF EntryInvariant, OrdinalsGrow
    <3>3. \A s \in Schedulers : \A e \in snapshot'[s] : e.ordinal # clock
      BY <1>0, <1>t, <1>2 DEF EntryInvariant, OrdinalsGrow
    <3>4. \A v \in Workers : v # w => wpc'[v] = wpc[v] /\ ordinal'[v] = ordinal[v]
      BY <2>1, OtherWorkers DEF WorkerAct, WorkerStep
    <3>5. \A v \in Workers : wpc[v] = "zadd" => ordinal[v] # clock
      BY <1>0, <1>t DEF EntryInvariant, OrdinalsGrow
    <3> QED BY <2>1, <3>1, <3>2, <3>3, <3>4, <3>5
  <2>2. CASE /\ wpc[w] = "zadd" /\ ordinal'[w] = ordinal[w]
             /\ \A v \in Workers : Zadd(v) \/ StageFails(v) => v # w
    <3>1. ordinal'[w] < clock'
      BY <1>0, <1>t, <2>2 DEF EntryInvariant, OrdinalsGrow
    <3>2. \A e \in Entries' : e.ordinal # ordinal[w]
      BY <1>1, <1>3, <2>2 DEF EntryInvariant, OrdinalsGrow
    <3>3. \A s \in Schedulers : \A e \in snapshot'[s] : e.ordinal # ordinal[w]
      BY <1>2, <2>2 DEF EntryInvariant, OrdinalsGrow
    <3>4. ASSUME NEW v \in Workers, wpc'[v] = "zadd", ordinal'[v] = ordinal[w] PROVE v = w
      <4>1. CASE wpc[v] = "zadd" /\ ordinal'[v] = ordinal[v]
        BY <2>2, <3>4, <4>1 DEF EntryInvariant, OrdinalsGrow
      <4>2. CASE ordinal'[v] = clock
        <5>1. ordinal[w] < clock
          BY <2>2 DEF EntryInvariant, OrdinalsGrow
        <5>2. ordinal[w] = clock
          BY <3>4, <4>2
        <5> QED BY <1>0, <5>1, <5>2
      <4> QED BY <3>4, <4>1, <4>2, ZaddStep
    <3> QED BY <2>2, <3>1, <3>2, <3>3, <3>4
  <2> QED BY <1>6, <2>1, <2>2, ZaddStep
<1> QED BY <1>4, <1>5, <1>6 DEF OrdinalsGrow, Entries, Taken, SentEntries

LEMMA EntriesAlways == Spec => []EntryInvariant
<1>1. TypeOK /\ EntryInvariant /\ [Next]_vars => EntryInvariant'
  BY EntriesStep, OrdinalsStep DEF EntryInvariant
<1> QED BY <1>1, EntriesInit, QueueTypeCorrect, PTL DEF Spec

(* Each staged entry is taken once and handed over at most once. *)

LEMMA HandOffInit == Init => HandOff!Init
BY DEF Init, HandOff!Init, Taken

LEMMA HandOffStep ==
  TypeOK /\ EntryInvariant /\ [Next]_vars => [HandOff!Next]_(HandOff!vars)
<1> SUFFICES ASSUME TypeOK, EntryInvariant, [Next]_vars
             PROVE  [HandOff!Next]_(HandOff!vars)
  OBVIOUS
<1> USE DEF HandOff!vars, HandOff!Next
<1>1. CASE UNCHANGED <<zset, sent, Taken>>
  BY <1>1
<1>2. CASE (\E d \in Deliveries : Request(d)) \/ UNCHANGED vars
  BY <1>1, <1>2, RequestUnchanged DEF vars, schedulerVars, Taken
<1>3. ASSUME NEW w \in Workers, WorkerAct(w) PROVE [HandOff!Next]_(HandOff!vars)
  <2>1. sent' = sent /\ Taken' = Taken
    BY <1>3, WorkerEntries
  <2>2. CASE zset' = zset
    BY <1>1, <2>1, <2>2
  <2>3. CASE wpc[w] = "zadd" /\ AddMember(w)
    <3>1. EntryOf(w) \in Member /\ EntryOf(w) \notin Entries
      BY <2>3, NewMember, NewEntryFresh DEF EntryOf
    <3>2. HandOff!Stage(EntryOf(w))
      BY <2>1, <2>3, <3>1 DEF HandOff!Stage, HandOff!Handed, Entries, SentEntries, AddMember,
         EntryOf
    <3> QED BY <3>1, <3>2
  <2> QED BY <1>3, <2>2, <2>3, WorkerEntries
<1>4. ASSUME NEW s \in Schedulers, SchedulerAct(s) PROVE [HandOff!Next]_(HandOff!vars)
  <2>1. CASE TakesOut(s)
    <3>1. /\ picked[s] \in zset /\ zset' = zset \ {picked[s]} /\ sent' = sent
          /\ Taken' = Taken \cup {picked[s]}
      BY <2>1, TakesOutEffect
    <3>2. picked[s] \in Member
      BY <3>1 DEF TypeOK
    <3>3. PICK e \in Member : e = picked[s]
      BY <3>2
    <3>4. HandOff!Take(e)
      BY <3>1, <3>3 DEF HandOff!Take
    <3> QED BY <3>4
  <2>2. CASE HandsOver(s)
    <3>1. /\ picked[s] \in Taken /\ picked[s] \in Member /\ zset' = zset
          /\ Taken' = Taken \ {picked[s]}
      BY <2>2, LeavesEffect DEF EntryInvariant
    <3>2. sent' = Append(sent, picked[s])
      BY <2>2, HandsOverEffect
    <3>3. PICK e \in Member : e = picked[s]
      BY <3>1
    <3>4. HandOff!HandOver(e)
      BY <3>1, <3>2, <3>3 DEF HandOff!HandOver
    <3> QED BY <3>4
  <2>3. CASE Drops(s)
    <3>1. /\ picked[s] \in Taken /\ picked[s] \in Member /\ zset' = zset
          /\ Taken' = Taken \ {picked[s]}
      BY <2>3, LeavesEffect DEF EntryInvariant
    <3>2. sent' = sent
      BY <2>3 DEF Drops
    <3>3. PICK e \in Member : e = picked[s]
      BY <3>1
    <3>4. HandOff!Drop(e)
      BY <3>1, <3>2, <3>3 DEF HandOff!Drop
    <3> QED BY <3>4
  <2>4. CASE spc[s] # "send" /\ spc'[s] # "send" /\ UNCHANGED <<zset, sent, dropped>>
    BY <1>1, <1>4, <2>4, IdleCase
  <2> QED BY <1>4, <2>1, <2>2, <2>3, <2>4, SchedulerCases
<1> QED BY <1>2, <1>3, <1>4, NextCases

(* Workers and schedulers implement HandOffPromise: an entry is taken by one
   scheduler and handed over at most once, however the three commands of
   pop_highest interleave. *)
THEOREM QueueKeepsHandOff == Spec => KeepsHandOff
BY HandOffInit, HandOffStep, QueueTypeCorrect, EntriesAlways, PTL
DEF Spec, KeepsHandOff, HandOff!Spec

-----------------------------------------------------------------------------
(* The most urgent entry first. *)

LEMMA TopInit == Init => TopIsHighest
BY DEF Init, TopIsHighest

(* An entry a scheduler saw and that still waits was waiting all the time. *)
LEMMA SeenWaited ==
  ASSUME TypeOK, EntryInvariant, [Next]_vars, NEW t \in Schedulers,
         NEW m \in snapshot[t] \cap zset'
  PROVE  m \in zset
<1>1. ASSUME NEW w \in Workers, WorkerAct(w) PROVE m \in zset
  <2>1. zset' = zset \/ (wpc[w] = "zadd" /\ zset' = zset \cup {EntryOf(w)})
    BY <1>1, WorkerEntries DEF AddMember, EntryOf
  <2>2. wpc[w] = "zadd" => EntryOf(w) \notin snapshot[t]
    BY NewEntryFresh
  <2> QED BY <2>1, <2>2
<1>2. ASSUME NEW s \in Schedulers, SchedulerAct(s) PROVE m \in zset
  BY <1>2 DEF SchedulerAct, SchedulerStep, ReadTopScore, PickOldest, Remove, ComeAwayEmpty,
     Send, PopFails
<1> QED BY <1>1, <1>2, NextCases, RequestUnchanged DEF vars

LEMMA TopStep ==
  ASSUME TypeOK, EntryInvariant, TopIsHighest, [Next]_vars
  PROVE  TopIsHighest'
<1> SUFFICES ASSUME NEW t \in Schedulers, NEW m \in snapshot'[t] \cap zset'
             PROVE  /\ spc'[t] = "range" => ScoreOf(m) <= top'[t]
                    /\ spc'[t] = "remove" => ~Before(m, picked'[t])
  BY DEF TopIsHighest, ScoreOf, Before
<1>1. ASSUME spc'[t] = spc[t], top'[t] = top[t], picked'[t] = picked[t],
             snapshot'[t] = snapshot[t]
      PROVE  /\ spc'[t] = "range" => ScoreOf(m) <= top'[t]
             /\ spc'[t] = "remove" => ~Before(m, picked'[t])
  <2>1. m \in zset
    BY <1>1, SeenWaited
  <2> QED BY <1>1, <2>1 DEF TopIsHighest
<1>2. CASE ReadTopScore(t)
  <2>1. spc'[t] = "range" /\ snapshot'[t] = zset
    BY <1>2 DEF ReadTopScore, GotoS, TypeOK
  <2>2. PICK n \in zset : /\ \A k \in zset : ScoreOf(k) <= ScoreOf(n)
                          /\ top' = [top EXCEPT ![t] = ScoreOf(n)]
    BY <1>2 DEF ReadTopScore
  <2> QED BY <2>1, <2>2 DEF TypeOK
<1>3. CASE PickOldest(t)
  <2>1. /\ spc[t] = "range" /\ spc'[t] = "remove"
        /\ snapshot'[t] = snapshot[t] /\ zset' = zset
    BY <1>3 DEF PickOldest, GotoS, TypeOK
  <2>2. PICK n \in AtScore(top[t]) : /\ \A k \in AtScore(top[t]) : n.ordinal <= k.ordinal
                                     /\ picked' = [picked EXCEPT ![t] = n]
    BY <1>3 DEF PickOldest
  <2>3. picked'[t] = n /\ ScoreOf(n) = top[t]
    BY <2>2 DEF TypeOK, AtScore
  <2>4. ScoreOf(m) <= top[t] /\ m \in Member /\ n \in Member
    BY <2>1, <2>2 DEF TopIsHighest, TypeOK, AtScore
  <2>5. ScoreOf(m) = top[t] => n.ordinal <= m.ordinal
    BY <2>1, <2>2 DEF AtScore
  <2>6. /\ ScoreOf(m) \in Nat /\ top[t] \in Nat
        /\ m.ordinal \in Int /\ n.ordinal \in Int
    BY <2>4, ScoreIsNat DEF TypeOK, Member
  <2>7. ~Before(m, n)
    BY <2>3, <2>4, <2>5, <2>6 DEF Before
  <2> QED BY <2>1, <2>3, <2>7
<1>4. CASE Remove(t) \/ ComeAwayEmpty(t) \/ Send(t) \/ PopFails(t)
  BY <1>4 DEF Remove, ComeAwayEmpty, Send, PopFails, GotoS, TypeOK
<1>5. ASSUME NEW s \in Schedulers, SchedulerAct(s), s # t
      PROVE  /\ spc'[t] = spc[t] /\ top'[t] = top[t] /\ picked'[t] = picked[t]
             /\ snapshot'[t] = snapshot[t]
  BY <1>5, OtherSchedulers
<1>6. ASSUME UNCHANGED schedulerVars
      PROVE  /\ spc'[t] = spc[t] /\ top'[t] = top[t] /\ picked'[t] = picked[t]
             /\ snapshot'[t] = snapshot[t]
  BY <1>6 DEF schedulerVars
<1>7. CASE SchedulerAct(t)
  BY <1>2, <1>3, <1>4, <1>7 DEF SchedulerAct, SchedulerStep
<1> QED BY <1>1, <1>5, <1>6, <1>7, NextCases, RequestUnchanged, WorkerUnchanged DEF vars

LEMMA TopAlways == Spec => []TopIsHighest
BY TopInit, TopStep, QueueTypeCorrect, EntriesAlways, PTL DEF Spec

(* A scheduler never removes an entry while a more urgent one waits that was
   already there when it looked for the highest score. *)
THEOREM MostUrgentPopped == Spec => []MostUrgentFirst
<1>1. TopIsHighest => MostUrgentFirst
  BY DEF TopIsHighest, MostUrgentFirst
<1> QED BY <1>1, TopAlways, PTL

-----------------------------------------------------------------------------
(* No silent drop. *)

DropInvariant == NoSilentDrop /\ StagedHasEntry

LEMMA TraceableIs ==
  ASSUME NEW d
  PROVE  Traceable(d) <=> \/ requests[d] > 0
                          \/ Queued(d)
                          \/ \E w \in Workers : Working(w, d)
                          \/ HasEntry(d)
                          \/ d \in deadLetters
BY DEF Traceable, Queued, Working, HasEntry, Entries, Taken, SentEntries, HandedOff

LEMMA DropInit == Init => DropInvariant
BY DEF Init, DropInvariant, NoSilentDrop, StagedHasEntry, Stored

LEMMA DroppedStays ==
  ASSUME TypeOK, [Next]_vars
  PROVE  dropped \subseteq dropped' /\ deadLetters \subseteq deadLetters'
<1>1. ASSUME NEW d \in Deliveries, Request(d) PROVE dropped \subseteq dropped'
  BY <1>1 DEF Request, Ingest, Dispatch, DispatchFails, historyVars
<1>2. ASSUME NEW w \in Workers, WorkerAct(w)
      PROVE  dropped \subseteq dropped' /\ deadLetters \subseteq deadLetters'
  BY <1>2 DEF WorkerAct, WorkerStep, Take, Stamp, Zadd, Ack, Retry, DeadLetter, StageFails,
     WorkerCrash, historyVars
<1>3. ASSUME NEW s \in Schedulers, SchedulerAct(s) PROVE dropped \subseteq dropped'
  BY <1>3 DEF SchedulerAct, SchedulerStep, ReadTopScore, PickOldest, Remove, ComeAwayEmpty,
     Send, PopFails, historyVars
<1> QED BY <1>1, <1>2, <1>3, NextCases, RequestUnchanged, SchedulerUnchanged DEF vars, historyVars

LEMMA EntryStays ==
  ASSUME TypeOK, EntryInvariant, [Next]_vars, NEW d, HasEntry(d)
  PROVE  HasEntry(d)' \/ d \in dropped'
<1>1. PICK e \in Entries : e.delivery = d
  BY DEF HasEntry
<1>2. ASSUME Entries \subseteq Entries' PROVE HasEntry(d)'
  BY <1>1, <1>2 DEF HasEntry
<1>3. ASSUME UNCHANGED <<zset, sent, schedulerVars>> PROVE Entries' = Entries
  BY <1>3 DEF schedulerVars, Entries, Taken, SentEntries
<1>4. ASSUME NEW w \in Workers, WorkerAct(w) PROVE Entries \subseteq Entries'
  BY <1>4, WorkerEntries DEF AddMember, Entries, SentEntries
<1>5. ASSUME NEW s \in Schedulers, SchedulerAct(s) PROVE HasEntry(d)' \/ d \in dropped'
  <2>1. CASE TakesOut(s)
    BY <1>2, <1>5, <2>1, MoveOnTaken
  <2>2. CASE HandsOver(s)
    BY <1>2, <1>5, <2>2, MoveOnHanded
  <2>3. CASE Drops(s)
    <3>1. Entries' = Entries \ {picked[s]}
      BY <1>5, <2>3, MoveOnDropped
    <3>2. CASE e = picked[s]
      BY <1>1, <2>3, <3>2 DEF Drops
    <3>3. CASE e # picked[s]
      BY <1>1, <3>1, <3>3 DEF HasEntry
    <3> QED BY <3>2, <3>3
  <2>4. CASE spc[s] # "send" /\ spc'[s] # "send" /\ UNCHANGED <<zset, sent, dropped>>
    BY <1>2, <1>5, <2>4, MoveOnUntouched
  <2> QED BY <1>5, <2>1, <2>2, <2>3, <2>4, SchedulerCases
<1> QED BY <1>2, <1>3, <1>4, <1>5, NextCases, RequestUnchanged DEF vars

(* A worker passes the delivery it works on along. *)
LEMMA WorkPassedOn ==
  ASSUME TypeOK, EntryInvariant, StagedHasEntry, [Next]_vars, NEW w \in Workers, WorkerAct(w),
         NEW d \in Deliveries, Working(w, d), d \notin dropped'
  PROVE  Working(w, d)' \/ Queued(d)' \/ HasEntry(d)' \/ d \in deadLetters'
<1>0. job[w] \in Job /\ job[w].delivery = d
  BY DEF Working, TypeOK
<1>1. CASE wpc[w] = "staged" /\ wpc'[w] = "idle"
  <2>1. HasEntry(d)
    BY <1>0, <1>1, DroppedStays DEF StagedHasEntry
  <2> QED BY <2>1, EntryStays
<1>2. CASE Stamp(w) \/ Zadd(w) \/ StageFails(w)
  BY <1>0, <1>2 DEF Stamp, Zadd, StageFails, GotoW, Working, TypeOK
<1>3. CASE Retry(w)
  <2>1. NextTry(job[w]) \in Job /\ NextTry(job[w]).delivery = d
    BY <1>0, <1>3, JobFacts DEF Retry
  <2>2. ingestion' = [ingestion EXCEPT ![NextTry(job[w])] = ingestion[NextTry(job[w])] + 1]
    BY <1>3 DEF Retry
  <2>3. ingestion[NextTry(job[w])] \in Nat
    BY <2>1 DEF TypeOK
  <2>4. ingestion'[NextTry(job[w])] > 0
    BY <2>1, <2>2, <2>3 DEF TypeOK
  <2> QED BY <2>1, <2>4 DEF Queued
<1>4. CASE DeadLetter(w)
  BY <1>0, <1>4 DEF DeadLetter
<1>5. CASE WorkerCrash(w) /\ wpc[w] # "staged"
  <2>1. ingestion' = [ingestion EXCEPT ![job[w]] = ingestion[job[w]] + 1]
    BY <1>0, <1>5 DEF WorkerCrash
  <2>2. ingestion[job[w]] \in Nat
    BY <1>0 DEF TypeOK
  <2>3. ingestion'[job[w]] > 0
    BY <1>0, <2>1, <2>2 DEF TypeOK
  <2> QED BY <1>0, <2>3 DEF Queued
<1>6. Ack(w) \/ WorkerCrash(w) => wpc'[w] = "idle"
  BY DEF Ack, WorkerCrash, GotoW, TypeOK
<1>7. Ack(w) => wpc[w] = "staged"
  BY DEF Ack, GotoW
<1>8. ~Take(w)
  BY DEF Take, GotoW, Working
<1> QED BY <1>1, <1>2, <1>3, <1>4, <1>5, <1>6, <1>7, <1>8 DEF WorkerAct, WorkerStep

(* A message that disappears was taken by a worker. *)
LEMMA MessagePassedOn ==
  ASSUME TypeOK, [Next]_vars, NEW d \in Deliveries, Queued(d)
  PROVE  Queued(d)' \/ \E w \in Workers : Working(w, d)'
<1>1. PICK j \in Job : j.delivery = d /\ ingestion[j] > 0
  BY DEF Queued
<1>2. ASSUME ingestion'[j] > 0 PROVE Queued(d)'
  BY <1>1, <1>2 DEF Queued
<1>3. ASSUME NEW c \in Deliveries, Request(c) PROVE ingestion'[j] > 0
  <2>1. \/ ingestion' = ingestion
        \/ ingestion' = [ingestion EXCEPT ![FirstTry(c)] = ingestion[FirstTry(c)] + 1]
    BY <1>3 DEF Request, Ingest, Dispatch, DispatchFails
  <2>2. ingestion[j] \in Nat
    BY DEF TypeOK
  <2>3. ingestion'[j] = ingestion[j] \/ ingestion'[j] = ingestion[j] + 1
    BY <2>1 DEF TypeOK
  <2> QED BY <1>1, <2>2, <2>3
<1>4. ASSUME NEW w \in Workers, WorkerAct(w)
      PROVE  ingestion'[j] > 0 \/ Working(w, d)'
  <2>1. CASE Take(w)
    <3>1. PICK k \in Job : /\ ingestion' = [ingestion EXCEPT ![k] = @ - 1]
                           /\ job' = [job EXCEPT ![w] = k]
      BY <2>1 DEF Take
    <3>2. CASE k = j
      BY <1>1, <2>1, <3>1, <3>2 DEF Take, GotoW, Working, TypeOK
    <3>3. CASE k # j
      BY <1>1, <3>1, <3>3 DEF TypeOK
    <3> QED BY <3>2, <3>3
  <2>2. CASE ~Take(w)
    <3>1. \/ ingestion' = ingestion
          \/ \E k \in Job : ingestion' = [ingestion EXCEPT ![k] = ingestion[k] + 1]
      <4>1. CASE Retry(w)
        <5>1. NextTry(job[w]) \in Job
          BY <4>1, JobFacts DEF Retry, GotoW, TypeOK
        <5> QED BY <4>1, <5>1 DEF Retry
      <4>2. CASE WorkerCrash(w)
        <5>1. job[w] \in Job
          BY <4>2 DEF WorkerCrash, TypeOK
        <5> QED BY <4>2, <5>1 DEF WorkerCrash
      <4> QED BY <1>4, <2>2, <4>1, <4>2 DEF WorkerAct, WorkerStep, Stamp, Zadd, Ack,
             DeadLetter, StageFails
    <3>2. ingestion[j] \in Nat
      BY DEF TypeOK
    <3>3. ingestion'[j] = ingestion[j] \/ ingestion'[j] = ingestion[j] + 1
      BY <3>1 DEF TypeOK
    <3> QED BY <1>1, <3>2, <3>3
  <2> QED BY <2>1, <2>2
<1> QED BY <1>1, <1>2, <1>3, <1>4, NextCases, SchedulerUnchanged DEF vars

(* A request that ends leaves a message, unless the dispatch failed. *)
LEMMA RequestPassedOn ==
  ASSUME TypeOK, [Next]_vars, NEW d \in Deliveries, requests[d] > 0, d \notin dropped'
  PROVE  requests'[d] > 0 \/ Queued(d)'
<1>1. ASSUME NEW c \in Deliveries, Request(c) PROVE requests'[d] > 0 \/ Queued(d)'
  <2>1. CASE c # d \/ Ingest(c)
    <3>1. \/ requests' = [requests EXCEPT ![c] = requests[c] + 1] /\ Ingest(c)
          \/ requests' = [requests EXCEPT ![c] = requests[c] - 1]
      BY <1>1 DEF Request, Ingest, Dispatch, DispatchFails, EndRequest
    <3>2. requests[c] \in Nat /\ requests[d] \in Nat
      BY DEF TypeOK
    <3>3. CASE Ingest(c)
      <4>1. requests' = [requests EXCEPT ![c] = requests[c] + 1]
        BY <3>3 DEF Ingest
      <4> QED BY <3>2, <4>1 DEF TypeOK
    <3>4. CASE c # d
      BY <3>1, <3>2, <3>4 DEF TypeOK
    <3> QED BY <2>1, <3>3, <3>4
  <2>2. CASE Dispatch(c) /\ c = d
    <3>1. FirstTry(d) \in Job /\ FirstTry(d).delivery = d
      BY JobFacts
    <3>2. ingestion' = [ingestion EXCEPT ![FirstTry(d)] = ingestion[FirstTry(d)] + 1]
      BY <2>2 DEF Dispatch
    <3>3. ingestion[FirstTry(d)] \in Nat
      BY <3>1 DEF TypeOK
    <3>4. ingestion'[FirstTry(d)] > 0
      BY <3>1, <3>2, <3>3 DEF TypeOK
    <3> QED BY <3>1, <3>4 DEF Queued
  <2>3. CASE DispatchFails(c) /\ c = d
    BY <2>3 DEF DispatchFails
  <2> QED BY <1>1, <2>1, <2>2, <2>3 DEF Request
<1>2. requests' = requests => requests'[d] > 0
  OBVIOUS
<1> QED BY <1>1, <1>2, NextCases, WorkerUnchanged, SchedulerUnchanged DEF vars, webhookVars

LEMMA TraceStep ==
  ASSUME TypeOK, EntryInvariant, DropInvariant, [Next]_vars
  PROVE  NoSilentDrop'
<1> SUFFICES ASSUME NEW d \in Deliveries, Stored(d)', d \notin dropped'
             PROVE  \/ requests'[d] > 0
                    \/ Queued(d)'
                    \/ \E w \in Workers : Working(w, d)'
                    \/ HasEntry(d)'
                    \/ d \in deadLetters'
  BY DEF NoSilentDrop, Traceable, Queued, Working, HasEntry, Entries, Taken, SentEntries,
     HandedOff
<1>1. d \notin dropped
  BY DroppedStays
<1>2. CASE ~Stored(d)
  <2>1. Ingest(d)
    <3>1. sends' # sends
      BY <1>2 DEF Stored
    <3>2. PICK c \in Deliveries : Ingest(c)
      BY <3>1, NextCases, WorkerUnchanged, SchedulerUnchanged
      DEF vars, webhookVars, Request, Dispatch, DispatchFails
    <3>3. c # d => sends'[d] = sends[d]
      BY <3>2 DEF Ingest, TypeOK
    <3> QED BY <1>2, <3>2, <3>3 DEF Stored
  <2>2. requests' = [requests EXCEPT ![d] = requests[d] + 1] /\ requests[d] \in Nat
    BY <2>1 DEF Ingest, TypeOK
  <2> QED BY <2>2 DEF TypeOK
<1>3. CASE Stored(d)
  <2>1. \/ requests[d] > 0
        \/ Queued(d)
        \/ \E w \in Workers : Working(w, d)
        \/ HasEntry(d)
        \/ d \in deadLetters
    BY <1>1, <1>3, TraceableIs DEF DropInvariant, NoSilentDrop
  <2>2. CASE requests[d] > 0
    BY <2>2, RequestPassedOn
  <2>3. CASE Queued(d)
    BY <2>3, MessagePassedOn
  <2>4. ASSUME NEW w \in Workers, Working(w, d)
        PROVE  \/ Working(w, d)'
               \/ Queued(d)'
               \/ HasEntry(d)'
               \/ d \in deadLetters'
    <3>1. CASE WorkerAct(w)
      BY <2>4, <3>1, WorkPassedOn DEF DropInvariant
    <3>2. ASSUME NEW v \in Workers, WorkerAct(v), v # w PROVE Working(w, d)'
      BY <2>4, <3>2, OtherWorkers DEF Working
    <3>3. UNCHANGED workerVars => Working(w, d)'
      BY <2>4 DEF workerVars, Working
    <3> QED BY <3>1, <3>2, <3>3, NextCases, RequestUnchanged, SchedulerUnchanged DEF vars
  <2>5. CASE HasEntry(d)
    BY <2>5, EntryStays
  <2>6. CASE d \in deadLetters
    BY <2>6, DroppedStays
  <2> QED BY <2>1, <2>2, <2>3, <2>4, <2>5, <2>6
<1> QED BY <1>2, <1>3

(* A worker whose ZADD went through has its entry, until a scheduler drops it. *)
LEMMA StagedStep ==
  ASSUME TypeOK, EntryInvariant, DropInvariant, [Next]_vars
  PROVE  StagedHasEntry'
<1> SUFFICES ASSUME NEW w \in Workers, wpc'[w] = "staged"
             PROVE  HasEntry(job[w].delivery)' \/ job'[w].delivery \in dropped'
  BY DEF StagedHasEntry, HasEntry
<1>1. CASE wpc[w] = "staged" /\ job'[w] = job[w]
  <2>1. HasEntry(job[w].delivery) \/ job[w].delivery \in dropped
    BY <1>1 DEF DropInvariant, StagedHasEntry
  <2>2. PICK d : d = job[w].delivery
    OBVIOUS
  <2>3. HasEntry(d) => HasEntry(d)' \/ d \in dropped'
    BY EntryStays
  <2>4. HasEntry(d)' => HasEntry(job[w].delivery)'
    BY <1>1, <2>2 DEF HasEntry
  <2> QED BY <1>1, <2>1, <2>2, <2>3, <2>4, DroppedStays DEF HasEntry
<1>2. CASE WorkerAct(w)
  <2>1. CASE Zadd(w)
    <3>1. job' = job /\ zset' = zset \cup {make_member(ordinal[w], job[w].delivery)}
      BY <2>1 DEF Zadd, AddMember
    <3>2. make_member(ordinal[w], job[w].delivery).delivery = job[w].delivery
      BY DEF make_member
    <3> QED BY <3>1, <3>2 DEF HasEntry, Entries
  <2>2. CASE ~Zadd(w)
    BY <1>2, <2>2 DEF WorkerAct, WorkerStep, Take, Stamp, Ack, Retry, DeadLetter, StageFails,
       WorkerCrash, GotoW, TypeOK
  <2> QED BY <2>1, <2>2
<1>3. ASSUME NEW v \in Workers, WorkerAct(v), v # w PROVE wpc[w] = "staged" /\ job'[w] = job[w]
  BY <1>3, OtherWorkers
<1>4. UNCHANGED workerVars => wpc[w] = "staged" /\ job'[w] = job[w]
  BY DEF workerVars
<1> QED BY <1>1, <1>2, <1>3, <1>4, NextCases, RequestUnchanged, SchedulerUnchanged DEF vars

LEMMA DropAlways == Spec => []DropInvariant
<1>1. TypeOK /\ EntryInvariant /\ DropInvariant /\ [Next]_vars => DropInvariant'
  BY TraceStep, StagedStep DEF DropInvariant
<1> QED BY <1>1, DropInit, QueueTypeCorrect, EntriesAlways, PTL DEF Spec

(* A stored review has a trace in the queues, unless one of the failures that
   drop it happened. *)
THEOREM NothingDroppedSilently == Spec => []NoSilentDrop
<1>1. DropInvariant => NoSilentDrop
  BY DEF DropInvariant
<1> QED BY <1>1, DropAlways, PTL

-----------------------------------------------------------------------------
(* One delivery, one place. *)

LEMMA PlaceInit == Init => OnePlace
BY DEF Init, OnePlace, OnePlaceOf, NowhereYet, InOnePlace, Queued, Working, Staging, HasEntry,
   Entries, Taken, SentEntries

(* Of a delivery nothing is added: it stays in one place. *)
Fewer(d) ==
  /\ sends'[d] = sends[d]
  /\ requests'[d] <= requests[d]
  /\ \A j \in Job : j.delivery = d => ingestion'[j] <= ingestion[j]
  /\ \A w \in Workers : /\ Working(w, d)' => Working(w, d)
                        /\ Staging(w, d)' => Staging(w, d) \/ d \in repeated'
  /\ \A e \in Entries' : e.delivery = d => e \in Entries
  /\ repeated \subseteq repeated'

LEMMA FewerStays ==
  ASSUME TypeOK, TypeOK', NEW d \in Deliveries, OnePlaceOf(d), Fewer(d)
  PROVE  OnePlaceOf(d)'
<1>1. /\ requests[d] \in Nat /\ requests'[d] \in Nat /\ requests'[d] <= requests[d]
      /\ \A j \in Job : ingestion[j] \in Nat /\ ingestion'[j] \in Nat
  BY DEF TypeOK, Fewer
<1>2. Queued(d)' => Queued(d)
  BY <1>1 DEF Queued, Fewer
<1>3. HasEntry(d)' => HasEntry(d)
  BY DEF HasEntry, Fewer
<1>4. ASSUME sends'[d] = 0 PROVE NowhereYet(d)'
  <2>1. NowhereYet(d)
    BY <1>4 DEF OnePlaceOf, Fewer
  <2>2. \A w \in Workers : ~Working(w, d)'
    BY <2>1 DEF NowhereYet, Fewer, Working
  <2> QED BY <1>1, <1>2, <1>3, <2>1, <2>2 DEF NowhereYet
<1>5. ASSUME sends'[d] <= 1, d \notin repeated' PROVE InOnePlace(d)'
  <2>1. InOnePlace(d)
    BY <1>5 DEF OnePlaceOf, Fewer
  <2>2. \A w \in Workers : Staging(w, d)' => Staging(w, d)
    BY <1>5 DEF Fewer
  <2>3. requests'[d] <= 1 /\ (requests'[d] = 1 => ~Queued(d)')
    BY <1>1, <1>2, <2>1 DEF InOnePlace
  <2>4. \A j \in Job : j.delivery = d =>
          /\ ingestion'[j] <= 1
          /\ \A k \in Job : k.delivery = d /\ ingestion'[j] > 0 /\ ingestion'[k] > 0 => j = k
    BY <1>1, <2>1 DEF InOnePlace, Fewer
  <2>5. \A w \in Workers : Staging(w, d)' =>
          requests'[d] = 0 /\ ~Queued(d)' /\ \A v \in Workers : Staging(v, d)' => v = w
    BY <1>1, <1>2, <2>1, <2>2 DEF InOnePlace
  <2>6. HasEntry(d)' => requests'[d] = 0 /\ ~Queued(d)' /\ \A w \in Workers : ~Staging(w, d)'
    BY <1>1, <1>2, <1>3, <2>1, <2>2 DEF InOnePlace
  <2>7. HasEntry(d)' => \A e, f \in Entries' : e.delivery = d /\ f.delivery = d => e = f
    BY <1>3, <2>1 DEF InOnePlace, Fewer
  <2> QED BY <2>3, <2>4, <2>5, <2>6, <2>7 DEF InOnePlace
<1> QED BY <1>4, <1>5 DEF OnePlaceOf

LEMMA RequestPlace ==
  ASSUME TypeOK, TypeOK', OnePlace, NEW c \in Deliveries, Request(c), NEW d \in Deliveries
  PROVE  OnePlaceOf(d)'
<1>1. OnePlaceOf(d)
  BY DEF OnePlace
<1>2. Entries' = Entries
  BY RequestUnchanged DEF schedulerVars, Entries, Taken, SentEntries
<1>3. \A w \in Workers : (Working(w, d)' <=> Working(w, d)) /\ (Staging(w, d)' <=> Staging(w, d))
  BY RequestUnchanged DEF workerVars, Working, Staging
<1>4. HasEntry(d)' <=> HasEntry(d)
  BY <1>2 DEF HasEntry
<1>5. repeated' = repeated
  BY RequestUnchanged
<1>6. requests[d] \in Nat /\ requests[c] \in Nat /\ sends[d] \in Nat /\ ingestion \in [Job -> Nat]
  BY QueueAssumption DEF TypeOK
<1>7. FirstTry(c) \in Job /\ FirstTry(c).delivery = c
  BY JobFacts
<1>8. CASE c # d \/ DispatchFails(c)
  <2>1. sends'[d] = sends[d] /\ requests'[d] <= requests[d]
    BY <1>6, <1>8 DEF Request, Ingest, Dispatch, DispatchFails, EndRequest, TypeOK
  <2>2. \A j \in Job : j.delivery = d => ingestion'[j] <= ingestion[j]
    <3>1. \/ ingestion' = ingestion
          \/ c # d /\ ingestion' = [ingestion EXCEPT ![FirstTry(c)] = ingestion[FirstTry(c)] + 1]
      BY <1>8 DEF Request, Ingest, Dispatch, DispatchFails
    <3>2. \A j \in Job : j.delivery = d => ingestion'[j] = ingestion[j]
      BY <1>6, <1>7, <3>1
    <3> QED BY <1>6, <3>2
  <2>3. Fewer(d)
    BY <1>2, <1>3, <1>5, <2>1, <2>2 DEF Fewer
  <2> QED BY <1>1, <2>3, FewerStays
<1>9. CASE Ingest(c) /\ c = d
  <2>1. /\ sends'[d] = sends[d] + 1 /\ requests'[d] = requests[d] + 1 /\ ingestion' = ingestion
    BY <1>9 DEF Ingest, TypeOK
  <2>2. sends'[d] <= 1 => sends[d] = 0
    BY <1>6, <2>1
  <2>3. Queued(d)' <=> Queued(d)
    BY <2>1 DEF Queued
  <2>4. ASSUME NowhereYet(d) PROVE InOnePlace(d)'
    <3>1. requests'[d] = 1 /\ ~Queued(d)' /\ ~HasEntry(d)'
      BY <1>4, <2>1, <2>3, <2>4 DEF NowhereYet
    <3>2. \A w \in Workers : ~Staging(w, d)'
      BY <1>3, <2>4 DEF NowhereYet, Working, Staging
    <3>3. \A j \in Job : j.delivery = d => ingestion'[j] = 0
      BY <1>6, <2>1, <3>1 DEF Queued
    <3> QED BY <3>1, <3>2, <3>3 DEF InOnePlace
  <2> QED BY <1>1, <1>6, <2>1, <2>2, <2>4 DEF OnePlaceOf
<1>10. CASE Dispatch(c) /\ c = d
  <2>1. /\ sends' = sends /\ requests[d] > 0 /\ requests'[d] = requests[d] - 1
        /\ ingestion' = [ingestion EXCEPT ![FirstTry(d)] = ingestion[FirstTry(d)] + 1]
    BY <1>10 DEF Dispatch, EndRequest, TypeOK
  <2>2. sends[d] # 0
    BY <1>1, <1>6, <2>1 DEF OnePlaceOf, NowhereYet
  <2>3. ASSUME InOnePlace(d) PROVE InOnePlace(d)'
    <3>1. requests[d] = 1 /\ requests'[d] = 0 /\ ~Queued(d)
      BY <1>6, <2>1, <2>3 DEF InOnePlace
    <3>2. ~HasEntry(d)' /\ \A w \in Workers : ~Staging(w, d)'
      BY <1>3, <1>4, <2>3, <3>1 DEF InOnePlace
    <3>3. \A j \in Job : j.delivery = d => ingestion[j] = 0
      BY <1>6, <3>1 DEF Queued
    <3>4. \A j \in Job : j.delivery = d => ingestion'[j] = IF j = FirstTry(d) THEN 1 ELSE 0
      BY <1>6, <1>7, <1>10, <2>1, <3>3
    <3> QED BY <3>1, <3>2, <3>4 DEF InOnePlace
  <2> QED BY <1>1, <1>5, <2>1, <2>2, <2>3 DEF OnePlaceOf
<1> QED BY <1>8, <1>9, <1>10 DEF Request

LEMMA SchedulerPlace ==
  ASSUME TypeOK, TypeOK', EntryInvariant, OnePlace, NEW s \in Schedulers, SchedulerAct(s),
         NEW d \in Deliveries
  PROVE  OnePlaceOf(d)'
<1>1. \A e \in Entries' : e \in Entries
  <2>1. CASE TakesOut(s)
    BY <2>1, TakesOutEffect DEF Entries, SentEntries
  <2>2. CASE HandsOver(s)
    BY <2>2, LeavesEffect, HandsOverEffect DEF Entries, EntryInvariant
  <2>3. CASE Drops(s)
    BY <2>3, LeavesEffect DEF Entries, EntryInvariant, SentEntries, Drops
  <2>4. CASE spc[s] # "send" /\ spc'[s] # "send" /\ UNCHANGED <<zset, sent, dropped>>
    BY <2>4, IdleCase DEF Entries, SentEntries
  <2> QED BY <2>1, <2>2, <2>3, <2>4, SchedulerCases
<1>2. UNCHANGED <<sends, requests, ingestion, wpc, job, repeated>>
  BY SchedulerUnchanged DEF webhookVars, workerVars
<1>3. requests[d] \in Nat /\ \A j \in Job : ingestion[j] \in Nat
  BY DEF TypeOK
<1>4. Fewer(d)
  BY <1>1, <1>2, <1>3 DEF Fewer, Working, Staging
<1> QED BY <1>4, FewerStays DEF OnePlace

(* What every step of a worker leaves alone. *)
LEMMA WorkerFrame ==
  ASSUME TypeOK, NEW w \in Workers, WorkerAct(w)
  PROVE  /\ UNCHANGED <<sends, requests>>
         /\ Entries \subseteq Entries'
         /\ Entries' # Entries => /\ wpc[w] = "zadd" /\ (Zadd(w) \/ StageFails(w))
                                  /\ Entries' = Entries \cup {EntryOf(w)}
         /\ EntryOf(w).delivery = job[w].delivery
         /\ \A v \in Workers \ {w} : wpc'[v] = wpc[v] /\ job'[v] = job[v]
         /\ repeated \subseteq repeated'
<1>1. EntryOf(w).delivery = job[w].delivery
  BY DEF EntryOf, make_member
<1>2. UNCHANGED <<sends, requests>>
  BY WorkerUnchanged DEF webhookVars
<1>3. repeated \subseteq repeated'
  BY DEF WorkerAct, WorkerStep, Take, Stamp, Zadd, Ack, Retry, DeadLetter, StageFails, WorkerCrash,
     Repeat, historyVars
<1>4. SentEntries' = SentEntries /\ Taken' = Taken
  BY WorkerEntries DEF SentEntries
<1>5. \/ zset' = zset
      \/ /\ wpc[w] = "zadd" /\ (Zadd(w) \/ StageFails(w))
         /\ zset' = zset \cup {EntryOf(w)}
  BY WorkerEntries DEF AddMember, EntryOf
<1> QED BY <1>1, <1>2, <1>3, <1>4, <1>5, OtherWorkers DEF Entries

(* A worker gives the message back, as it is or as the next try. *)
LEMMA MessageReturns ==
  ASSUME TypeOK, NEW w \in Workers, WorkerAct(w), NEW d \in Deliveries,
         Staging(w, d), InOnePlace(d), Entries' = Entries, wpc'[w] = "idle",
         NEW k \in Job, k.delivery = d, ingestion' = [ingestion EXCEPT ![k] = ingestion[k] + 1]
  PROVE  InOnePlace(d)'
<1>1. requests'[d] = 0 /\ ~Queued(d) /\ ~HasEntry(d)
  BY WorkerFrame DEF InOnePlace
<1>2. ~HasEntry(d)'
  BY <1>1 DEF HasEntry
<1>3. \A v \in Workers : ~Staging(v, d)'
  BY WorkerFrame DEF InOnePlace, Staging
<1>4. \A j \in Job : j.delivery = d => ingestion[j] = 0
  BY <1>1 DEF Queued, TypeOK
<1>5. \A j \in Job : j.delivery = d => ingestion'[j] = IF j = k THEN 1 ELSE 0
  BY <1>4 DEF TypeOK
<1> QED BY <1>1, <1>2, <1>3, <1>5 DEF InOnePlace

(* A worker that has nothing to do with a delivery. *)
LEMMA ElsewhereFewer ==
  ASSUME TypeOK, NEW w \in Workers, WorkerAct(w), NEW d \in Deliveries,
         ~Working(w, d), ~Working(w, d)'
  PROVE  Fewer(d)
<1>1. \A j \in Job : j.delivery = d => ingestion'[j] = ingestion[j]
  <2>1. CASE Take(w)
    <3>1. PICK k \in Job : /\ ingestion' = [ingestion EXCEPT ![k] = @ - 1]
                           /\ job' = [job EXCEPT ![w] = k] /\ wpc' = [wpc EXCEPT ![w] = "load"]
      BY <2>1 DEF Take, GotoW
    <3>2. k.delivery # d
      BY <3>1 DEF Working, TypeOK
    <3> QED BY <3>1, <3>2 DEF TypeOK
  <2>2. CASE Retry(w)
    <3>1. NextTry(job[w]).delivery # d
      BY <2>2, JobFacts DEF Retry, GotoW, Working
    <3> QED BY <2>2, <3>1 DEF Retry, TypeOK
  <2>3. CASE WorkerCrash(w)
    <3>1. job[w].delivery # d
      BY <2>3 DEF WorkerCrash, Working
    <3> QED BY <2>3, <3>1 DEF WorkerCrash, TypeOK
  <2> QED BY <2>1, <2>2, <2>3 DEF WorkerAct, WorkerStep, Stamp, Zadd, Ack, DeadLetter, StageFails
<1>2. \A j \in Job : j.delivery = d => ingestion'[j] <= ingestion[j]
  BY <1>1 DEF TypeOK
<1>3. \A v \in Workers : (Working(v, d)' => Working(v, d)) /\ (Staging(v, d)' => Staging(v, d))
  BY WorkerFrame DEF Working, Staging
<1>4. \A e \in Entries' : e.delivery = d => e \in Entries
  BY WorkerFrame DEF Working
<1>5. sends'[d] = sends[d] /\ requests'[d] <= requests[d] /\ repeated \subseteq repeated'
  BY WorkerFrame DEF TypeOK
<1> QED BY <1>2, <1>3, <1>4, <1>5 DEF Fewer

(* A worker that works on a delivery. *)
LEMMA WorkingPlace ==
  ASSUME TypeOK, TypeOK', EntryInvariant, NEW w \in Workers, WorkerAct(w), NEW d \in Deliveries,
         OnePlaceOf(d), Working(w, d)
  PROVE  OnePlaceOf(d)'
<1>0. job[w] \in Job /\ job[w].delivery = d
  BY DEF Working, TypeOK
<1>1. sends'[d] # 0
  BY WorkerFrame DEF OnePlaceOf, NowhereYet
<1>2. ASSUME InOnePlace(d) => InOnePlace(d)' \/ d \in repeated' PROVE OnePlaceOf(d)'
  BY <1>1, <1>2, WorkerFrame DEF OnePlaceOf
<1>3. ASSUME Entries' = Entries, ingestion' = ingestion, Working(w, d)' => job'[w] = job[w],
             Staging(w, d)' => Staging(w, d) \/ d \in repeated'
      PROVE  OnePlaceOf(d)'
  <2>1. \A j \in Job : ingestion'[j] <= ingestion[j]
    BY <1>3 DEF TypeOK
  <2>2. \A v \in Workers : /\ Working(v, d)' => Working(v, d)
                           /\ Staging(v, d)' => Staging(v, d) \/ d \in repeated'
    BY <1>3, WorkerFrame DEF Working, Staging
  <2>3. sends'[d] = sends[d] /\ requests'[d] <= requests[d] /\ repeated \subseteq repeated'
    <3>1. UNCHANGED <<sends, requests>> /\ repeated \subseteq repeated'
      BY WorkerFrame
    <3> QED BY <3>1 DEF TypeOK
  <2>4. Fewer(d)
    BY <1>3, <2>1, <2>2, <2>3 DEF Fewer
  <2> QED BY <2>4, FewerStays
<1>4. wpc[w] # "zadd" => Entries' = Entries
  BY WorkerFrame
<1>5. CASE Stamp(w)
  BY <1>3, <1>4, <1>5 DEF Stamp, GotoW, Staging
<1>6. CASE Ack(w) \/ DeadLetter(w)
  BY <1>3, <1>4, <1>6 DEF Ack, DeadLetter, GotoW, Working, Staging, TypeOK
<1>7. CASE Zadd(w)
  <2>1. /\ wpc[w] = "zadd" /\ wpc'[w] = "staged" /\ ingestion' = ingestion
        /\ Entries' \subseteq Entries \cup {EntryOf(w)}
    BY <1>7, WorkerFrame DEF Zadd, GotoW, TypeOK
  <2>2. ASSUME InOnePlace(d) PROVE InOnePlace(d)'
    <3>1. /\ requests'[d] = 0 /\ ~Queued(d)' /\ ~HasEntry(d)
          /\ \A v \in Workers : Staging(v, d) => v = w
      BY <1>0, <2>1, <2>2, WorkerFrame DEF InOnePlace, Staging, Queued
    <3>2. \A v \in Workers : ~Staging(v, d)'
      BY <2>1, <3>1, WorkerFrame DEF Staging
    <3>3. \A e \in Entries' : e.delivery = d => e = EntryOf(w)
      BY <2>1, <3>1 DEF HasEntry
    <3>4. \A j \in Job : j.delivery = d => ingestion'[j] = 0
      BY <3>1 DEF Queued, TypeOK
    <3> QED BY <3>1, <3>2, <3>3, <3>4 DEF InOnePlace
  <2> QED BY <1>2, <2>2
<1>8. CASE StageFails(w)
  <2>1. /\ wpc[w] \in {"load", "zadd", "staged"} /\ job' = job /\ ingestion' = ingestion
        /\ d \in repeated' \/ (wpc[w] \in {"load", "zadd"} /\ zset' = zset)
    BY <1>0, <1>8 DEF StageFails, Repeat
  <2>2. CASE d \in repeated'
    BY <1>2, <2>2
  <2>3. CASE wpc[w] \in {"load", "zadd"} /\ zset' = zset
    <3>1. Entries' = Entries /\ Staging(w, d)
      BY <1>0, <2>3, WorkerEntries DEF Entries, SentEntries, Staging
    <3> QED BY <1>3, <2>1, <3>1
  <2> QED BY <2>1, <2>2, <2>3
<1>9. CASE Retry(w)
  <2>1. /\ Staging(w, d) /\ Entries' = Entries /\ wpc'[w] = "idle"
        /\ NextTry(job[w]) \in Job /\ NextTry(job[w]).delivery = d
        /\ ingestion' = [ingestion EXCEPT ![NextTry(job[w])] = ingestion[NextTry(job[w])] + 1]
    BY <1>0, <1>4, <1>9, JobFacts DEF Retry, GotoW, Staging, TypeOK
  <2> QED BY <1>2, <2>1, MessageReturns
<1>10. CASE WorkerCrash(w)
  <2>1. wpc'[w] = "idle"
    BY <1>10 DEF WorkerCrash, TypeOK
  <2>2. Entries' = Entries
    BY <1>10, WorkerEntries DEF WorkerCrash, Entries, SentEntries
  <2>3. CASE ingestion' = ingestion
    BY <1>3, <2>1, <2>2, <2>3 DEF Working, Staging
  <2>4. CASE ingestion' = [ingestion EXCEPT ![job[w]] = ingestion[job[w]] + 1] /\ wpc[w] # "staged"
    <3>1. Staging(w, d)
      BY <1>0, <2>4 DEF Working, Staging, TypeOK
    <3> QED BY <1>0, <1>2, <2>1, <2>2, <2>4, <3>1, MessageReturns
  <2>5. CASE d \in repeated'
    BY <1>2, <2>5
  <2> QED BY <1>0, <1>10, <2>3, <2>4, <2>5 DEF WorkerCrash, Repeat
<1>11. ~Take(w)
  BY DEF Take, GotoW, Working
<1> QED BY <1>5, <1>6, <1>7, <1>8, <1>9, <1>10, <1>11 DEF WorkerAct, WorkerStep

LEMMA WorkerPlace ==
  ASSUME TypeOK, TypeOK', EntryInvariant, OnePlace, NEW w \in Workers, WorkerAct(w),
         NEW d \in Deliveries
  PROVE  OnePlaceOf(d)'
<1>1. OnePlaceOf(d)
  BY DEF OnePlace
<1>2. CASE Working(w, d)
  BY <1>1, <1>2, WorkingPlace
<1>3. CASE ~Working(w, d) /\ ~Working(w, d)'
  BY <1>1, <1>3, ElsewhereFewer, FewerStays
<1>4. CASE ~Working(w, d) /\ Working(w, d)'
  <2>1. Take(w)
    BY <1>4 DEF WorkerAct, WorkerStep, Stamp, Zadd, Ack, Retry, DeadLetter, StageFails, WorkerCrash,
       GotoW, Working, TypeOK
  <2>2. PICK j \in Job : /\ ingestion[j] > 0 /\ ingestion' = [ingestion EXCEPT ![j] = ingestion[j] - 1]
                         /\ job' = [job EXCEPT ![w] = j] /\ wpc' = [wpc EXCEPT ![w] = "load"]
                         /\ wpc[w] = "idle"
    BY <2>1 DEF Take, GotoW
  <2>3. j.delivery = d
    BY <1>4, <2>2 DEF Working, TypeOK
  <2>4. Queued(d)
    BY <2>2, <2>3 DEF Queued
  <2>5. sends'[d] # 0 /\ repeated' = repeated /\ sends' = sends /\ requests' = requests
    BY <1>1, <2>1, <2>4 DEF OnePlaceOf, NowhereYet, Take, historyVars, webhookVars
  <2>6. ASSUME InOnePlace(d) PROVE InOnePlace(d)'
    <3>1. /\ requests'[d] = 0 /\ ~HasEntry(d)
          /\ \A v \in Workers : ~Staging(v, d)
          /\ \A k \in Job : k.delivery = d => k = j \/ ingestion[k] = 0
          /\ ingestion[j] = 1
      <4>1. requests[d] = 0
        BY <2>4, <2>6 DEF InOnePlace, TypeOK
      <4>2. \A k \in Job : k.delivery = d => k = j \/ ingestion[k] = 0
        BY <2>2, <2>3, <2>6 DEF InOnePlace, TypeOK
      <4>3. ingestion[j] = 1
        BY <2>2, <2>3, <2>6 DEF InOnePlace, TypeOK
      <4> QED BY <2>4, <2>5, <2>6, <4>1, <4>2, <4>3 DEF InOnePlace
    <3>2. \A k \in Job : k.delivery = d => ingestion'[k] = 0
      BY <2>2, <2>3, <3>1 DEF TypeOK
    <3>3. ~Queued(d)'
      BY <3>2 DEF Queued
    <3>4. Entries' = Entries
      BY <2>2, WorkerFrame
    <3>5. ~HasEntry(d)'
      BY <3>1, <3>4 DEF HasEntry
    <3>6. \A v \in Workers : Staging(v, d)' => v = w
      BY <3>1, WorkerFrame DEF Staging
    <3> QED BY <3>1, <3>2, <3>3, <3>5, <3>6 DEF InOnePlace
  <2> QED BY <1>1, <2>5, <2>6 DEF OnePlaceOf
<1> QED BY <1>2, <1>3, <1>4

LEMMA PlaceStep ==
  ASSUME TypeOK, TypeOK', EntryInvariant, OnePlace, [Next]_vars
  PROVE  OnePlace'
<1> SUFFICES ASSUME NEW d \in Deliveries PROVE OnePlaceOf(d)'
  BY DEF OnePlace
<1>1. CASE UNCHANGED vars
  <2>1. Fewer(d)
    BY <1>1 DEF vars, webhookVars, workerVars, schedulerVars, historyVars, Fewer, Working, Staging,
       Entries, Taken, SentEntries, TypeOK
  <2> QED BY <2>1, FewerStays DEF OnePlace
<1> QED BY <1>1, NextCases, RequestPlace, WorkerPlace, SchedulerPlace

LEMMA PlaceAlways == Spec => []OnePlace
<1>1. TypeOK /\ TypeOK' /\ EntryInvariant /\ OnePlace /\ [Next]_vars => OnePlace'
  BY PlaceStep
<1> QED BY <1>1, PlaceInit, QueueTypeCorrect, EntriesAlways, PTL DEF Spec

(* The orchestrator gets a review twice only if GitHub sent its delivery twice
   or a staged review was staged again, however many schedulers race for it. *)
THEOREM HandedOffOnce == Spec => []HandedOffTwiceOnlyIfRepeated
<1>1. ASSUME TypeOK, EntryInvariant, OnePlace PROVE HandedOffTwiceOnlyIfRepeated
  <2> SUFFICES ASSUME NEW d \in Deliveries \ repeated, sends[d] <= 1,
                      NEW i \in DOMAIN sent, NEW j \in DOMAIN sent,
                      sent[i].delivery = d, sent[j].delivery = d
               PROVE  i = j
    BY DEF HandedOffTwiceOnlyIfRepeated
  <2>1. InOnePlace(d)
    BY <1>1 DEF OnePlace, OnePlaceOf
  <2>2. sent[i] \in Entries /\ sent[j] \in Entries
    BY DEF Entries, SentEntries
  <2>3. sent[i] = sent[j]
    BY <2>1, <2>2 DEF InOnePlace, HasEntry
  <2> QED BY <1>1, <2>3 DEF EntryInvariant, EntriesMoveOn
<1> QED BY <1>1, QueueTypeCorrect, EntriesAlways, PlaceAlways, PTL

(* The inductive invariant that the properties of the queue follow from. *)
THEOREM QueueInvariantHolds == Spec => []QueueInvariant
<1>1. EntryInvariant /\ TopIsHighest /\ DropInvariant /\ OnePlace => QueueInvariant
  BY DEF EntryInvariant, DropInvariant, QueueInvariant
<1> QED BY <1>1, EntriesAlways, TopAlways, DropAlways, PlaceAlways, PTL

=============================================================================
