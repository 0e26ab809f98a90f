----------------------------- MODULE IntakeProofs -----------------------------
(* Proofs about Intake, for any deliveries, requests and clients: types, that
   the limiter is exact, and that the row of the pull request is that of one
   delivery, the newest. *)
EXTENDS Intake, FiniteSetTheorems, SequenceTheorems, TLAPS

USE IntakeAssumption

-----------------------------------------------------------------------------
(* What is left of a client's hits is a sequence of the same instants. *)
LEMMA PrunedIsSeq ==
  ASSUME TypeOK, NEW c \in Clients PROVE Pruned(c) \in Seq(0 .. MaxTime)
<1> DEFINE gone == {i \in DOMAIN hits[c] : \A j \in 1 .. i : hits[c][j] <= now - Window}
<1>1. hits[c] \in Seq(0 .. MaxTime)
  BY DEF TypeOK
<1>2. gone \subseteq 1 .. Len(hits[c]) /\ Len(hits[c]) \in Nat
  BY <1>1
<1>3. IsFiniteSet(1 .. Len(hits[c])) /\ Cardinality(1 .. Len(hits[c])) = Len(hits[c])
  <2>1. PICK n \in Nat : n = Len(hits[c])
    BY <1>2
  <2>2. 1 \in Int /\ n \in Int
    OBVIOUS
  <2>3. /\ IsFiniteSet(1 .. n)
        /\ Cardinality(1 .. n) = IF 1 > n THEN 0 ELSE n - 1 + 1
    BY <2>2, FS_Interval, Zenon
  <2>4. Cardinality(1 .. n) = n
    BY <2>3
  <2> QED BY <2>1, <2>3, <2>4
<1>4. Cardinality(gone) \in Nat /\ Cardinality(gone) <= Len(hits[c])
  BY <1>2, <1>3, FS_Subset, FS_CardinalityType
<1>5. SubSeq(hits[c], Cardinality(gone) + 1, Len(hits[c])) \in Seq(0 .. MaxTime)
  <2> DEFINE s == hits[c]
             m == Cardinality(gone) + 1
             n == Len(hits[c])
  <2>4. s \in Seq(0 .. MaxTime) /\ n \in Int /\ n = Len(s)
    BY <1>1, <1>2
  <2>5. m \in Int /\ m >= 1
    <3> HIDE DEF gone, s, n
    <3> QED BY <1>4 DEF m
  <2>1. s \in Seq(0 .. MaxTime) /\ m \in Int /\ n \in Int /\ m >= 1 /\ n = Len(s)
    BY <2>4, <2>5
  <2>2. \A i \in m .. n : s[i] \in 0 .. MaxTime
    BY <2>1
  <2> HIDE DEF s, m, n
  <2>3. SubSeq(s, m, n) \in Seq(0 .. MaxTime)
    BY <2>1, <2>2, SubSeqProperties
  <2> QED BY <2>3 DEF s, m, n
<1> QED BY <1>5 DEF Pruned

(* A score lies between nothing and that of the largest, most urgent change. *)
LEMMA ScoreIsBounded ==
  ASSUME NEW size \in Nat, NEW urgent \in Int
  PROVE  Score(size, urgent) \in 0 .. Full + UrgencyWeight
<1>1. Clamp(urgent) = 0 \/ Clamp(urgent) = 1
  BY DEF Clamp, Least
<1>2. Least(size, Full) \in 0 .. Full
  BY DEF Least
<1>3. CASE Clamp(urgent) = 0
  <2>1. UrgencyWeight * Clamp(urgent) = 0  BY <1>3
  <2> QED BY <2>1, <1>2 DEF Score
<1>4. CASE Clamp(urgent) = 1
  <2>1. UrgencyWeight * Clamp(urgent) = UrgencyWeight  BY <1>4
  <2> QED BY <2>1, <1>2 DEF Score
<1> QED BY <1>1, <1>3, <1>4

(* The row a delivery describes is none of the absent one. *)
LEMMA FieldsAreARow ==
  ASSUME NEW d \in Deliveries
  PROVE  Fields(d) \in Rows /\ Fields(d) # NoRow /\ Fields(d).commit = Commit[d]
BY DEF Fields, Rows, NoRow, None

LEMMA RowCommits == \A x \in Rows : x.commit \in Nat
BY DEF Rows, NoRow, None

(* No column differs only where the rows are equal, and the columns that do
   turn the one row into the other. *)
LEMMA ChangedColumns ==
  ASSUME NEW r \in Requests, loaded[r] \in Rows, event[r] \in Deliveries
  PROVE  /\ Changed(r) = {} <=> loaded[r] = Fields(event[r])
         /\ [f \in {"commit", "size"} |->
               IF f \in Changed(r) THEN Fields(event[r])[f] ELSE loaded[r][f]] = Fields(event[r])
BY DEF Changed, Fields, Rows, NoRow, None

-----------------------------------------------------------------------------
LEMMA TypeInit == Init => TypeOK
<1> SUFFICES ASSUME Init PROVE TypeOK  OBVIOUS
<1>1. << >> \in Seq(0 .. MaxTime) /\ NoRow \in Rows /\ 0 \in 0 .. MaxTime
  BY DEF Rows
<1>2. Stored = {}
  BY DEF Init, Stored
<1>3. /\ hits \in [Clients -> Seq(0 .. MaxTime)]
      /\ passed \in [Clients -> Seq(0 .. MaxTime)]
  BY <1>1 DEF Init
<1>4. /\ rpc \in [Requests -> {"idle", "load", "write", "find", "insert", "commit"}]
      /\ event \in [Requests -> Deliveries \cup {"none"}]
      /\ loaded \in [Requests -> Rows]
      /\ seen \in [Requests -> Urgencies]
  BY <1>1 DEF Init
<1>5. /\ now \in 0 .. MaxTime /\ sends \in [Deliveries -> Nat] /\ urgency \in Urgencies
      /\ row \in Rows /\ lock \subseteq Requests /\ {stale, late} \subseteq BOOLEAN
      /\ refused \subseteq [client: Clients, at: 0 .. MaxTime]
  BY <1>1 DEF Init
<1> QED BY <1>2, <1>3, <1>4, <1>5 DEF TypeOK

(* A request ends with nothing in its hands. *)
LEMMA EndsTyped ==
  ASSUME TypeOK, NEW r \in Requests, Ends(r)
  PROVE  /\ rpc' \in [Requests -> {"idle", "load", "write", "find", "insert", "commit"}]
         /\ event' \in [Requests -> Deliveries \cup {"none"}]
         /\ loaded' \in [Requests -> Rows]
         /\ seen' \in [Requests -> Urgencies]
BY DEF Ends, TypeOK, Rows

(* What a committing transaction leaves of the row: what it loaded, if nobody
   else wrote, turned into what its delivery says. *)
LEMMA CommittedRow ==
  ASSUME TypeOK, IntakeInvariant, NEW r \in Requests, Writing(r), CommitRow(r)
  PROVE  /\ row' \in Rows /\ row' # NoRow
         /\ r \notin lock => row' = row /\ row = row' /\ loaded[r] = Fields(event[r])
         /\ r \in lock /\ ~ stale => row = loaded[r] /\ row' = Fields(event[r])
<1>1. /\ row \in Rows /\ lock \subseteq Requests
      /\ loaded[r] \in Rows /\ event[r] \in Deliveries
  BY DEF TypeOK, IntakeInvariant, RequestsAreSound, Writing
<1>2. CASE r \notin lock
  <2>1. row' = row /\ loaded[r] = Fields(event[r])
    BY <1>2 DEF CommitRow, IntakeInvariant, RequestsAreSound
  <2>2. row # NoRow
    BY <2>1, <1>1, FieldsAreARow DEF IntakeInvariant, RequestsAreSound
  <2> QED BY <1>1, <1>2, <2>1, <2>2
<1>3. CASE r \in lock
  <2>1. row' = [f \in {"commit", "size"} |-> IF f \in Changed(r) THEN Fields(event[r])[f] ELSE row[f]]
    BY <1>3 DEF CommitRow
  <2>2. /\ row' = [commit |-> row'.commit, size |-> row'.size]
        /\ row'.commit \in {row.commit, Commit[event[r]]} /\ row'.size \in {row.size, Size[event[r]]}
    BY <2>1 DEF Fields
  <2>3. CASE row = NoRow
    <3>1. loaded[r] = NoRow
      BY <2>3 DEF IntakeInvariant, RequestsAreSound
    <3>2. row' = Fields(event[r])
      BY <2>1, <2>3, <3>1, <1>1, ChangedColumns
    <3> QED BY <3>1, <3>2, <1>1, <1>3, <2>3, FieldsAreARow
  <2>4. CASE row # NoRow
    <3>1. PICK d \in Deliveries, e \in Deliveries : row = [commit |-> Commit[d], size |-> Size[e]]
      BY <1>1, <2>4 DEF Rows
    <3>2. row' \in Rows /\ row'.commit # 0
      BY <2>2, <3>1, <1>1 DEF Rows
    <3>3. ASSUME ~ stale PROVE row = loaded[r] /\ row' = Fields(event[r])
      <4>1. row = loaded[r]
        BY <3>3, <1>3 DEF IntakeInvariant, LockHolds
      <4> QED BY <4>1, <2>1, <1>1, ChangedColumns
    <3> QED BY <3>2, <3>3, <1>3 DEF NoRow, None
  <2> QED BY <2>3, <2>4
<1> QED BY <1>2, <1>3

-----------------------------------------------------------------------------
LEMMA ArriveKeepsTypes ==
  ASSUME TypeOK, NEW r \in Requests, NEW c \in Clients, NEW d \in Deliveries, Arrive(r, c, d)
  PROVE  TypeOK'
<1>1. Pruned(c) \in Seq(0 .. MaxTime) /\ now \in 0 .. MaxTime /\ Pruned(c) \in Seq(0 .. MaxTime)
  BY PrunedIsSeq DEF TypeOK
<1>2. sends' \in [Deliveries -> Nat]
  BY DEF Arrive, TypeOK
<1>3. /\ now' \in 0 .. MaxTime /\ urgency' \in Urgencies /\ row' \in Rows /\ lock' \subseteq Requests
      /\ {stale', late'} \subseteq BOOLEAN
      /\ Stored' \subseteq Deliveries
      /\ \A x \in Stored' : reviews'[x].score \in 0 .. Full + UrgencyWeight
  BY DEF Arrive, TypeOK, tableVars, Stored
<1>4. CASE Refuse(r, c)
  <2>1. hits' \in [Clients -> Seq(0 .. MaxTime)] /\ passed' \in [Clients -> Seq(0 .. MaxTime)]
    BY <1>1, <1>4 DEF Refuse, TypeOK
  <2>2. refused' \subseteq [client: Clients, at: 0 .. MaxTime]
    BY <1>1, <1>4 DEF Refuse, TypeOK
  <2>3. /\ rpc' \in [Requests -> {"idle", "load", "write", "find", "insert", "commit"}]
        /\ event' \in [Requests -> Deliveries \cup {"none"}]
        /\ loaded' \in [Requests -> Rows]
        /\ seen' \in [Requests -> Urgencies]
    BY <1>4 DEF Refuse, TypeOK, requestVars
  <2> QED BY <1>2, <1>3, <2>1, <2>2, <2>3 DEF TypeOK
<1>5. CASE Admit(r, c, d)
  <2>1. /\ Append(Pruned(c), now) \in Seq(0 .. MaxTime)
        /\ Append(passed[c], now) \in Seq(0 .. MaxTime)
    BY <1>1 DEF TypeOK
  <2>2. hits' \in [Clients -> Seq(0 .. MaxTime)]
    BY <2>1, <1>5 DEF Admit, TypeOK
  <2>3. passed' \in [Clients -> Seq(0 .. MaxTime)]
    BY <2>1, <1>5 DEF Admit, TypeOK
  <2>4. /\ rpc' \in [Requests -> {"idle", "load", "write", "find", "insert", "commit"}]
        /\ event' \in [Requests -> Deliveries \cup {"none"}]
        /\ loaded' \in [Requests -> Rows]
        /\ seen' \in [Requests -> Urgencies]
        /\ refused' \subseteq [client: Clients, at: 0 .. MaxTime]
    BY <1>5 DEF Admit, TypeOK
  <2> QED BY <1>2, <1>3, <2>2, <2>3, <2>4 DEF TypeOK
<1> QED BY <1>4, <1>5 DEF Arrive

(* Every other step of a request keeps the types, the invariant given. *)
LEMMA ServeKeepsTypes ==
  ASSUME TypeOK, IntakeInvariant, NEW r \in Requests,
         \/ Load(r) \/ Write(r) \/ InsertConflicts(r) \/ FindKnown(r)
         \/ FindNothing(r) \/ Flush(r) \/ CommitReview(r) \/ RollBack(r)
  PROVE  TypeOK'
<1>1. CASE Load(r)
  BY <1>1 DEF Load, RequestGoes, TypeOK, limiterVars, tableVars, Stored
<1>2. CASE Write(r)
  BY <1>2 DEF Write, RequestGoes, TypeOK, limiterVars, Stored
<1>3. CASE InsertConflicts(r)
  BY <1>3, EndsTyped DEF InsertConflicts, TypeOK, limiterVars, tableVars, Stored
<1>4. CASE FindKnown(r)
  <2>1. Writing(r) /\ CommitRow(r) /\ Ends(r) /\ UNCHANGED <<limiterVars, urgency, reviews, stale>>
    BY <1>4 DEF FindKnown, Writing
  <2>2. lock' \subseteq Requests /\ late' \in BOOLEAN
    BY <2>1 DEF CommitRow, TypeOK
  <2> QED BY <2>1, <2>2, CommittedRow, EndsTyped DEF TypeOK, limiterVars, Stored
<1>5. CASE FindNothing(r)
  BY <1>5 DEF FindNothing, RequestGoes, TypeOK, limiterVars, tableVars, Stored
<1>6. CASE Flush(r)
  BY <1>6 DEF Flush, RequestGoes, TypeOK, limiterVars, tableVars, Stored
<1>7. CASE CommitReview(r)
  <2>1. Writing(r) /\ CommitRow(r) /\ Ends(r) /\ UNCHANGED <<limiterVars, urgency, stale>>
    BY <1>7 DEF CommitReview, Writing
  <2>2. lock' \subseteq Requests /\ late' \in BOOLEAN
    BY <2>1 DEF CommitRow, TypeOK
  <2>3. event[r] \in Deliveries /\ seen[r] \in Int /\ Size[event[r]] \in Nat
    BY <2>1 DEF Writing, IntakeInvariant, RequestsAreSound, TypeOK
  <2>4. Stored' = Stored \cup {event[r]}
    BY <1>7 DEF CommitReview, Stored
  <2>5. ASSUME NEW d \in Stored' PROVE reviews'[d].score \in 0 .. Full + UrgencyWeight
    <3>1. CASE d = event[r]
      <4>1. reviews'[d].score = Score(Size[d], seen[r])
        BY <1>7, <2>4, <3>1 DEF CommitReview, Review
      <4> QED BY <4>1, <2>3, <3>1, ScoreIsBounded
    <3>2. CASE d # event[r]
      <4>1. reviews'[d] = reviews[d] /\ d \in Stored
        BY <1>7, <2>4, <3>2 DEF CommitReview
      <4> QED BY <4>1 DEF TypeOK
    <3> QED BY <3>1, <3>2
  <2>6. Stored' \subseteq Deliveries
    BY <2>3, <2>4 DEF TypeOK
  <2>7. /\ now' \in 0 .. MaxTime /\ sends' \in [Deliveries -> Nat]
        /\ hits' \in [Clients -> Seq(0 .. MaxTime)] /\ passed' \in [Clients -> Seq(0 .. MaxTime)]
        /\ refused' \subseteq [client: Clients, at: 0 .. MaxTime]
        /\ urgency' \in Urgencies /\ stale' \in BOOLEAN
    BY <2>1 DEF TypeOK, limiterVars
  <2> QED BY <2>1, <2>2, <2>5, <2>6, <2>7, CommittedRow, EndsTyped DEF TypeOK
<1>8. CASE RollBack(r)
  BY <1>8, EndsTyped DEF RollBack, TypeOK, limiterVars, Stored
<1> QED BY <1>1, <1>2, <1>3, <1>4, <1>5, <1>6, <1>7, <1>8

LEMMA NextKeepsTypes == TypeOK /\ IntakeInvariant /\ [Next]_vars => TypeOK'
<1> SUFFICES ASSUME TypeOK, IntakeInvariant, [Next]_vars PROVE TypeOK'
  OBVIOUS
<1>1. CASE \E r \in Requests : Serve(r)
  <2>1. PICK r \in Requests : Serve(r)
    BY <1>1
  <2> QED BY <2>1, ArriveKeepsTypes, ServeKeepsTypes DEF Serve
<1>2. CASE SetUrgency
  BY <1>2 DEF SetUrgency, TypeOK, limiterVars, tableVars, requestVars, Stored
<1>3. CASE Tick
  BY <1>3 DEF Tick, TypeOK, tableVars, requestVars, Stored
<1>4. CASE UNCHANGED vars
  BY <1>4 DEF vars, TypeOK, limiterVars, tableVars, requestVars, Stored
<1> QED BY <1>1, <1>2, <1>3, <1>4 DEF Next

-----------------------------------------------------------------------------
LEMMA InvariantInit == Init => IntakeInvariant
<1> SUFFICES ASSUME Init PROVE IntakeInvariant  OBVIOUS
<1>1. Stored = {}
  BY DEF Init, Stored
<1> QED
  BY <1>1 DEF Init, IntakeInvariant, LockHolds, RequestsAreSound, RowsAreSound,
       RowIsOneDeliverys, Writing, NoRow, None

(* A request that ends without a commit gives its lock back, if it has one. *)
LEMMA EndKeeps ==
  ASSUME TypeOK, IntakeInvariant, NEW r \in Requests, Ends(r),
         lock' = lock \ {r} \/ (lock' = lock /\ r \notin lock),
         UNCHANGED <<row, reviews, stale, late>>
  PROVE  IntakeInvariant'
<1> USE DEF IntakeInvariant
<1>1. /\ rpc'[r] = "idle" /\ loaded'[r] = NoRow
      /\ \A q \in Requests : q # r => rpc'[q] = rpc[q] /\ event'[q] = event[q] /\ loaded'[q] = loaded[q]
  BY DEF Ends, TypeOK
<1>2. r \notin lock' /\ lock' \subseteq lock /\ \A q \in lock : q # r => q \in lock'
  BY DEF LockHolds
<1>3. lock \subseteq Requests /\ row \in Rows
  BY DEF TypeOK
<1>4. LockHolds'
  <2>1. \A q \in lock' : q # r /\ q \in lock /\ q \in Requests
    BY <1>2, <1>3
  <2> QED BY <1>1, <2>1 DEF LockHolds, Writing
<1>5. RequestsAreSound'
  <2>1. ASSUME NEW q \in Requests
        PROVE  /\ rpc'[q] # "idle" => event'[q] \in Deliveries
               /\ Writing(q)' => q \in lock' \/ loaded'[q] = Fields(event'[q])
               /\ loaded'[q] # NoRow => row' # NoRow
               /\ ~ stale' /\ ~ late' => loaded'[q].commit <= row'.commit
    <3>1. CASE q = r
      <4>1. NoRow.commit = 0 /\ row.commit \in Nat
        BY <1>3 DEF NoRow, Rows, None
      <4> QED BY <1>1, <3>1, <4>1 DEF Writing
    <3>2. CASE q # r
      BY <1>1, <1>2, <3>2 DEF RequestsAreSound, Writing
    <3> QED BY <3>1, <3>2
  <2> QED BY <2>1 DEF RequestsAreSound
<1>6. RowsAreSound' /\ RowIsOneDeliverys'
  BY DEF RowsAreSound, RowIsOneDeliverys, Stored
<1> QED BY <1>4, <1>5, <1>6

(* The commit: the columns it wrote make the row what its delivery says, if the
   row is as it was loaded, and only the holder of the lock changes it. *)
LEMMA CommitKeeps ==
  ASSUME TypeOK, IntakeInvariant, NEW r \in Requests, Writing(r), CommitRow(r), Ends(r),
         Stored' = Stored \cup {event[r]}, stale' = stale
  PROVE  IntakeInvariant'
<1> DEFINE e == event[r]
<1>1. /\ e \in Deliveries /\ Stored \subseteq Deliveries /\ lock \subseteq Requests
      /\ row \in Rows /\ loaded[r] \in Rows /\ late \in BOOLEAN /\ stale \in BOOLEAN
  BY DEF TypeOK, IntakeInvariant, RequestsAreSound, Writing
<1>2. /\ row' \in Rows /\ row' # NoRow
      /\ r \notin lock => row' = row /\ loaded[r] = Fields(e)
      /\ r \in lock /\ ~ stale => row = loaded[r] /\ row' = Fields(e)
  BY CommittedRow
<1>3. Fields(e).commit = Commit[e] /\ \A d \in Stored : Commit[d] \in Nat
  BY <1>1, FieldsAreARow
<1>4. /\ lock' = lock \ {r}
      /\ late' = (late \/ \E d \in Stored : Commit[d] > Commit[e])
  BY DEF CommitRow
<1>5. /\ rpc'[r] = "idle" /\ loaded'[r] = NoRow
      /\ \A q \in Requests : q # r => rpc'[q] = rpc[q] /\ event'[q] = event[q] /\ loaded'[q] = loaded[q]
  BY DEF Ends, TypeOK
<1>6. ASSUME ~ stale, ~ late'
      PROVE  row.commit <= row'.commit /\ \A d \in Stored' : Commit[d] <= row'.commit
  <2>1. ~ late /\ \A d \in Stored : Commit[d] <= Commit[e]
    <3>1. ~ late /\ \A d \in Stored : ~ (Commit[d] > Commit[e])
      BY <1>6, <1>4
    <3>2. Commit[e] \in Nat /\ \A d \in Stored : Commit[d] \in Nat
      BY <1>1, <1>3
    <3> QED BY <3>1, <3>2
  <2>2. CASE r \in lock
    <3>1. row'.commit = Commit[e] /\ row.commit = loaded[r].commit
      BY <1>2, <1>3, <1>6, <2>2
    <3>2. row.commit <= Commit[e]
      <4>1. CASE row = NoRow
        BY <4>1, <1>1 DEF NoRow, None
      <4>2. CASE row # NoRow
        <5>1. PICK d \in Stored : row = Fields(d)
          BY <4>2, <1>6 DEF IntakeInvariant, RowIsOneDeliverys
        <5> QED BY <5>1, <2>1, <1>1, FieldsAreARow
      <4> QED BY <4>1, <4>2
    <3> QED BY <3>1, <3>2, <2>1, <1>1
  <2>3. CASE r \notin lock
    <3>1. row' = row /\ loaded[r].commit = Commit[e]
      BY <1>2, <1>3, <2>3
    <3>2. Commit[e] <= row.commit /\ \A d \in Stored : Commit[d] <= row.commit
      BY <3>1, <2>1, <1>6 DEF IntakeInvariant, RequestsAreSound, RowsAreSound
    <3>3. row.commit \in Nat
      BY <1>1 DEF Rows, NoRow, None
    <3> QED BY <3>1, <3>2, <3>3
  <2> QED BY <2>2, <2>3
<1>7. LockHolds'
  <2>1. ASSUME NEW q \in lock'
        PROVE  q \in lock /\ q # r /\ q \in Requests /\ r \notin lock /\ lock' \subseteq {q}
    BY <1>1, <1>4 DEF IntakeInvariant, LockHolds
  <2> QED BY <2>1, <1>2, <1>5 DEF IntakeInvariant, LockHolds, Writing
<1>8. RequestsAreSound'
  <2>1. ASSUME NEW q \in Requests
        PROVE  /\ rpc'[q] # "idle" => event'[q] \in Deliveries
               /\ Writing(q)' => q \in lock' \/ loaded'[q] = Fields(event'[q])
               /\ loaded'[q] # NoRow => row' # NoRow
               /\ ~ stale' /\ ~ late' => loaded'[q].commit <= row'.commit
    <3>1. CASE q = r
      <4>1. NoRow.commit = 0 /\ row'.commit \in Nat
        BY <1>1, <1>2 DEF NoRow, Rows, None
      <4> QED BY <1>5, <3>1, <4>1 DEF Writing
    <3>2. CASE q # r
      <4>1. q \in lock => q \in lock'
        BY <3>2, <1>4
      <4>2. rpc'[q] # "idle" => event'[q] \in Deliveries
        BY <1>5, <3>2 DEF IntakeInvariant, RequestsAreSound
      <4>3. Writing(q)' => q \in lock' \/ loaded'[q] = Fields(event'[q])
        BY <1>5, <3>2, <4>1 DEF IntakeInvariant, RequestsAreSound, Writing
      <4>4. ~ stale' /\ ~ late' => loaded'[q].commit <= row'.commit
        <5> SUFFICES ASSUME ~ stale', ~ late' PROVE loaded'[q].commit <= row'.commit
          OBVIOUS
        <5>1. loaded[q].commit <= row.commit /\ row.commit <= row'.commit
          BY <1>4, <1>6 DEF IntakeInvariant, RequestsAreSound
        <5>2. loaded[q] \in Rows
          BY DEF TypeOK
        <5>3. loaded[q].commit \in Nat /\ row.commit \in Nat /\ row'.commit \in Nat
          BY <1>1, <1>2, <5>2, RowCommits
        <5> QED BY <5>1, <5>3, <1>5, <3>2
      <4> QED BY <4>2, <4>3, <4>4, <1>2
    <3> QED BY <3>1, <3>2
  <2> QED BY <2>1 DEF RequestsAreSound
<1>9. RowsAreSound'
  BY <1>2, <1>6 DEF RowsAreSound
<1>10. RowIsOneDeliverys'
  <2>1. CASE r \in lock
    BY <1>2, <2>1 DEF RowIsOneDeliverys
  <2>2. CASE r \notin lock
    BY <1>2, <2>2 DEF IntakeInvariant, RowIsOneDeliverys
  <2> QED BY <2>1, <2>2
<1> QED BY <1>7, <1>8, <1>9, <1>10 DEF IntakeInvariant

LEMMA ServeKeepsInvariant ==
  ASSUME TypeOK, IntakeInvariant, NEW r \in Requests, Serve(r)
  PROVE  IntakeInvariant'
<1>1. ASSUME NEW c \in Clients, NEW d \in Deliveries, Arrive(r, c, d) PROVE IntakeInvariant'
  <2>1. /\ UNCHANGED <<row, lock, reviews, stale, late, loaded>>
        /\ \/ UNCHANGED <<rpc, event>>
           \/ rpc' = [rpc EXCEPT ![r] = "load"] /\ event' = [event EXCEPT ![r] = d]
        /\ rpc[r] = "idle"
    BY <1>1 DEF Arrive, Refuse, Admit, tableVars, requestVars
  <2>2. ASSUME NEW q \in Requests
        PROVE  /\ rpc'[q] # "idle" => event'[q] \in Deliveries
               /\ Writing(q)' => Writing(q) /\ event'[q] = event[q]
               /\ Writing(q) => Writing(q)'
    BY <2>1 DEF TypeOK, IntakeInvariant, RequestsAreSound, Writing
  <2> HIDE DEF Writing
  <2>3. LockHolds'
    BY <2>1, <2>2 DEF TypeOK, IntakeInvariant, LockHolds
  <2>4. RequestsAreSound'
    BY <2>1, <2>2 DEF IntakeInvariant, RequestsAreSound
  <2> QED BY <2>1, <2>3, <2>4 DEF IntakeInvariant, RowsAreSound, RowIsOneDeliverys, Stored
<1>2. CASE Load(r)
  <2>1. /\ UNCHANGED <<row, lock, reviews, stale, late, event>>
        /\ rpc[r] = "load" /\ rpc'[r] = "write" /\ loaded'[r] = row
        /\ \A q \in Requests : q # r => rpc'[q] = rpc[q] /\ loaded'[q] = loaded[q]
    BY <1>2 DEF Load, RequestGoes, tableVars, TypeOK
  <2>2. row.commit \in Nat /\ lock \subseteq Requests
    BY RowCommits DEF TypeOK
  <2>3. LockHolds'
    BY <2>1, <2>2 DEF IntakeInvariant, LockHolds, Writing
  <2>4. RequestsAreSound'
    <3>1. ASSUME NEW q \in Requests
          PROVE  /\ rpc'[q] # "idle" => event'[q] \in Deliveries
                 /\ Writing(q)' => q \in lock' \/ loaded'[q] = Fields(event'[q])
                 /\ loaded'[q] # NoRow => row' # NoRow
                 /\ ~ stale' /\ ~ late' => loaded'[q].commit <= row'.commit
      <4>1. CASE q = r
        BY <2>1, <2>2, <4>1 DEF IntakeInvariant, RequestsAreSound, Writing
      <4>2. CASE q # r
        BY <2>1, <4>2 DEF IntakeInvariant, RequestsAreSound, Writing
      <4> QED BY <4>1, <4>2
    <3> QED BY <3>1 DEF RequestsAreSound
  <2> QED BY <2>1, <2>3, <2>4 DEF IntakeInvariant, RowsAreSound, RowIsOneDeliverys, Stored
<1>3. CASE Write(r)
  <2>1. /\ UNCHANGED <<row, reviews, late, event, loaded>>
        /\ rpc[r] = "write" /\ rpc'[r] = "find"
        /\ \A q \in Requests : q # r => rpc'[q] = rpc[q]
        /\ loaded[r] = NoRow => row = NoRow
        /\ stale' = (stale \/ row # loaded[r])
        /\ IF Changed(r) = {} THEN lock' = lock ELSE lock = {} /\ lock' = {r}
    BY <1>3 DEF Write, RequestGoes, TypeOK
  <2>2. lock \subseteq Requests /\ event[r] \in Deliveries /\ loaded[r] \in Rows
    BY <2>1 DEF TypeOK, IntakeInvariant, RequestsAreSound
  <2>3. Changed(r) = {} => loaded[r] = Fields(event[r])
    BY <2>2, ChangedColumns
  <2>4. LockHolds'
    <3>1. CASE Changed(r) = {}
      BY <2>1, <2>2, <3>1 DEF IntakeInvariant, LockHolds, Writing
    <3>2. CASE Changed(r) # {}
      <4>1. lock' = {r} /\ Writing(r)'
        BY <2>1, <3>2 DEF Writing
      <4> QED BY <2>1, <4>1 DEF LockHolds
    <3> QED BY <3>1, <3>2
  <2>5. RequestsAreSound'
    <3>1. ASSUME NEW q \in Requests
          PROVE  /\ rpc'[q] # "idle" => event'[q] \in Deliveries
                 /\ Writing(q)' => q \in lock' \/ loaded'[q] = Fields(event'[q])
                 /\ loaded'[q] # NoRow => row' # NoRow
                 /\ ~ stale' /\ ~ late' => loaded'[q].commit <= row'.commit
      <4>1. CASE q = r
        BY <2>1, <2>2, <2>3, <4>1 DEF IntakeInvariant, RequestsAreSound
      <4>2. CASE q # r
        BY <2>1, <4>2 DEF IntakeInvariant, RequestsAreSound, Writing
      <4> QED BY <4>1, <4>2
    <3> QED BY <3>1 DEF RequestsAreSound
  <2> QED BY <2>1, <2>4, <2>5 DEF IntakeInvariant, RowsAreSound, RowIsOneDeliverys, Stored
<1>4. CASE InsertConflicts(r)
  BY <1>4, EndKeeps DEF InsertConflicts, tableVars
<1>5. CASE FindKnown(r)
  <2>1. Writing(r) /\ CommitRow(r) /\ Ends(r) /\ Stored' = Stored \cup {event[r]} /\ stale' = stale
    BY <1>5 DEF FindKnown, Writing, Stored
  <2> QED BY <2>1, CommitKeeps
<1>6. CASE FindNothing(r) \/ Flush(r)
  <2>1. /\ UNCHANGED <<row, lock, reviews, stale, late, event, loaded>>
        /\ Writing(r) /\ Writing(r)' /\ rpc'[r] # "idle" /\ rpc[r] # "idle"
        /\ \A q \in Requests : q # r => rpc'[q] = rpc[q]
    BY <1>6 DEF FindNothing, Flush, RequestGoes, tableVars, TypeOK, Writing
  <2>2. \A q \in Requests : Writing(q)' <=> Writing(q)
    BY <2>1 DEF Writing
  <2>3. \A q \in Requests : rpc'[q] # "idle" <=> rpc[q] # "idle"
    BY <2>1
  <2>4. LockHolds'
    BY <2>1, <2>2 DEF TypeOK, IntakeInvariant, LockHolds
  <2>5. RequestsAreSound'
    BY <2>1, <2>2, <2>3 DEF IntakeInvariant, RequestsAreSound
  <2> QED BY <2>1, <2>4, <2>5 DEF IntakeInvariant, RowsAreSound, RowIsOneDeliverys, Stored
<1>7. CASE CommitReview(r)
  <2>1. /\ Writing(r) /\ CommitRow(r) /\ Ends(r) /\ stale' = stale
        /\ Stored' = Stored \cup {event[r]}
    BY <1>7 DEF CommitReview, Writing, Stored
  <2> QED BY <2>1, CommitKeeps
<1>8. CASE RollBack(r)
  BY <1>8, EndKeeps DEF RollBack
<1> QED BY <1>1, <1>2, <1>3, <1>4, <1>5, <1>6, <1>7, <1>8 DEF Serve

LEMMA NextKeepsInvariant == TypeOK /\ IntakeInvariant /\ [Next]_vars => IntakeInvariant'
<1> SUFFICES ASSUME TypeOK, IntakeInvariant, [Next]_vars PROVE IntakeInvariant'
  OBVIOUS
<1>1. CASE \E r \in Requests : Serve(r)
  BY <1>1, ServeKeepsInvariant
<1>2. CASE SetUrgency \/ Tick \/ UNCHANGED vars
  <2>1. UNCHANGED <<row, lock, reviews, rpc, event, loaded, stale, late>>
    BY <1>2 DEF SetUrgency, Tick, vars, tableVars, requestVars
  <2> QED
    BY <2>1 DEF IntakeInvariant, LockHolds, RequestsAreSound, RowsAreSound,
         RowIsOneDeliverys, Writing, Stored
<1> QED BY <1>1, <1>2 DEF Next

-----------------------------------------------------------------------------
(* The limiter. *)

LEMMA UpTo ==
  ASSUME NEW n \in Nat
  PROVE  IsFiniteSet(1 .. n) /\ Cardinality(1 .. n) = n
<1>1. 1 \in Int /\ n \in Int
  OBVIOUS
<1>2. IsFiniteSet(1 .. n) /\ Cardinality(1 .. n) = IF 1 > n THEN 0 ELSE n - 1 + 1
  BY <1>1, FS_Interval, Zenon
<1> QED BY <1>2

(* A set of places that holds every place before one of its own is the first
   so many places. *)
LEMMA FirstPlaces ==
  ASSUME NEW n \in Nat, NEW S, S \subseteq 1 .. n, \A i \in S : 1 .. i \subseteq S
  PROVE  Cardinality(S) \in 0 .. n /\ S = 1 .. Cardinality(S)
<1>1. IsFiniteSet(S) /\ Cardinality(S) \in Nat /\ Cardinality(S) <= n
  <2>1. IsFiniteSet(1 .. n) /\ Cardinality(1 .. n) = n /\ S \in SUBSET (1 .. n)
    BY UpTo
  <2>2. IsFiniteSet(S) /\ Cardinality(S) <= Cardinality(1 .. n)
    BY <2>1, FS_Subset
  <2> QED BY <2>1, <2>2, FS_CardinalityType
<1> DEFINE g == Cardinality(S)
<1>2. ASSUME NEW i \in S
      PROVE  i \in 1 .. g
  <2>1. i \in Nat /\ i >= 1
    BY <1>2
  <2>2. Cardinality(1 .. i) <= Cardinality(S)
    BY <1>1, FS_Subset
  <2>3. Cardinality(1 .. i) = i
    BY <2>1, UpTo
  <2> QED BY <1>1, <2>1, <2>2, <2>3
<1>3. S \in SUBSET (1 .. g)
  BY <1>2
<1>4. IsFiniteSet(1 .. g) /\ Cardinality(1 .. g) = g
  BY <1>1, UpTo
<1>5. S = 1 .. g
  BY <1>3, <1>4, FS_Subset
<1> QED BY <1>1, <1>5

LEMMA LimiterTypes ==
  ASSUME TypeOK, NEW c \in Clients
  PROVE  /\ hits[c] \in Seq(0 .. MaxTime) /\ Len(hits[c]) \in Nat
         /\ DOMAIN hits[c] = 1 .. Len(hits[c]) /\ \A i \in DOMAIN hits[c] : hits[c][i] \in Nat
         /\ passed[c] \in Seq(0 .. MaxTime) /\ Len(passed[c]) \in Nat
         /\ DOMAIN passed[c] = 1 .. Len(passed[c]) /\ \A i \in DOMAIN passed[c] : passed[c][i] \in Nat
         /\ now \in Nat
<1>1. hits[c] \in Seq(0 .. MaxTime) /\ passed[c] \in Seq(0 .. MaxTime) /\ now \in Nat
  BY DEF TypeOK
<1>2. \A s \in Seq(0 .. MaxTime) :
        Len(s) \in Nat /\ DOMAIN s = 1 .. Len(s) /\ \A i \in DOMAIN s : s[i] \in Nat
  OBVIOUS
<1> QED BY <1>1, <1>2

(* What pruning drops has left the window, what it keeps is in the window. *)
LEMMA PrunedIsTheWindow ==
  ASSUME TypeOK, NEW c \in Clients, Remembers(c)
  PROVE  \E g \in 0 .. Len(hits[c]) :
           /\ Len(Pruned(c)) = Len(hits[c]) - g
           /\ \A i \in 1 .. Len(Pruned(c)) :
                Pruned(c)[i] = hits[c][g + i] /\ Pruned(c)[i] > now - Window
           /\ \A i \in 1 .. g : hits[c][i] <= now - Window
<1> DEFINE gone == {i \in DOMAIN hits[c] : \A j \in 1 .. i : hits[c][j] <= now - Window}
           n == Len(hits[c])
           g == Cardinality(gone)
<1>1. /\ n \in Nat /\ DOMAIN hits[c] = 1 .. n /\ now \in Nat
      /\ \A i \in 1 .. n : hits[c][i] \in 0 .. MaxTime /\ hits[c][i] \in Nat
  BY LimiterTypes
<1>2. gone \subseteq 1 .. n /\ \A i \in gone : 1 .. i \subseteq gone
  BY <1>1
<1> HIDE DEF gone
<1>3. g \in 0 .. n /\ gone = 1 .. g
  BY <1>1, <1>2, FirstPlaces
<1>4. Pruned(c) = SubSeq(hits[c], g + 1, n)
  BY DEF Pruned, gone
<1>5. /\ Len(Pruned(c)) = n - g
      /\ \A i \in 1 .. n - g : Pruned(c)[i] = hits[c][g + i]
  <2>1. g + 1 \in Int /\ n \in Int /\ \A i \in (g + 1) .. n : hits[c][i] \in 0 .. MaxTime
    BY <1>1, <1>3
  <2>2. /\ Len(SubSeq(hits[c], g + 1, n)) = IF g + 1 <= n THEN n - (g + 1) + 1 ELSE 0
        /\ \A i \in 1 .. n - (g + 1) + 1 : SubSeq(hits[c], g + 1, n)[i] = hits[c][g + 1 + i - 1]
    BY <2>1, SubSeqProperties
  <2>3. n - (g + 1) + 1 = n - g /\ \A i \in 1 .. n - g : g + 1 + i - 1 = g + i
    BY <1>1, <1>3
  <2>4. (IF g + 1 <= n THEN n - (g + 1) + 1 ELSE 0) = n - g
    <3> HIDE DEF g, n
    <3> QED BY <1>1, <1>3
  <2>5. Len(Pruned(c)) = n - g
    BY <1>4, <2>2, <2>4, Zenon
  <2>6. \A i \in 1 .. n - g : Pruned(c)[i] = hits[c][g + 1 + i - 1]
    BY <1>4, <2>2, <2>3, Zenon
  <2> QED BY <2>3, <2>5, <2>6
<1>6. ASSUME NEW i \in 1 .. g
      PROVE  hits[c][i] <= now - Window
  <2>1. i \in gone
    BY <1>3
  <2>2. \A j \in 1 .. i : hits[c][j] <= now - Window
    BY <2>1 DEF gone
  <2>3. i \in 1 .. i
    BY <1>3
  <2> QED BY <2>2, <2>3
<1>7. \A i, j \in 1 .. n : i <= j => hits[c][i] <= hits[c][j]
  <2>1. /\ Forgotten(c) \in Nat /\ Forgotten(c) + n = Len(passed[c])
        /\ DOMAIN passed[c] = 1 .. Len(passed[c])
    BY <1>1, LimiterTypes DEF Remembers, Forgotten
  <2>2. /\ \A i \in 1 .. n : hits[c][i] = passed[c][Forgotten(c) + i]
        /\ \A i, j \in DOMAIN passed[c] : i <= j => passed[c][i] <= passed[c][j]
    BY <1>1 DEF Remembers
  <2>3. ASSUME NEW i \in 1 .. n, NEW j \in 1 .. n, i <= j
        PROVE  hits[c][i] <= hits[c][j]
    <3>1. /\ Forgotten(c) + i \in DOMAIN passed[c] /\ Forgotten(c) + j \in DOMAIN passed[c]
          /\ Forgotten(c) + i <= Forgotten(c) + j
      BY <1>1, <2>1, <2>3
    <3> QED BY <2>2, <3>1
  <2> QED BY <2>3
<1>8. ASSUME NEW i \in 1 .. n - g
      PROVE  hits[c][g + i] > now - Window
  <2>1. g + 1 \in 1 .. n /\ g + i \in 1 .. n /\ g + 1 <= g + i /\ g + 1 \notin 1 .. g
    BY <1>1, <1>3
  <2>2. PICK j \in 1 .. g + 1 : ~ (hits[c][j] <= now - Window)
    BY <1>1, <1>3, <2>1 DEF gone
  <2>3. j \in 1 .. n /\ j <= g + i
    BY <1>1, <1>3, <2>1
  <2>4. hits[c][j] <= hits[c][g + i]
    BY <1>7, <2>1, <2>3
  <2>5. hits[c][j] \in Nat /\ hits[c][g + i] \in Nat
    BY <1>1, <2>1, <2>3
  <2> QED BY <1>1, <2>2, <2>4, <2>5
<1>9. \A i \in 1 .. Len(Pruned(c)) :
        Pruned(c)[i] = hits[c][g + i] /\ Pruned(c)[i] > now - Window
  BY <1>5, <1>8
<1> HIDE DEF g, n
<1> QED BY <1>3, <1>5, <1>6, <1>9 DEF n

(* So the hits that are left are the last that passed, and all that passed in
   the window. *)
LEMMA PrunedIsRemembered ==
  ASSUME TypeOK, NEW c \in Clients, Remembers(c)
  PROVE  LET off == Len(passed[c]) - Len(Pruned(c)) IN
         /\ off \in 0 .. Len(passed[c]) /\ Len(Pruned(c)) \in Nat
         /\ \A i \in 1 .. Len(Pruned(c)) : Pruned(c)[i] = passed[c][off + i]
         /\ \A i \in 1 .. off : passed[c][i] <= now - Window
         /\ \A i \in off + 1 .. Len(passed[c]) : passed[c][i] > now - Window
<1> DEFINE off == Len(passed[c]) - Len(Pruned(c))
           l == Len(passed[c])
           n == Len(hits[c])
           k == Len(Pruned(c))
<1>1. l \in Nat /\ n \in Nat /\ DOMAIN passed[c] = 1 .. l /\ DOMAIN hits[c] = 1 .. n
  BY LimiterTypes
<1>2. PICK g \in 0 .. n :
        /\ k = n - g
        /\ \A i \in 1 .. k : Pruned(c)[i] = hits[c][g + i] /\ Pruned(c)[i] > now - Window
        /\ \A i \in 1 .. g : hits[c][i] <= now - Window
  BY PrunedIsTheWindow
<1>3. /\ Forgotten(c) >= 0 /\ Forgotten(c) = l - n
      /\ \A i \in 1 .. n : hits[c][i] = passed[c][Forgotten(c) + i]
      /\ \A i \in 1 .. Forgotten(c) : passed[c][i] <= now - Window
  BY <1>1 DEF Remembers, Forgotten
<1> HIDE DEF l, n, k
<1>4. off = Forgotten(c) + g /\ off \in 0 .. l /\ k \in Nat
  BY <1>1, <1>2, <1>3 DEF l, k
<1> HIDE DEF off
<1>5. \A i \in 1 .. k : Pruned(c)[i] = passed[c][off + i]
  <2>1. \A i \in 1 .. k : g + i \in 1 .. n /\ Forgotten(c) + (g + i) = off + i
    BY <1>1, <1>2, <1>3, <1>4
  <2> QED BY <1>2, <1>3, <2>1
<1>6. ASSUME NEW i \in 1 .. off
      PROVE  passed[c][i] <= now - Window
  <2>1. CASE i <= Forgotten(c)
    BY <1>1, <1>3, <1>4, <2>1
  <2>2. CASE i > Forgotten(c)
    <3>1. i - Forgotten(c) \in 1 .. g /\ i - Forgotten(c) \in 1 .. n
          /\ Forgotten(c) + (i - Forgotten(c)) = i
      BY <1>1, <1>3, <1>4, <2>2
    <3> QED BY <1>2, <1>3, <3>1
  <2> QED BY <1>1, <1>3, <1>4, <2>1, <2>2
<1>7. ASSUME NEW i \in off + 1 .. l
      PROVE  passed[c][i] > now - Window
  <2>1. i - off \in 1 .. k /\ off + (i - off) = i
    BY <1>1, <1>2, <1>3, <1>4
  <2> QED BY <1>2, <1>5, <2>1
<1> QED BY <1>4, <1>5, <1>6, <1>7 DEF off, l, k

LEMMA LimiterInit == Init => LimiterInvariant
<1> SUFFICES ASSUME Init
             PROVE  LimiterInvariant
  OBVIOUS
<1>1. refused = {}
  BY DEF Init
<1>2. ASSUME NEW c \in Clients
      PROVE  Remembers(c) /\ Spaced(c)
  <2>1. /\ hits[c] = << >> /\ passed[c] = << >>
        /\ Len(hits[c]) = 0 /\ Len(passed[c]) = 0
        /\ DOMAIN hits[c] = {} /\ DOMAIN passed[c] = {}
    BY DEF Init
  <2>2. Forgotten(c) = 0 /\ 1 .. 0 = {}
    BY <2>1 DEF Forgotten
  <2> QED BY <2>1, <2>2 DEF Remembers, Spaced
<1> QED BY <1>1, <1>2 DEF LimiterInvariant, LimiterRemembers, LimiterIsExact

(* An address that sends nothing: only the clock may have moved. *)
LEMMA SilentClient ==
  ASSUME TypeOK, NEW c \in Clients, Remembers(c), Spaced(c),
         now' \in {now, now + 1}, hits'[c] = hits[c], passed'[c] = passed[c]
  PROVE  Remembers(c)' /\ Spaced(c)'
<1>1. /\ Len(hits[c]) \in Nat /\ DOMAIN passed[c] = 1 .. Len(passed[c])
      /\ \A i \in DOMAIN passed[c] : passed[c][i] \in Nat
      /\ Len(passed[c]) \in Nat /\ now \in Nat /\ Window \in Nat
  BY LimiterTypes
<1>2. Forgotten(c)' = Forgotten(c) /\ Forgotten(c) \in Int /\ Forgotten(c) <= Len(passed[c])
  <2>1. Forgotten(c)' = Forgotten(c)
    BY DEF Forgotten
  <2>2. \A m, n \in Nat : m - n \in Int /\ m - n <= m
    OBVIOUS
  <2> QED BY <1>1, <2>1, <2>2 DEF Forgotten
<1>3. \A i \in 1 .. Forgotten(c) : passed[c][i] <= now' - Window
  <2>1. \A i \in 1 .. Forgotten(c) : i \in DOMAIN passed[c]
    <3>1. \A m \in Nat, n \in Int : n <= m => 1 .. n \subseteq 1 .. m
      OBVIOUS
    <3> QED BY <1>1, <1>2, <3>1
  <2>2. \A i \in 1 .. Forgotten(c) : passed[c][i] \in Nat /\ passed[c][i] <= now - Window
    BY <1>1, <2>1 DEF Remembers
  <2> QED BY <1>1, <2>2
<1>4. \A i \in DOMAIN passed[c] : passed[c][i] <= now'
  BY <1>1 DEF Remembers
<1>5. Remembers(c)'
  BY <1>2, <1>3, <1>4 DEF Remembers
<1>6. Spaced(c)'
  BY DEF Spaced
<1> QED BY <1>5, <1>6

(* The number of requests that passed before an instant never shrinks. *)
LEMMA StaysFull ==
  ASSUME TypeOK, NEW x, x.client \in Clients, WasFull(x),
         DOMAIN passed[x.client] \subseteq DOMAIN passed'[x.client],
         IsFiniteSet(DOMAIN passed'[x.client]),
         \A i \in DOMAIN passed[x.client] : passed'[x.client][i] = passed[x.client][i]
  PROVE  WasFull(x)'
<1> DEFINE in(s) == {i \in DOMAIN s : x.at - Window < s[i] /\ s[i] <= x.at}
           old == in(passed[x.client])
           new == in(passed'[x.client])
<1>1. old \subseteq new /\ new \subseteq DOMAIN passed'[x.client]
  OBVIOUS
<1>2. Cap <= Cardinality(old)
  BY DEF WasFull
<1>3. WasFull(x)' <=> Cap <= Cardinality(new)
  BY DEF WasFull
<1> HIDE DEF old, new
<1>4. IsFiniteSet(new)
  BY <1>1, FS_Subset
<1>5. IsFiniteSet(old) /\ Cardinality(old) <= Cardinality(new)
  BY <1>1, <1>4, FS_Subset
<1>6. Cardinality(old) \in Nat /\ Cardinality(new) \in Nat
  BY <1>4, <1>5, FS_CardinalityType
<1> QED BY <1>2, <1>3, <1>5, <1>6

(* A request that is refused: the window is full of requests that passed. *)
LEMMA RefuseKeepsLimiter ==
  ASSUME TypeOK, LimiterInvariant, NEW r \in Requests, NEW c \in Clients, Refuse(r, c), now' = now
  PROVE  LimiterInvariant'
<1> DEFINE off == Len(passed[c]) - Len(Pruned(c))
           x == [client |-> c, at |-> now]
<1>1. /\ Len(Pruned(c)) >= Cap /\ passed' = passed /\ refused' = refused \cup {x}
      /\ hits'[c] = Pruned(c) /\ \A q \in Clients \ {c} : hits'[q] = hits[q]
  BY DEF Refuse, TypeOK
<1>2. Remembers(c) /\ \A q \in Clients : Remembers(q) /\ Spaced(q)
  BY DEF LimiterInvariant, LimiterRemembers, LimiterIsExact
<1>3. /\ off \in 0 .. Len(passed[c]) /\ Len(Pruned(c)) \in Nat
      /\ \A i \in 1 .. Len(Pruned(c)) : Pruned(c)[i] = passed[c][off + i]
      /\ \A i \in 1 .. off : passed[c][i] <= now - Window
      /\ \A i \in off + 1 .. Len(passed[c]) : passed[c][i] > now - Window
  BY <1>2, PrunedIsRemembered
<1>4. /\ Len(passed[c]) \in Nat /\ DOMAIN passed[c] = 1 .. Len(passed[c])
      /\ \A i \in DOMAIN passed[c] : passed[c][i] \in Nat
      /\ now \in Nat
  BY LimiterTypes
<1>5. Pruned(c) \in Seq(0 .. MaxTime) /\ DOMAIN Pruned(c) = 1 .. Len(Pruned(c))
  BY PrunedIsSeq
<1>6. Remembers(c)'
  <2>1. Forgotten(c)' = off
    BY <1>1 DEF Forgotten
  <2> HIDE DEF off
  <2> QED BY <1>1, <1>2, <1>3, <1>5, <2>1 DEF Remembers
<1>7. ASSUME NEW q \in Clients
      PROVE  Remembers(q)' /\ Spaced(q)'
  <2>1. CASE q = c
    BY <1>1, <1>2, <1>6, <2>1 DEF Spaced
  <2>2. CASE q # c
    BY <1>1, <1>2, <2>2, SilentClient
  <2> QED BY <2>1, <2>2
<1>8. WasFull(x)
  <2> DEFINE in == {i \in DOMAIN passed[c] : now - Window < passed[c][i] /\ passed[c][i] <= now}
             last == off + 1 .. Len(passed[c])
  <2>1. last \subseteq in /\ in \subseteq 1 .. Len(passed[c])
    <3>1. \A i \in DOMAIN passed[c] : passed[c][i] <= now
      BY <1>2 DEF Remembers
    <3>2. ASSUME NEW i \in last
          PROVE  i \in in
      <4>1. i \in DOMAIN passed[c] /\ passed[c][i] > now - Window
        BY <1>3, <1>4
      <4> QED BY <1>4, <3>1, <4>1
    <3> QED BY <1>4, <3>2
  <2>2. Cardinality(last) = Len(Pruned(c))
    <3>1. off + 1 \in Int /\ Len(passed[c]) \in Int
      BY <1>3, <1>4
    <3>2. Cardinality(last) = IF off + 1 > Len(passed[c]) THEN 0 ELSE Len(passed[c]) - (off + 1) + 1
      BY <3>1, FS_Interval, Zenon
    <3> QED BY <1>3, <1>4, <3>2
  <2> HIDE DEF in, last
  <2>3. IsFiniteSet(1 .. Len(passed[c]))
    BY <1>4, UpTo
  <2>4. IsFiniteSet(in)
    BY <2>1, <2>3, FS_Subset
  <2>5. Cardinality(last) <= Cardinality(in) /\ Cardinality(in) \in Nat
    BY <2>1, <2>4, FS_Subset, FS_CardinalityType
  <2>6. Cap <= Cardinality(in)
    BY <1>1, <1>3, <2>2, <2>5
  <2> QED BY <2>6 DEF WasFull, in
<1> HIDE DEF x
<1>9. \A y \in refused : WasFull(y)
  BY DEF LimiterInvariant, LimiterIsExact
<1>10. \A y \in refused' : WasFull(y)'
  BY <1>1, <1>8, <1>9 DEF WasFull
<1> QED BY <1>7, <1>10 DEF LimiterInvariant, LimiterRemembers, LimiterIsExact

(* A request that passes: Cap requests before it, the limiter has forgotten. *)
LEMMA AdmitKeepsLimiter ==
  ASSUME TypeOK, LimiterInvariant, NEW r \in Requests, NEW c \in Clients, NEW d \in Deliveries,
         Admit(r, c, d), now' = now
  PROVE  LimiterInvariant'
<1> DEFINE off == Len(passed[c]) - Len(Pruned(c))
           k == Len(Pruned(c))
           l == Len(passed[c])
<1>1. /\ k < Cap /\ refused' = refused
      /\ hits'[c] = Append(Pruned(c), now) /\ \A q \in Clients \ {c} : hits'[q] = hits[q]
      /\ passed'[c] = Append(passed[c], now) /\ \A q \in Clients \ {c} : passed'[q] = passed[q]
  BY DEF Admit, TypeOK
<1>2. Remembers(c) /\ \A q \in Clients : Remembers(q) /\ Spaced(q)
  BY DEF LimiterInvariant, LimiterRemembers, LimiterIsExact
<1>3. /\ off \in 0 .. l /\ k \in Nat
      /\ \A i \in 1 .. k : Pruned(c)[i] = passed[c][off + i]
      /\ \A i \in 1 .. off : passed[c][i] <= now - Window
  BY <1>2, PrunedIsRemembered
<1>4. /\ l \in Nat /\ DOMAIN passed[c] = 1 .. l /\ passed[c] \in Seq(0 .. MaxTime)
      /\ \A i \in DOMAIN passed[c] : passed[c][i] \in Nat
      /\ now \in Nat /\ now \in 0 .. MaxTime
      /\ Pruned(c) \in Seq(0 .. MaxTime) /\ Cap \in Nat \ {0} /\ Window \in Nat
  BY LimiterTypes, PrunedIsSeq DEF TypeOK
<1>5. \A s \in Seq(0 .. MaxTime) :
        /\ Len(Append(s, now)) = Len(s) + 1
        /\ DOMAIN Append(s, now) = 1 .. Len(s) + 1
        /\ Append(s, now)[Len(s) + 1] = now
        /\ \A i \in 1 .. Len(s) : Append(s, now)[i] = s[i]
  BY <1>4
<1>6. /\ Len(passed'[c]) = l + 1 /\ DOMAIN passed'[c] = 1 .. l + 1
      /\ passed'[c][l + 1] = now /\ \A i \in 1 .. l : passed'[c][i] = passed[c][i]
      /\ Len(hits'[c]) = k + 1 /\ DOMAIN hits'[c] = 1 .. k + 1
      /\ hits'[c][k + 1] = now /\ \A i \in 1 .. k : hits'[c][i] = Pruned(c)[i]
  BY <1>1, <1>4, <1>5
<1>7. off = l - k
  OBVIOUS
<1>8. \A i \in 1 .. l : i + Cap <= l => passed[c][i + Cap] - passed[c][i] >= Window
  <2>1. \A i \in DOMAIN passed[c] :
          i + Cap <= Len(passed[c]) => passed[c][i + Cap] - passed[c][i] >= Window
    BY <1>2 DEF Spaced
  <2> QED BY <1>4, <2>1
<1> HIDE DEF off, k, l
<1>9. Forgotten(c)' = off
  BY <1>3, <1>4, <1>6, <1>7 DEF Forgotten
<1>10. \A i \in 1 .. k + 1 : hits'[c][i] = passed'[c][off + i]
  <2>1. \A i \in 1 .. k : off + i \in 1 .. l
    BY <1>3, <1>4, <1>7
  <2>2. off + (k + 1) = l + 1
    BY <1>3, <1>4, <1>7
  <2>3. \A i \in 1 .. k + 1 : i \in 1 .. k \/ i = k + 1
    BY <1>3
  <2> QED BY <1>3, <1>6, <2>1, <2>2, <2>3
<1>11. \A i \in 1 .. off : passed'[c][i] <= now - Window
  <2>1. \A i \in 1 .. off : i \in 1 .. l
    BY <1>3, <1>4
  <2> QED BY <1>3, <1>6, <2>1
<1>12. \A i \in 1 .. l : passed[c][i] <= now
  BY <1>2, <1>4 DEF Remembers
<1>13. \A i \in 1 .. l + 1 : i \in 1 .. l \/ i = l + 1
  BY <1>4
<1>14. \A i \in 1 .. l + 1 : passed'[c][i] <= now
  <2>1. now <= now
    BY <1>4
  <2> QED BY <1>6, <1>12, <1>13, <2>1
<1>15. ASSUME NEW i \in 1 .. l + 1, NEW j \in 1 .. l + 1, i <= j
       PROVE  passed'[c][i] <= passed'[c][j]
  <2>1. CASE j = l + 1
    BY <1>6, <1>14, <2>1
  <2>2. CASE j \in 1 .. l
    <3>1. i \in 1 .. l
      BY <1>4, <1>15, <2>2
    <3> QED BY <1>2, <1>4, <1>6, <1>15, <2>2, <3>1 DEF Remembers
  <2> QED BY <1>13, <2>1, <2>2
<1>16. Remembers(c)'
  <2>1. (Forgotten(c) >= 0)'
    BY <1>3, <1>4, <1>9
  <2>2. (\A i \in DOMAIN hits[c] : hits[c][i] = passed[c][Forgotten(c) + i])'
    BY <1>6, <1>9, <1>10
  <2>3. (\A i \in 1 .. Forgotten(c) : passed[c][i] <= now - Window)'
    BY <1>9, <1>11
  <2>4. (\A i, j \in DOMAIN passed[c] : i <= j => passed[c][i] <= passed[c][j])'
    BY <1>6, <1>15
  <2>5. (\A i \in DOMAIN passed[c] : passed[c][i] <= now)'
    BY <1>6, <1>14
  <2> QED BY <2>1, <2>2, <2>3, <2>4, <2>5 DEF Remembers
<1>17. ASSUME NEW i \in 1 .. l + 1, i + Cap <= l + 1
       PROVE  passed'[c][i + Cap] - passed'[c][i] >= Window
  <2>1. CASE i + Cap = l + 1
    <3>1. i \in 1 .. off /\ i \in 1 .. l
      BY <1>1, <1>3, <1>4, <1>7, <2>1
    <3>2. passed'[c][i] <= now - Window /\ passed'[c][i] \in Nat
      BY <1>4, <1>6, <1>11, <3>1
    <3>3. passed'[c][i + Cap] = now
      BY <1>6, <2>1
    <3>4. \A m \in Nat : m <= now - Window => now - m >= Window
      BY <1>4
    <3> QED BY <3>2, <3>3, <3>4
  <2>2. CASE i + Cap # l + 1
    <3>1. i \in 1 .. l /\ i + Cap \in 1 .. l /\ i + Cap <= l
      <4>1. \A m \in Nat, w \in Nat \ {0} : \A j \in 1 .. m + 1 :
              j + w <= m + 1 /\ j + w # m + 1 => j \in 1 .. m /\ j + w \in 1 .. m /\ j + w <= m
        OBVIOUS
      <4> QED BY <1>4, <1>17, <2>2, <4>1
    <3>2. passed[c][i + Cap] - passed[c][i] >= Window
      BY <1>8, <3>1
    <3> QED BY <1>6, <3>1, <3>2
  <2> QED BY <2>1, <2>2
<1>18. Spaced(c)'
  BY <1>6, <1>17 DEF Spaced
<1>19. ASSUME NEW q \in Clients
       PROVE  Remembers(q)' /\ Spaced(q)'
  <2>1. CASE q = c
    BY <1>16, <1>18, <2>1
  <2>2. CASE q # c
    BY <1>1, <1>2, <2>2, SilentClient
  <2> QED BY <2>1, <2>2
<1>20. ASSUME NEW x \in refused'
       PROVE  WasFull(x)'
  <2>1. WasFull(x) /\ x.client \in Clients
    BY <1>1, <1>20 DEF LimiterInvariant, LimiterIsExact, TypeOK
  <2>2. CASE x.client = c
    <3>1. IsFiniteSet(1 .. l + 1) /\ 1 .. l \subseteq 1 .. l + 1
      <4>1. l + 1 \in Nat
        BY <1>4
      <4> QED BY <1>4, <4>1, UpTo
    <3> QED BY <1>4, <1>6, <2>1, <2>2, <3>1, StaysFull
  <2>3. CASE x.client # c
    <3>1. passed'[x.client] = passed[x.client]
      BY <1>1, <2>1, <2>3
    <3> QED BY <2>1, <3>1 DEF WasFull
  <2> QED BY <2>2, <2>3
<1> QED BY <1>19, <1>20 DEF LimiterInvariant, LimiterRemembers, LimiterIsExact

LEMMA NextKeepsLimiter == TypeOK /\ LimiterInvariant /\ [Next]_vars => LimiterInvariant'
<1> SUFFICES ASSUME TypeOK, LimiterInvariant, [Next]_vars
             PROVE  LimiterInvariant'
  OBVIOUS
<1>1. ASSUME NEW r \in Requests, NEW c \in Clients, NEW d \in Deliveries, Arrive(r, c, d)
      PROVE  LimiterInvariant'
  BY <1>1, RefuseKeepsLimiter, AdmitKeepsLimiter DEF Arrive
<1>2. ASSUME now' \in {now, now + 1}, UNCHANGED <<hits, passed, refused>>
      PROVE  LimiterInvariant'
  <2>1. \A c \in Clients : Remembers(c)' /\ Spaced(c)'
    BY <1>2, SilentClient DEF LimiterInvariant, LimiterRemembers, LimiterIsExact
  <2>2. \A x \in refused' : WasFull(x)'
    BY <1>2 DEF LimiterInvariant, LimiterIsExact, WasFull
  <2> QED BY <2>1, <2>2 DEF LimiterInvariant, LimiterRemembers, LimiterIsExact
<1>3. ASSUME NEW r \in Requests,
             \/ Load(r) \/ Write(r) \/ InsertConflicts(r) \/ FindKnown(r)
             \/ FindNothing(r) \/ Flush(r) \/ CommitReview(r) \/ RollBack(r)
      PROVE  now' = now /\ UNCHANGED <<hits, passed, refused>>
  BY <1>3 DEF Load, Write, InsertConflicts, FindKnown, FindNothing, Flush, CommitReview,
       RollBack, limiterVars
<1>4. SetUrgency \/ UNCHANGED vars => now' = now /\ UNCHANGED <<hits, passed, refused>>
  BY DEF SetUrgency, vars, limiterVars
<1>5. Tick => now' = now + 1 /\ UNCHANGED <<hits, passed, refused>>
  BY DEF Tick
<1>6. CASE \E r \in Requests : Serve(r)
  <2>1. PICK r \in Requests : Serve(r)
    BY <1>6
  <2> QED BY <1>1, <1>2, <1>3, <2>1 DEF Serve
<1> QED BY <1>2, <1>4, <1>5, <1>6 DEF Next

-----------------------------------------------------------------------------
(* Every variable stays in its range, and whoever writes the row of the pull
   request holds its lock (ingest.py:142-200). *)
THEOREM TypesAndInvariant == Spec => [](TypeOK /\ IntakeInvariant)
<1>1. Init => TypeOK /\ IntakeInvariant
  BY TypeInit, InvariantInit
<1>2. TypeOK /\ IntakeInvariant /\ [Next]_vars => (TypeOK /\ IntakeInvariant)'
  BY NextKeepsTypes, NextKeepsInvariant
<1> QED BY <1>1, <1>2, PTL DEF Spec

(* Every variable stays in its range, a score between nothing and that of the
   largest change of the most urgent repository (risk_classifier.py:77-108). *)
THEOREM TypeSafety == Spec => []TypeOK
BY TypesAndInvariant, PTL

(* What makes the limiter exact, inductive by itself (ratelimit.py:36-50). *)
THEOREM LimiterInvariantHolds == Spec => []LimiterInvariant
<1>1. Init => TypeOK /\ LimiterInvariant
  BY TypeInit, LimiterInit
<1>2. TypeOK /\ LimiterInvariant /\ [Next]_vars => LimiterInvariant'
  BY NextKeepsLimiter
<1> QED BY <1>1, <1>2, TypeSafety, PTL DEF Spec

(* No more than Cap requests of an address pass in any window, and one is
   refused only where that many did (ratelimit.py:36-50). *)
THEOREM LimiterIsAlwaysExact == Spec => []LimiterIsExact
<1>1. LimiterInvariant => LimiterIsExact
  BY DEF LimiterInvariant
<1> QED BY <1>1, LimiterInvariantHolds, PTL

(* The head and the counts of a pull request are those of one delivery, unless
   a request wrote over a row it had not seen (ingest.py:142-172). *)
THEOREM RowIsOfOneDelivery == Spec => []RowIsOneDeliverys
<1>1. IntakeInvariant => RowIsOneDeliverys
  BY DEF IntakeInvariant
<1> QED BY <1>1, TypesAndInvariant, PTL

(* The head is the newest stored, unless deliveries were stored out of the
   order of the pushes or over a row not seen (ingest.py:72-82, 164-172). *)
THEOREM HeadIsOfTheNewest == Spec => []HeadIsNewest
<1>1. TypeOK /\ IntakeInvariant => HeadIsNewest
  <2> SUFFICES ASSUME TypeOK, IntakeInvariant, ~ stale, ~ late, NEW d \in Newest(Stored)
               PROVE  row.commit = Commit[d]
    BY DEF HeadIsNewest
  <2>1. d \in Stored /\ d \in Deliveries /\ row # NoRow
    BY DEF Newest, IntakeInvariant, RowsAreSound, TypeOK
  <2>2. PICK e \in Stored : row = Fields(e)
    BY <2>1 DEF IntakeInvariant, RowIsOneDeliverys
  <2>3. e \in Deliveries /\ row.commit = Commit[e]
    BY <2>2, FieldsAreARow DEF TypeOK
  <2>4. Commit[e] <= Commit[d] /\ Commit[d] <= row.commit
    BY <2>1, <2>2 DEF Newest, IntakeInvariant, RowsAreSound
  <2> QED BY <2>1, <2>3, <2>4
<1> QED BY <1>1, TypesAndInvariant, PTL

=============================================================================
