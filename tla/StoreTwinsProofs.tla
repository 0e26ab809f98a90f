--------------------------- MODULE StoreTwinsProofs ---------------------------
(***************************************************************************)
(* Theorems about StoreTwins, for any reviews, findings and repositories,  *)
(* any suite of calls, and any number of calls of each kind.               *)
(***************************************************************************)
EXTENDS StoreTwins, FiniteSetTheorems, SequenceTheorems, TLAPS

(* A call writes to no more than these tables of the two stores. *)
Writes(S, M) ==
  /\ sql' = [t \in SqlTables |-> sql'[t]] /\ \A t \in SqlTables \ S : sql'[t] = sql[t]
  /\ mem' = [t \in MemTables |-> mem'[t]] /\ \A t \in MemTables \ M : mem'[t] = mem[t]
  /\ now' = now /\ strayed \subseteq strayed'

LEMMA Noted == ASSUME NEW kind, NEW apart, Noting(kind, apart)
               PROVE  strayed \subseteq strayed' /\ (apart => kind \in strayed')
BY DEF Noting

LEMMA FetchIsAClaim ==
  ASSUME ClaimsMatch, NEW r
  PROVE  /\ Mem!Fetch(mem, r) \in Claims
         /\ Mem!Known(mem, r) => Mem!Fetch(mem, r) = mem.reviews[r]
         /\ Mem!Status(mem, r) = Mem!Fetch(mem, r).status
BY DEF ClaimsMatch, Mem!Fetch, Mem!Known, Mem!Status, Claims, Statuses

(* What a put does to the claims. *)
LEMMA PutKeepsClaims ==
  ASSUME ClaimsMatch, NEW r \in Reviews, NEW record \in Claims,
         mem'.reviews = [q \in DOMAIN mem.reviews \cup {r} |->
                           IF q = r THEN record ELSE mem.reviews[q]],
         strayed \subseteq strayed',
         sql'.status \in [Reviews -> Statuses], sql'.updated \in [Reviews -> 0 .. MaxTime],
         \A q \in Reviews \ {r} : sql'.status[q] = sql.status[q] /\ sql'.updated[q] = sql.updated[q],
         \/ "touched" \in strayed'
         \/ /\ record.status \in {"none", sql'.status[r]}
            /\ record.status = "none" => sql'.status[r] = "QUEUED"
            /\ sql'.status[r] = "PUBLISHING" => record.claimed = <<sql'.updated[r]>>
  PROVE  ClaimsMatch'
<1>1. /\ DOMAIN mem'.reviews = DOMAIN mem.reviews \cup {r} /\ mem'.reviews[r] = record
      /\ \A q \in DOMAIN mem.reviews \ {r} : mem'.reviews[q] = mem.reviews[q]
  OBVIOUS
<1>2. /\ DOMAIN mem'.reviews \subseteq Reviews
      /\ \A q \in DOMAIN mem'.reviews : mem'.reviews[q] \in Claims
  BY <1>1 DEF ClaimsMatch
<1>3. Mem!Status(mem', r) = record.status
  BY <1>1 DEF Mem!Status, Mem!Known
<1>4. \A q \in Reviews \ {r} : Mem!Status(mem', q) = Mem!Status(mem, q)
  BY <1>1 DEF Mem!Status, Mem!Known
<1>5. ASSUME "touched" \notin strayed', NEW q \in Reviews
      PROVE  /\ Mem!Status(mem', q) \in {"none", sql'.status[q]}
             /\ Mem!Status(mem', q) = "none" => sql'.status[q] = "QUEUED"
             /\ sql'.status[q] = "PUBLISHING" => mem'.reviews[q].claimed = <<sql'.updated[q]>>
  <2>1. CASE q = r
    BY <1>1, <1>3, <1>5, <2>1
  <2>2. CASE q # r
    <3>1. /\ Mem!Status(mem, q) \in {"none", sql.status[q]}
          /\ Mem!Status(mem, q) = "none" => sql.status[q] = "QUEUED"
          /\ sql.status[q] = "PUBLISHING" => mem.reviews[q].claimed = <<sql.updated[q]>>
      BY <1>5 DEF ClaimsMatch, Strayed
    <3>2. sql.status[q] = "PUBLISHING" => q \in DOMAIN mem.reviews
      BY <3>1 DEF Mem!Status, Mem!Known
    <3> QED BY <1>1, <1>4, <2>2, <3>1, <3>2
  <2> QED BY <2>1, <2>2
<1> QED BY <1>2, <1>5 DEF ClaimsMatch, Strayed

LEMMA ClaimsStay ==
  ASSUME ClaimsMatch, sql'.status = sql.status, sql'.updated = sql.updated,
         mem'.reviews = mem.reviews, strayed \subseteq strayed'
  PROVE  ClaimsMatch'
BY DEF ClaimsMatch, Strayed, Mem!Status, Mem!Known

(* A status is set in both, and a claim dated. *)
LEMMA SetStatus ==
  ASSUME TablesAreThere, ClaimsMatch, NEW r \in Reviews, NEW record \in Claims,
         NEW status \in Statuses, record.status = status, status # "none",
         Both(Sql!Transition(sql, r, status, now), Mem!Put(mem, r, record)), Alike,
         status = "PUBLISHING" => record.claimed = <<now>>
  PROVE  ClaimsMatch' /\ Writes({"status", "updated"}, {"reviews"})
<1>1. /\ sql' = Sql!Transition(sql, r, status, now) /\ mem' = Mem!Put(mem, r, record)
      /\ UNCHANGED <<now, strayed>>
      /\ sql = [t \in SqlTables |-> sql[t]] /\ mem = [t \in MemTables |-> mem[t]]
  BY DEF Both, Alike, TablesAreThere
<1>2. /\ sql' = [t \in SqlTables |-> sql'[t]]
      /\ sql'.status = [sql.status EXCEPT ![r] = status]
      /\ sql'.updated = [sql.updated EXCEPT ![r] = now]
      /\ \A t \in SqlTables \ {"status", "updated"} : sql'[t] = sql[t]
  BY <1>1 DEF Sql!Transition, SqlTables
<1>3. /\ mem' = [t \in MemTables |-> mem'[t]] /\ \A t \in MemTables \ {"reviews"} : mem'[t] = mem[t]
      /\ mem'.reviews = [q \in DOMAIN mem.reviews \cup {r} |->
                           IF q = r THEN record ELSE mem.reviews[q]]
  BY <1>1 DEF Mem!Put, MemTables
<1>4. Writes({"status", "updated"}, {"reviews"})
  BY <1>1, <1>2, <1>3 DEF Writes
<1>5. /\ sql'.status \in [Reviews -> Statuses] /\ sql'.updated \in [Reviews -> 0 .. MaxTime]
      /\ sql'.status[r] = status /\ sql'.updated[r] = now
      /\ \A q \in Reviews \ {r} : sql'.status[q] = sql.status[q] /\ sql'.updated[q] = sql.updated[q]
  BY <1>2 DEF ClaimsMatch, TablesAreThere
<1>6. /\ record.status \in {"none", sql'.status[r]}
      /\ record.status = "none" => sql'.status[r] = "QUEUED"
      /\ sql'.status[r] = "PUBLISHING" => record.claimed = <<sql'.updated[r]>>
  BY <1>5
<1>7. strayed \subseteq strayed'
  BY <1>1
<1>8. ClaimsMatch'
  BY <1>3, <1>5, <1>6, <1>7, PutKeepsClaims
<1> QED BY <1>4, <1>8

(* A note moves the date of the row: the two part when it was claimed. *)
LEMMA NoteKeepsClaims ==
  ASSUME TablesAreThere, ClaimsMatch, NEW r \in Reviews, strayed \subseteq strayed',
         Prolonging(r) => "touched" \in strayed',
         sql'.status = sql.status, sql'.updated = [sql.updated EXCEPT ![r] = now],
         \/ mem'.reviews = mem.reviews
         \/ mem'.reviews = [q \in DOMAIN mem.reviews \cup {r} |->
                              IF q = r THEN Mem!Fetch(mem, r) ELSE mem.reviews[q]]
  PROVE  ClaimsMatch'
<1>1. /\ sql'.status \in [Reviews -> Statuses] /\ sql'.updated \in [Reviews -> 0 .. MaxTime]
      /\ \A q \in Reviews \ {r} : sql'.status[q] = sql.status[q] /\ sql'.updated[q] = sql.updated[q]
  BY DEF ClaimsMatch, TablesAreThere
<1>2. ASSUME "touched" \notin strayed'
      PROVE  /\ "touched" \notin strayed /\ sql.status[r] # "PUBLISHING"
             /\ Mem!Status(mem, r) \in {"none", sql.status[r]}
             /\ Mem!Status(mem, r) = "none" => sql.status[r] = "QUEUED"
  BY <1>2 DEF ClaimsMatch, Strayed, Prolonging
<1>3. CASE mem'.reviews = mem.reviews
  <2>1. \A q : Mem!Status(mem', q) = Mem!Status(mem, q)
    BY <1>3 DEF Mem!Status, Mem!Known
  <2> QED BY <1>1, <1>2, <1>3, <2>1 DEF ClaimsMatch, Strayed
<1>4. CASE mem'.reviews = [q \in DOMAIN mem.reviews \cup {r} |->
                             IF q = r THEN Mem!Fetch(mem, r) ELSE mem.reviews[q]]
  BY <1>1, <1>2, <1>4, FetchIsAClaim, PutKeepsClaims
<1> QED BY <1>3, <1>4

(* A step of a review's run or publication that leaves both stores alone. *)
LEMMA NothingWritten ==
  ASSUME TablesAreThere, Both(sql, mem), strayed \subseteq strayed', NEW S, NEW M
  PROVE  UNCHANGED <<sql, mem>> /\ Writes(S, M)
<1>1. UNCHANGED <<sql, mem, now>>
  BY DEF Both
<1> QED BY <1>1 DEF Writes, TablesAreThere

LEMMA TransitionClaims ==
  ASSUME TablesAreThere, ClaimsMatch, NEW r \in Reviews,
         NEW to \in {"DECIDING", "ITERATING", "FAILED"}, Transition(r, to)
  PROVE  ClaimsMatch' /\ Writes({"status", "updated"}, {"reviews"})
<1> DEFINE record == [Mem!Fetch(mem, r) EXCEPT !.status = to]
<1>1. Both(Sql!Transition(sql, r, to, now), Mem!Put(mem, r, record)) /\ Alike
  BY DEF Transition, Mem!Transition
<1>2. to \in Statuses /\ to # "none" /\ to # "PUBLISHING"
  BY DEF Statuses
<1>3. record \in Claims /\ record.status = to
  BY <1>2, FetchIsAClaim DEF Claims
<1> HIDE DEF record
<1> QED BY <1>1, <1>2, <1>3, SetStatus

LEMMA PublishedClaims ==
  ASSUME TablesAreThere, ClaimsMatch, NEW r \in Reviews, MarkReviewPublished(r)
  PROVE  ClaimsMatch' /\ Writes({"status", "updated"}, {"reviews"})
<1> DEFINE to == "PUBLISHED"
           record == [Mem!Fetch(mem, r) EXCEPT !.status = to]
<1>1. Both(Sql!Transition(sql, r, to, now), Mem!Put(mem, r, record)) /\ Alike
  BY DEF MarkReviewPublished, Sql!MarkReviewPublished, Mem!MarkReviewPublished, Mem!Transition
<1>2. to \in Statuses /\ to # "none" /\ to # "PUBLISHING"
  BY DEF Statuses
<1>3. record \in Claims /\ record.status = to
  BY <1>2, FetchIsAClaim DEF Claims
<1> HIDE DEF record, to
<1> QED BY <1>1, <1>2, <1>3, SetStatus

LEMMA NoteClaims ==
  ASSUME TablesAreThere, ClaimsMatch, NEW r \in Reviews, AppendNote(r)
  PROVE  ClaimsMatch' /\ Writes({"updated"}, {"reviews"})
<1>1. /\ sql' = [sql EXCEPT !.updated[r] = now] /\ mem' = Mem!Put(mem, r, Mem!Fetch(mem, r))
      /\ now' = now /\ Noting("touched", Prolonging(r))
      /\ sql = [t \in SqlTables |-> sql[t]] /\ mem = [t \in MemTables |-> mem[t]]
  BY DEF AppendNote, Both, Sql!AppendNote, Mem!AppendNote, TablesAreThere
<1>2. /\ sql' = [t \in SqlTables |-> sql'[t]]
      /\ sql'.updated = [sql.updated EXCEPT ![r] = now]
      /\ \A t \in SqlTables \ {"updated"} : sql'[t] = sql[t]
  BY <1>1 DEF SqlTables
<1>3. /\ mem' = [t \in MemTables |-> mem'[t]] /\ \A t \in MemTables \ {"reviews"} : mem'[t] = mem[t]
      /\ mem'.reviews = [q \in DOMAIN mem.reviews \cup {r} |->
                           IF q = r THEN Mem!Fetch(mem, r) ELSE mem.reviews[q]]
  BY <1>1 DEF Mem!Put, MemTables
<1>4. strayed \subseteq strayed' /\ (Prolonging(r) => "touched" \in strayed')
  BY <1>1, Noted
<1>5. sql'.status = sql.status
  BY <1>2 DEF SqlTables
<1>6. ClaimsMatch'
  BY <1>2, <1>3, <1>4, <1>5, NoteKeepsClaims
<1> QED BY <1>1, <1>2, <1>3, <1>4, <1>6 DEF Writes

LEMMA DecisionClaims ==
  ASSUME TablesAreThere, ClaimsMatch, NEW r \in Reviews, NEW news \in BOOLEAN,
         RecordDecision(r, news)
  PROVE  ClaimsMatch' /\ Writes({"updated"}, {})
<1>1. strayed \subseteq strayed' /\ (news /\ Prolonging(r) => "touched" \in strayed')
  BY Noted DEF RecordDecision
<1>2. CASE news
  <2>1. /\ sql' = [sql EXCEPT !.updated[r] = now] /\ mem' = mem /\ now' = now
        /\ sql = [t \in SqlTables |-> sql[t]] /\ mem = [t \in MemTables |-> mem[t]]
    BY <1>2 DEF RecordDecision, Both, Sql!RecordDecision, Sql!AppendNote, Mem!RecordDecision,
                TablesAreThere
  <2>2. /\ sql' = [t \in SqlTables |-> sql'[t]] /\ sql'.updated = [sql.updated EXCEPT ![r] = now]
        /\ sql'.status = sql.status /\ \A t \in SqlTables \ {"updated"} : sql'[t] = sql[t]
    BY <2>1 DEF SqlTables
  <2>3. ClaimsMatch'
    BY <1>1, <1>2, <2>1, <2>2, NoteKeepsClaims
  <2> QED BY <1>1, <2>1, <2>2, <2>3 DEF Writes
<1>3. CASE ~ news
  <2>1. Both(sql, mem)
    BY <1>3 DEF RecordDecision, Sql!RecordDecision, Mem!RecordDecision
  <2>2. UNCHANGED <<sql, mem>> /\ Writes({"updated"}, {})
    BY <1>1, <2>1, NothingWritten
  <2> QED BY <1>1, <2>2, ClaimsStay
<1> QED BY <1>2, <1>3

(* Undisturbed, the two offer the same reviews. *)
LEMMA SameClaimable ==
  ASSUME TablesAreThere, ClaimsMatch, "touched" \notin strayed, NEW r \in Reviews
  PROVE  Sql!Claimable(sql, r, now) <=> Mem!Claimable(mem, r, now)
<1>1. /\ Mem!Status(mem, r) \in {"none", sql.status[r]}
      /\ Mem!Status(mem, r) = "none" => sql.status[r] = "QUEUED"
      /\ sql.status[r] = "PUBLISHING" => mem.reviews[r].claimed = <<sql.updated[r]>>
  BY DEF ClaimsMatch, Strayed
<1>2. CASE Mem!Status(mem, r) = "none"
  BY <1>1, <1>2 DEF Sql!Claimable, Mem!Claimable, Mem!Status, Mem!Known
<1>3. CASE Mem!Status(mem, r) # "none"
  <2>1. Mem!Known(mem, r) /\ mem.reviews[r].status = sql.status[r]
    BY <1>1, <1>3 DEF Mem!Status
  <2>2. CASE sql.status[r] = "PUBLISHING"
    <3>1. /\ mem.reviews[r].claimed = <<sql.updated[r]>>
          /\ mem.reviews[r].claimed # << >> /\ mem.reviews[r].claimed[1] = sql.updated[r]
      BY <1>1, <2>2
    <3> QED BY <2>1, <2>2, <3>1 DEF Sql!Claimable, Sql!Stale, Mem!Claimable
  <2>3. CASE sql.status[r] # "PUBLISHING"
    BY <2>1, <2>3 DEF Sql!Claimable, Mem!Claimable
  <2> QED BY <2>2, <2>3
<1> QED BY <1>2, <1>3

LEMMA SameRelease ==
  ASSUME ClaimsMatch, "touched" \notin strayed, NEW r \in Reviews
  PROVE  sql.status[r] = "PUBLISHING" <=> Mem!Known(mem, r) /\ mem.reviews[r].status = "PUBLISHING"
BY DEF ClaimsMatch, Strayed, Mem!Status

(* Once they have parted, each goes its own way and stays in its form. *)
LEMMA PartedClaims ==
  ASSUME TablesAreThere, ClaimsMatch, "touched" \in strayed, Alike, NEW r \in Reviews,
         NEW status \in Statuses, NEW record \in Claims, NEW s, NEW m, Both(s, m),
         s = sql \/ s = Sql!Transition(sql, r, status, now),
         m = mem \/ m = Mem!Put(mem, r, record)
  PROVE  ClaimsMatch' /\ Writes({"status", "updated"}, {"reviews"})
<1>1. /\ sql' = s /\ mem' = m /\ UNCHANGED <<now, strayed>>
      /\ sql = [t \in SqlTables |-> sql[t]] /\ mem = [t \in MemTables |-> mem[t]]
      /\ now \in 0 .. MaxTime
  BY DEF Both, Alike, TablesAreThere
<1>2. /\ sql' = [t \in SqlTables |-> sql'[t]]
      /\ \A t \in SqlTables \ {"status", "updated"} : sql'[t] = sql[t]
      /\ sql'.status \in [Reviews -> Statuses] /\ sql'.updated \in [Reviews -> 0 .. MaxTime]
  <2>1. CASE s = sql
    BY <1>1, <2>1 DEF ClaimsMatch
  <2>2. CASE s = Sql!Transition(sql, r, status, now)
    <3>1. /\ sql' = [t \in SqlTables |-> sql'[t]]
          /\ sql'.status = [sql.status EXCEPT ![r] = status]
          /\ sql'.updated = [sql.updated EXCEPT ![r] = now]
          /\ \A t \in SqlTables \ {"status", "updated"} : sql'[t] = sql[t]
      BY <1>1, <2>2 DEF Sql!Transition, SqlTables
    <3> QED BY <1>1, <3>1 DEF ClaimsMatch
  <2> QED BY <2>1, <2>2
<1>3. /\ mem' = [t \in MemTables |-> mem'[t]]
      /\ \A t \in MemTables \ {"reviews"} : mem'[t] = mem[t]
      /\ DOMAIN mem'.reviews \subseteq Reviews
      /\ \A q \in DOMAIN mem'.reviews : mem'.reviews[q] \in Claims
  <2>1. CASE m = mem
    BY <1>1, <2>1 DEF ClaimsMatch
  <2>2. CASE m = Mem!Put(mem, r, record)
    <3>1. /\ mem' = [t \in MemTables |-> mem'[t]]
          /\ \A t \in MemTables \ {"reviews"} : mem'[t] = mem[t]
          /\ mem'.reviews = [q \in DOMAIN mem.reviews \cup {r} |->
                               IF q = r THEN record ELSE mem.reviews[q]]
      BY <1>1, <2>2 DEF Mem!Put, MemTables
    <3> QED BY <3>1 DEF ClaimsMatch
  <2> QED BY <2>1, <2>2
<1> QED BY <1>1, <1>2, <1>3 DEF ClaimsMatch, Strayed, Writes

LEMMA ClaimClaims ==
  ASSUME TablesAreThere, ClaimsMatch, NEW r \in Reviews, Claim(r)
  PROVE  ClaimsMatch' /\ Writes({"status", "updated"}, {"reviews"})
<1> DEFINE to == "PUBLISHING"
           record == [status |-> to, claimed |-> <<now>>]
<1>1. to \in Statuses /\ to # "none" /\ record \in Claims /\ record.status = to
      /\ record.claimed = <<now>>
  BY DEF Statuses, Claims, TablesAreThere
<1>2. Alike /\ Both(Sql!Claim(sql, r, now), Mem!Claim(mem, r, now))
  BY DEF Claim
<1>3. CASE "touched" \in strayed
  <2>1. /\ Sql!Claim(sql, r, now) \in {sql, Sql!Transition(sql, r, to, now)}
        /\ Mem!Claim(mem, r, now) \in {mem, Mem!Put(mem, r, record)}
    BY DEF Sql!Claim, Mem!Claim
  <2> HIDE DEF record, to
  <2> QED BY <1>1, <1>2, <1>3, <2>1, PartedClaims
<1>4. CASE "touched" \notin strayed /\ Mem!Claimable(mem, r, now)
  <2>1. Sql!Claimable(sql, r, now)
    BY <1>4, SameClaimable
  <2>2. Both(Sql!Transition(sql, r, to, now), Mem!Put(mem, r, record))
    BY <1>2, <1>4, <2>1 DEF Sql!Claim, Mem!Claim
  <2> HIDE DEF record, to
  <2> QED BY <1>1, <1>2, <2>2, SetStatus
<1>5. CASE "touched" \notin strayed /\ ~ Mem!Claimable(mem, r, now)
  <2>1. ~ Sql!Claimable(sql, r, now)
    BY <1>5, SameClaimable
  <2>2. Both(sql, mem) /\ strayed \subseteq strayed'
    BY <1>2, <1>5, <2>1 DEF Sql!Claim, Mem!Claim, Alike
  <2>3. UNCHANGED <<sql, mem>> /\ Writes({"status", "updated"}, {"reviews"})
    BY <2>2, NothingWritten
  <2> QED BY <2>2, <2>3, ClaimsStay
<1> QED BY <1>3, <1>4, <1>5

LEMMA ReleaseClaims ==
  ASSUME TablesAreThere, ClaimsMatch, NEW r \in Reviews, Release(r)
  PROVE  ClaimsMatch' /\ Writes({"status", "updated"}, {"reviews"})
<1> DEFINE to == "DECIDING"
           record == [status |-> to, claimed |-> << >>]
           held == Mem!Known(mem, r) /\ mem.reviews[r].status = "PUBLISHING"
<1>1. to \in Statuses /\ to # "none" /\ to # "PUBLISHING" /\ record \in Claims
      /\ record.status = to
  BY DEF Statuses, Claims
<1>2. Alike /\ Both(Sql!Release(sql, r, now), Mem!Release(mem, r))
  BY DEF Release
<1>3. CASE "touched" \in strayed
  <2>1. /\ Sql!Release(sql, r, now) \in {sql, Sql!Transition(sql, r, to, now)}
        /\ Mem!Release(mem, r) \in {mem, Mem!Put(mem, r, record)}
    BY DEF Sql!Release, Mem!Release
  <2> HIDE DEF record, to
  <2> QED BY <1>1, <1>2, <1>3, <2>1, PartedClaims
<1>4. CASE "touched" \notin strayed /\ held
  <2>1. sql.status[r] = "PUBLISHING"
    BY <1>4, SameRelease
  <2>2. Both(Sql!Transition(sql, r, to, now), Mem!Put(mem, r, record))
    BY <1>2, <1>4, <2>1 DEF Sql!Release, Mem!Release
  <2> HIDE DEF record, to
  <2> QED BY <1>1, <1>2, <2>2, SetStatus
<1>5. CASE "touched" \notin strayed /\ ~ held
  <2>1. sql.status[r] # "PUBLISHING"
    BY <1>5, SameRelease
  <2>2. Both(sql, mem) /\ strayed \subseteq strayed'
    BY <1>2, <1>5, <2>1 DEF Sql!Release, Mem!Release, Alike
  <2>3. UNCHANGED <<sql, mem>> /\ Writes({"status", "updated"}, {"reviews"})
    BY <2>2, NothingWritten
  <2> QED BY <2>2, <2>3, ClaimsStay
<1> QED BY <1>3, <1>4, <1>5

(* What the invariant says of the claims is what a publisher is shown. *)
LEMMA ClaimsImply ==
  ASSUME TablesAreThere, ClaimsMatch
  PROVE  ClaimsAgree
<1>1. ASSUME "touched" \notin strayed
      PROVE  /\ Sql!Pending(sql, now) = Mem!Pending(mem, now)
             /\ \A r \in Reviews : Mem!Status(mem, r) \in {"none", Sql!Status(sql, r)}
             /\ \A r \in Reviews : Mem!Status(mem, r) = "none" => Sql!Status(sql, r) = "QUEUED"
  <2>1. Sql!Pending(sql, now) = Mem!Pending(mem, now)
    BY <1>1, SameClaimable DEF Sql!Pending, Mem!Pending
  <2> QED BY <1>1, <2>1 DEF ClaimsMatch, Strayed, Sql!Status
<1> QED BY <1>1 DEF ClaimsAgree, Strayed

-----------------------------------------------------------------------------
(* The findings. *)

LEMMA EntriesOfASeq ==
  ASSUME NEW S, NEW s \in Seq(S)
  PROVE  DOMAIN s = 1 .. Len(s) /\ Len(s) \in Nat /\ \A i \in DOMAIN s : s[i] \in S
OBVIOUS

LEMMA SeqOfEntries ==
  ASSUME NEW S, NEW n \in Nat, NEW s, s = [i \in 1 .. n |-> s[i]], \A i \in 1 .. n : s[i] \in S
  PROVE  s \in Seq(S) /\ Len(s) = n
OBVIOUS

LEMMA MirrorsFacts ==
  ASSUME NEW table, NEW list, Mirrors(table, list)
  PROVE  /\ list \in Seq(Listed) /\ DOMAIN list = 1 .. Len(list) /\ Len(list) \in Nat
         /\ \A i \in DOMAIN list :
              /\ list[i] \in Listed /\ list[i].id \in Findings
              /\ list[i].id \in DOMAIN table /\ list[i].review = Owner[list[i].id]
              /\ table[list[i].id] = [state |-> list[i].state, group |-> list[i].group]
         /\ \A f \in DOMAIN table : \E i \in DOMAIN list : list[i].id = f
         /\ \A i, j \in DOMAIN list : list[i].id = list[j].id => i = j
         /\ table \in [DOMAIN table -> Rows]
<1>1. list \in Seq(Listed) /\ DOMAIN list = 1 .. Len(list) /\ Len(list) \in Nat
      /\ \A i \in DOMAIN list : list[i] \in Listed
  BY DEF Mirrors
<1>2. table \in [{list[i].id : i \in DOMAIN list} -> Rows]
  BY DEF Mirrors, Rows
<1>3. \A i \in DOMAIN list : list[i].id \in Findings
  BY <1>1 DEF Listed
<1> QED BY <1>1, <1>2, <1>3 DEF Mirrors

(* A rewrite of the list and of the table that keeps the rows. *)
LEMMA RewriteMirrors ==
  ASSUME NEW table, NEW list, NEW table2, NEW list2, Mirrors(table, list),
         list2 \in Seq(Listed), DOMAIN list2 = DOMAIN list,
         \A i \in DOMAIN list : list2[i].id = list[i].id /\ list2[i].review = list[i].review,
         table2 \in [DOMAIN table -> Rows],
         \A i \in DOMAIN list :
           table2[list[i].id] = [state |-> list2[i].state, group |-> list2[i].group]
  PROVE  Mirrors(table2, list2)
<1>1. {list2[i].id : i \in DOMAIN list2} = {list[i].id : i \in DOMAIN list}
  OBVIOUS
<1>2. DOMAIN table = {list[i].id : i \in DOMAIN list}
  BY DEF Mirrors
<1>3. table2 \in [{list2[i].id : i \in DOMAIN list2} -> [state : States, group : Groups]]
  BY <1>1, <1>2 DEF Rows
<1> QED BY <1>3 DEF Mirrors

LEMMA OnePosition ==
  ASSUME Mirrors(sql.finding, mem.findings), NEW f \in DOMAIN sql.finding
  PROVE  /\ Mem!Has(mem, f) /\ Mem!First(mem, f) \in DOMAIN mem.findings
         /\ Mem!Last(mem, f) = Mem!First(mem, f)
         /\ \A i \in DOMAIN mem.findings : mem.findings[i].id = f <=> i = Mem!First(mem, f)
<1>1. PICK p \in DOMAIN mem.findings : mem.findings[p].id = f
  BY MirrorsFacts
<1>2. \A i \in DOMAIN mem.findings : mem.findings[i].id = f <=> i = p
  BY <1>1, MirrorsFacts
<1>3. DOMAIN mem.findings = 1 .. Len(mem.findings) /\ p \in Nat
  BY MirrorsFacts
<1>4. Mem!Positions(mem, f) = {p}
  BY <1>1, <1>2, <1>3 DEF Mem!Positions
<1>5. Mem!First(mem, f) = p /\ Mem!Last(mem, f) = p
  BY <1>3, <1>4 DEF Mem!First, Mem!Last
<1> QED BY <1>1, <1>2, <1>4, <1>5 DEF Mem!Has

LEMMA NoPosition ==
  ASSUME Mirrors(sql.finding, mem.findings), NEW f, f \notin DOMAIN sql.finding
  PROVE  ~ Mem!Has(mem, f) /\ \A i \in DOMAIN mem.findings : mem.findings[i].id # f
<1>1. \A i \in DOMAIN mem.findings : mem.findings[i].id # f
  <2>1. \A i \in DOMAIN mem.findings : mem.findings[i].id \in DOMAIN sql.finding
    BY MirrorsFacts
  <2> QED BY <2>1
<1>2. DOMAIN mem.findings = 1 .. Len(mem.findings)
  BY MirrorsFacts
<1> QED BY <1>1, <1>2 DEF Mem!Has, Mem!Positions

(* A call that touches one finding: its row, and the entry of its id. *)
WithRow(table, f, row) == [table EXCEPT ![f] = row]
WithEntry(list, p, row) ==
  [list EXCEPT ![p] = [id |-> @.id, review |-> @.review, state |-> row.state, group |-> row.group]]

LEMMA SetOneRow ==
  ASSUME NEW table, NEW list, Mirrors(table, list), NEW p \in DOMAIN list, NEW row \in Rows
  PROVE  Mirrors(WithRow(table, list[p].id, row), WithEntry(list, p, row))
<1> DEFINE table2 == WithRow(table, list[p].id, row)
           list2 == WithEntry(list, p, row)
<1>1. /\ list \in Seq(Listed) /\ DOMAIN list = 1 .. Len(list) /\ Len(list) \in Nat
      /\ \A i \in DOMAIN list : list[i] \in Listed /\ list[i].id \in DOMAIN table
      /\ \A i \in DOMAIN list : table[list[i].id] = [state |-> list[i].state, group |-> list[i].group]
      /\ \A i, j \in DOMAIN list : list[i].id = list[j].id => i = j
  <2>1. list \in Seq(Listed) /\ DOMAIN list = 1 .. Len(list) /\ Len(list) \in Nat
    BY MirrorsFacts
  <2>2. \A i \in DOMAIN list : list[i] \in Listed /\ list[i].id \in DOMAIN table
    BY MirrorsFacts
  <2>3. \A i \in DOMAIN list : table[list[i].id] = [state |-> list[i].state, group |-> list[i].group]
    BY MirrorsFacts
  <2>4. \A i, j \in DOMAIN list : list[i].id = list[j].id => i = j
    BY MirrorsFacts
  <2> QED BY <2>1, <2>2, <2>3, <2>4
<1>0. table2 = [table EXCEPT ![list[p].id] = row]
      /\ list2 = [list EXCEPT ![p] = [id |-> @.id, review |-> @.review, state |-> row.state,
                                      group |-> row.group]]
  BY DEF WithRow, WithEntry
<1>2. list2[p] = [id |-> list[p].id, review |-> list[p].review, state |-> row.state,
                  group |-> row.group]
  BY <1>0, <1>1 DEF Listed
<1>3. DOMAIN list2 = DOMAIN list /\ \A i \in DOMAIN list \ {p} : list2[i] = list[i]
  BY <1>0
<1>4. list2[p] \in Listed
  BY <1>1, <1>2 DEF Listed, Rows
<1>5. list2 \in Seq(Listed)
  <2>1. list2 = [i \in 1 .. Len(list) |-> list2[i]]
    BY <1>0, <1>1
  <2>2. \A i \in 1 .. Len(list) : list2[i] \in Listed
    BY <1>1, <1>3, <1>4
  <2> QED BY <1>1, <2>1, <2>2, SeqOfEntries
<1>6. \A i \in DOMAIN list : list2[i].id = list[i].id /\ list2[i].review = list[i].review
  BY <1>2, <1>3
<1>7. \A i \in DOMAIN list : table2[list[i].id] = [state |-> list2[i].state, group |-> list2[i].group]
  <2> TAKE i \in DOMAIN list
  <2>1. CASE i = p
    <3>1. table2[list[i].id] = row /\ row = [state |-> row.state, group |-> row.group]
      BY <1>0, <1>1, <2>1 DEF Rows
    <3> QED BY <1>2, <2>1, <3>1
  <2>2. CASE i # p
    BY <1>0, <1>1, <1>3, <2>2
  <2> QED BY <2>1, <2>2
<1>8. table2 \in [DOMAIN table -> Rows]
  <2>1. table \in [DOMAIN table -> Rows]
    BY MirrorsFacts
  <2> QED BY <1>0, <2>1
<1> HIDE DEF table2, list2
<1>9. Mirrors(table2, list2)
  BY <1>3, <1>5, <1>6, <1>7, <1>8, RewriteMirrors
<1> QED BY <1>9 DEF table2, list2

LEMMA FindingsStay ==
  ASSUME FindingsMatch, sql'.finding = sql.finding, mem'.findings = mem.findings,
         strayed \subseteq strayed'
  PROVE  FindingsMatch'
<1>1. CASE Strayed({"conflict", "foreign"})
  BY <1>1 DEF FindingsMatch, Strayed
<1>2. CASE Mirrors(sql.finding, mem.findings)
  BY <1>2 DEF FindingsMatch, Mirrors
<1> QED BY <1>1, <1>2 DEF FindingsMatch

LEMMA StateSet ==
  ASSUME Mirrors(sql.finding, mem.findings), NEW f \in DOMAIN sql.finding, NEW state \in States,
         sql'.finding = [sql.finding EXCEPT ![f].state = state],
         mem'.findings = [mem.findings EXCEPT ![Mem!First(mem, f)].state = state]
  PROVE  Mirrors(sql'.finding, mem'.findings)
<1> DEFINE p == Mem!First(mem, f)
           row == [state |-> state, group |-> sql.finding[f].group]
<1>1. p \in DOMAIN mem.findings /\ mem.findings[p].id = f
  BY OnePosition
<1>2. /\ mem.findings[p] \in Listed
      /\ sql.finding[f] = [state |-> mem.findings[p].state, group |-> mem.findings[p].group]
  <2>1. \A i \in DOMAIN mem.findings : mem.findings[i] \in Listed
    BY MirrorsFacts
  <2>2. \A i \in DOMAIN mem.findings : sql.finding[mem.findings[i].id] =
                                         [state |-> mem.findings[i].state, group |-> mem.findings[i].group]
    BY MirrorsFacts
  <2> QED BY <1>1, <2>1, <2>2
<1>3. row \in Rows
  BY <1>2 DEF Rows, Listed
<1>4. sql'.finding = WithRow(sql.finding, mem.findings[p].id, row)
  BY <1>1, <1>2 DEF WithRow
<1>5. mem'.findings = WithEntry(mem.findings, p, row)
  <2>1. [mem.findings[p] EXCEPT !.state = state] =
          [id |-> mem.findings[p].id, review |-> mem.findings[p].review,
           state |-> state, group |-> mem.findings[p].group]
    BY <1>2 DEF Listed
  <2>2. row.state = state /\ row.group = mem.findings[p].group
    BY <1>2
  <2> HIDE DEF row
  <2> QED BY <2>1, <2>2 DEF WithEntry
<1>6. Mirrors(WithRow(sql.finding, mem.findings[p].id, row), WithEntry(mem.findings, p, row))
  BY <1>1, <1>3, SetOneRow
<1> QED BY <1>4, <1>5, <1>6

LEMMA GroupSet ==
  ASSUME Mirrors(sql.finding, mem.findings), NEW f \in DOMAIN sql.finding, NEW group \in Groups,
         sql'.finding = [sql.finding EXCEPT ![f].group = group],
         mem'.findings = [mem.findings EXCEPT ![Mem!First(mem, f)].group = group]
  PROVE  Mirrors(sql'.finding, mem'.findings)
<1> DEFINE p == Mem!First(mem, f)
           row == [state |-> sql.finding[f].state, group |-> group]
<1>1. p \in DOMAIN mem.findings /\ mem.findings[p].id = f
  BY OnePosition
<1>2. /\ mem.findings[p] \in Listed
      /\ sql.finding[f] = [state |-> mem.findings[p].state, group |-> mem.findings[p].group]
  <2>1. \A i \in DOMAIN mem.findings : mem.findings[i] \in Listed
    BY MirrorsFacts
  <2>2. \A i \in DOMAIN mem.findings : sql.finding[mem.findings[i].id] =
                                         [state |-> mem.findings[i].state, group |-> mem.findings[i].group]
    BY MirrorsFacts
  <2> QED BY <1>1, <2>1, <2>2
<1>3. row \in Rows
  BY <1>2 DEF Rows, Listed
<1>4. sql'.finding = WithRow(sql.finding, mem.findings[p].id, row)
  BY <1>1, <1>2 DEF WithRow
<1>5. mem'.findings = WithEntry(mem.findings, p, row)
  <2>1. [mem.findings[p] EXCEPT !.group = group] =
          [id |-> mem.findings[p].id, review |-> mem.findings[p].review,
           state |-> mem.findings[p].state, group |-> group]
    BY <1>2 DEF Listed
  <2>2. row.state = mem.findings[p].state /\ row.group = group
    BY <1>2
  <2> HIDE DEF row
  <2> QED BY <2>1, <2>2 DEF WithEntry
<1>6. Mirrors(WithRow(sql.finding, mem.findings[p].id, row), WithEntry(mem.findings, p, row))
  BY <1>1, <1>3, SetOneRow
<1> QED BY <1>4, <1>5, <1>6

(* What a call writes if it writes to the findings only. *)
LEMMA FindingWrites ==
  ASSUME TablesAreThere, now' = now, strayed \subseteq strayed',
         NEW x, sql' = sql \/ sql' = [sql EXCEPT !.finding = x],
         NEW y, mem' = mem \/ mem' = [mem EXCEPT !.findings = y]
  PROVE  /\ Writes({"finding"}, {"findings"})
         /\ sql' = [sql EXCEPT !.finding = x] => sql'.finding = x
         /\ mem' = [mem EXCEPT !.findings = y] => mem'.findings = y
<1>1. /\ sql' = [t \in SqlTables |-> sql'[t]] /\ \A t \in SqlTables \ {"finding"} : sql'[t] = sql[t]
      /\ sql' = [sql EXCEPT !.finding = x] => sql'.finding = x
  BY DEF TablesAreThere, SqlTables
<1>2. /\ mem' = [t \in MemTables |-> mem'[t]] /\ \A t \in MemTables \ {"findings"} : mem'[t] = mem[t]
      /\ mem' = [mem EXCEPT !.findings = y] => mem'.findings = y
  BY DEF TablesAreThere, MemTables
<1> QED BY <1>1, <1>2 DEF Writes

LEMMA StrayedStays ==
  ASSUME strayed \subseteq strayed', NEW kinds, Strayed(kinds)
  PROVE  Strayed(kinds)'
BY DEF Strayed

(* Whatever entry and row are written to, they stay an entry and a row. *)
LEMMA ListTyped ==
  ASSUME NEW list \in Seq(Listed), NEW p, NEW state \in States, NEW group \in Groups
  PROVE  /\ [list EXCEPT ![p].state = state] \in Seq(Listed)
         /\ [list EXCEPT ![p].group = group] \in Seq(Listed)
<1>1. \A e \in Listed : [e EXCEPT !.state = state] \in Listed /\ [e EXCEPT !.group = group] \in Listed
  BY DEF Listed
<1>2. /\ Len(list) \in Nat /\ DOMAIN list = 1 .. Len(list)
      /\ \A i \in 1 .. Len(list) : list[i] \in Listed
  BY EntriesOfASeq
<1>3. ASSUME NEW x, DOMAIN x = 1 .. Len(list), x = [i \in 1 .. Len(list) |-> x[i]],
             \A i \in 1 .. Len(list) : x[i] \in Listed
      PROVE  x \in Seq(Listed)
  BY <1>2, <1>3, SeqOfEntries
<1> DEFINE x == [list EXCEPT ![p].state = state]
           y == [list EXCEPT ![p].group = group]
<1>4. DOMAIN x = 1 .. Len(list) /\ x = [i \in 1 .. Len(list) |-> x[i]]
      /\ \A i \in 1 .. Len(list) : x[i] \in Listed
  BY <1>1, <1>2
<1>5. DOMAIN y = 1 .. Len(list) /\ y = [i \in 1 .. Len(list) |-> y[i]]
      /\ \A i \in 1 .. Len(list) : y[i] \in Listed
  BY <1>1, <1>2
<1> HIDE DEF x, y
<1>6. x \in Seq(Listed) /\ y \in Seq(Listed)
  BY <1>3, <1>4, <1>5
<1> QED BY <1>6 DEF x, y

LEMMA TableTyped ==
  ASSUME NEW D, NEW table \in [D -> Rows], NEW f, NEW state \in States, NEW group \in Groups
  PROVE  /\ [table EXCEPT ![f].state = state] \in [D -> Rows]
         /\ [table EXCEPT ![f].group = group] \in [D -> Rows]
BY DEF Rows

(* What a call about findings alone leaves true. *)
FindingsHandled ==
  /\ FindingsTyped' /\ FindingsMatch' /\ Writes({"finding"}, {"findings"})
  /\ DOMAIN sql.finding \subseteq DOMAIN sql'.finding

LEMMA MarkMirrors ==
  ASSUME TablesAreThere, FindingsTyped, FindingsMatch, NEW r \in Reviews, NEW f \in Findings, MarkFinding(r, f)
  PROVE  FindingsHandled
<1> DEFINE x == [sql.finding EXCEPT ![f].state = "PUBLISHED"]
           y == [mem.findings EXCEPT ![Mem!First(mem, f)].state = "PUBLISHED"]
           s2 == [sql EXCEPT !.finding = x]
           m2 == [mem EXCEPT !.findings = y]
           here == \E i \in Mem!Own(mem, r) : mem.findings[i].id = f
<1>1. /\ now' = now /\ strayed' = strayed
      /\ sql' = IF f \in Sql!Own(sql, r) THEN s2 ELSE sql
      /\ mem' = IF here THEN m2 ELSE mem
  BY DEF MarkFinding, Both, Alike, Sql!MarkFinding, Mem!MarkFinding, Sql!Set
<1> HIDE DEF x, y
<1>2. /\ Writes({"finding"}, {"findings"})
      /\ sql' = s2 => sql'.finding = x
      /\ mem' = m2 => mem'.findings = y
  BY <1>1, FindingWrites
<1>3. DOMAIN sql'.finding = DOMAIN sql.finding
  BY <1>1, <1>2 DEF x
<1>4. FindingsMatch'
  <2>1. CASE Strayed({"conflict", "foreign"})
    BY <1>1, <2>1 DEF FindingsMatch, Strayed
  <2>2. CASE Mirrors(sql.finding, mem.findings)
    <3>1. here <=> f \in Sql!Own(sql, r)
      <4>1. CASE f \in DOMAIN sql.finding
        <5>1. \A i \in DOMAIN mem.findings : mem.findings[i].review = Owner[mem.findings[i].id]
          BY <2>2 DEF Mirrors
        <5>2. \E i \in DOMAIN mem.findings : mem.findings[i].id = f
          BY <2>2, <4>1, OnePosition
        <5> QED BY <4>1, <5>1, <5>2 DEF Sql!Own, Mem!Own
      <4>2. CASE f \notin DOMAIN sql.finding
        BY <2>2, <4>2, NoPosition DEF Sql!Own, Mem!Own
      <4> QED BY <4>1, <4>2
    <3>2. CASE f \in Sql!Own(sql, r)
      <4>1. f \in DOMAIN sql.finding /\ "PUBLISHED" \in States
        BY <3>2 DEF Sql!Own, States
      <4>2. sql'.finding = x /\ mem'.findings = y
        BY <1>1, <1>2, <3>1, <3>2
      <4> QED BY <2>2, <4>1, <4>2, StateSet DEF FindingsMatch, x, y
    <3>3. CASE f \notin Sql!Own(sql, r)
      BY <1>1, <3>1, <3>3, FindingsStay
    <3> QED BY <3>2, <3>3
  <2> QED BY <2>1, <2>2 DEF FindingsMatch
<1>5. FindingsTyped'
  <2>1. sql'.finding \in {sql.finding, x} /\ mem'.findings \in {mem.findings, y}
    BY <1>1, <1>2
  <2>2. "PUBLISHED" \in States /\ "none" \in Groups
    BY DEF States, Groups
  <2>3. x \in [DOMAIN sql.finding -> Rows] /\ y \in Seq(Listed)
    BY <2>2, ListTyped, TableTyped DEF FindingsTyped, x, y
  <2> QED BY <1>3, <2>1, <2>3 DEF FindingsTyped
<1> QED BY <1>2, <1>3, <1>4, <1>5 DEF FindingsHandled

LEMMA DuplicateMirrors ==
  ASSUME TablesAreThere, FindingsTyped, FindingsMatch, NEW r \in Reviews, NEW f \in Findings,
         UpdateDuplicate(r, f, "g")
  PROVE  FindingsHandled
<1> DEFINE x == [sql.finding EXCEPT ![f].group = "g"]
           y == [mem.findings EXCEPT ![Mem!First(mem, f)].group = "g"]
           s2 == [sql EXCEPT !.finding = x]
           m2 == [mem EXCEPT !.findings = y]
           here == Mem!Has(mem, f) /\ mem.findings[Mem!First(mem, f)].review = r
<1>1. /\ now' = now /\ strayed' = strayed
      /\ sql' = IF f \in Sql!Own(sql, r) THEN s2 ELSE sql
      /\ mem' = IF here THEN m2 ELSE mem
  BY DEF UpdateDuplicate, Both, Alike, Sql!UpdateDuplicate, Mem!UpdateDuplicate
<1> HIDE DEF x, y
<1>2. /\ Writes({"finding"}, {"findings"})
      /\ sql' = s2 => sql'.finding = x
      /\ mem' = m2 => mem'.findings = y
  BY <1>1, FindingWrites
<1>3. DOMAIN sql'.finding = DOMAIN sql.finding
  BY <1>1, <1>2 DEF x
<1>4. FindingsMatch'
  <2>1. CASE Strayed({"conflict", "foreign"})
    BY <1>1, <2>1 DEF FindingsMatch, Strayed
  <2>2. CASE Mirrors(sql.finding, mem.findings)
    <3>1. here <=> f \in Sql!Own(sql, r)
      <4>1. CASE f \in DOMAIN sql.finding
        <5>1. \A i \in DOMAIN mem.findings : mem.findings[i].review = Owner[mem.findings[i].id]
          BY <2>2 DEF Mirrors
        <5>2. /\ Mem!Has(mem, f) /\ Mem!First(mem, f) \in DOMAIN mem.findings
              /\ mem.findings[Mem!First(mem, f)].id = f
          BY <2>2, <4>1, OnePosition
        <5> QED BY <4>1, <5>1, <5>2 DEF Sql!Own
      <4>2. CASE f \notin DOMAIN sql.finding
        BY <2>2, <4>2, NoPosition DEF Sql!Own
      <4> QED BY <4>1, <4>2
    <3>2. CASE f \in Sql!Own(sql, r)
      <4>1. f \in DOMAIN sql.finding /\ "g" \in Groups
        BY <3>2 DEF Sql!Own, Groups
      <4>2. sql'.finding = x /\ mem'.findings = y
        BY <1>1, <1>2, <3>1, <3>2
      <4> QED BY <2>2, <4>1, <4>2, GroupSet DEF FindingsMatch, x, y
    <3>3. CASE f \notin Sql!Own(sql, r)
      BY <1>1, <3>1, <3>3, FindingsStay
    <3> QED BY <3>2, <3>3
  <2> QED BY <2>1, <2>2 DEF FindingsMatch
<1>5. FindingsTyped'
  <2>1. sql'.finding \in {sql.finding, x} /\ mem'.findings \in {mem.findings, y}
    BY <1>1, <1>2
  <2>2. "STALE" \in States /\ "g" \in Groups
    BY DEF States, Groups
  <2>3. x \in [DOMAIN sql.finding -> Rows] /\ y \in Seq(Listed)
    BY <2>2, ListTyped, TableTyped DEF FindingsTyped, x, y
  <2> QED BY <1>3, <2>1, <2>3 DEF FindingsTyped
<1> QED BY <1>2, <1>3, <1>4, <1>5 DEF FindingsHandled

LEMMA CreateMirrors ==
  ASSUME TablesAreThere, FindingsTyped, FindingsMatch, NEW f \in Findings, CreateFinding(f)
  PROVE  FindingsHandled
<1> DEFINE x == [g \in DOMAIN sql.finding \cup {f} |->
                   IF g = f THEN Sql!Candidate ELSE sql.finding[g]]
           y == Append(mem.findings, Mem!Candidate(f))
           s2 == [sql EXCEPT !.finding = x]
           m2 == [mem EXCEPT !.findings = y]
<1>1. /\ now' = now
      /\ sql' = IF f \in DOMAIN sql.finding THEN sql ELSE s2
      /\ mem' = m2
      /\ Noting("conflict", f \in DOMAIN sql.finding)
  BY DEF CreateFinding, Both, Sql!CreateFinding, Sql!Conflicts, Mem!CreateFinding
<1>2. strayed \subseteq strayed' /\ (f \in DOMAIN sql.finding => "conflict" \in strayed')
  BY <1>1, Noted
<1> HIDE DEF x, y
<1>3. /\ Writes({"finding"}, {"findings"})
      /\ sql' = s2 => sql'.finding = x
      /\ mem' = m2 => mem'.findings = y
  BY <1>1, <1>2, FindingWrites
<1>4. DOMAIN sql.finding \subseteq DOMAIN sql'.finding
  BY <1>1, <1>3 DEF x
<1>5. FindingsMatch'
  <2>1. CASE Strayed({"conflict", "foreign"}) \/ f \in DOMAIN sql.finding
    BY <1>2, <2>1 DEF FindingsMatch, Strayed
  <2>2. CASE Mirrors(sql.finding, mem.findings) /\ f \notin DOMAIN sql.finding
    <3>1. sql'.finding = x /\ mem'.findings = y
      BY <1>1, <1>3, <2>2
    <3>2. Mem!Candidate(f) \in Listed /\ Sql!Candidate \in [state : States, group : Groups]
          /\ Mem!Candidate(f).id = f /\ Mem!Candidate(f).review = Owner[f]
          /\ Sql!Candidate = [state |-> Mem!Candidate(f).state, group |-> Mem!Candidate(f).group]
      BY TwinsAssumption DEF Mem!Candidate, Sql!Candidate, Listed, States, Groups
    <3> DEFINE list == mem.findings
               n == Len(list)
               c == Mem!Candidate(f)
    <3>3. list \in Seq(Listed) /\ DOMAIN list = 1 .. n /\ n \in Nat
      BY <2>2, EntriesOfASeq DEF Mirrors
    <3> HIDE DEF c
    <3>4. /\ y \in Seq(Listed) /\ DOMAIN y = 1 .. n + 1 /\ y[n + 1] = c
          /\ \A i \in 1 .. n : y[i] = list[i]
      BY <3>2, <3>3 DEF y, c
    <3>5. /\ \A i \in 1 .. n : list[i].review = Owner[list[i].id] /\ list[i].id \in DOMAIN sql.finding
          /\ \A i \in 1 .. n : sql.finding[list[i].id] = [state |-> list[i].state, group |-> list[i].group]
          /\ \A i, j \in 1 .. n : list[i].id = list[j].id => i = j
          /\ DOMAIN sql.finding = {list[i].id : i \in 1 .. n}
      <4>1. DOMAIN sql.finding = {list[i].id : i \in 1 .. n}
        BY <2>2, <3>3 DEF Mirrors
      <4>2. \A i \in 1 .. n : sql.finding[list[i].id] = [state |-> list[i].state, group |-> list[i].group]
        BY <2>2, <3>3 DEF Mirrors
      <4>3. \A i \in 1 .. n : list[i].review = Owner[list[i].id]
        BY <2>2, <3>3 DEF Mirrors
      <4>4. \A i, j \in 1 .. n : list[i].id = list[j].id => i = j
        BY <2>2, <3>3 DEF Mirrors
      <4> QED BY <4>1, <4>2, <4>3, <4>4
    <3>6. \A i \in DOMAIN y : i \in 1 .. n \/ i = n + 1
      BY <3>3, <3>4
    <3>7. {y[i].id : i \in DOMAIN y} = DOMAIN sql.finding \cup {f}
      <4>1. y[n + 1].id = f /\ n + 1 \in DOMAIN y
        BY <3>2, <3>3, <3>4 DEF c
      <4>2. \A i \in DOMAIN y : y[i].id \in DOMAIN sql.finding \cup {f}
        BY <3>4, <3>5, <3>6, <4>1
      <4>3. \A g \in DOMAIN sql.finding : \E i \in 1 .. n : list[i].id = g
        BY <3>5
      <4>4. \A g \in DOMAIN sql.finding : \E i \in DOMAIN y : y[i].id = g
        BY <3>3, <3>4, <4>3
      <4> QED BY <4>1, <4>2, <4>4
    <3>8. x \in [DOMAIN sql.finding \cup {f} -> [state : States, group : Groups]]
      BY <2>2, <3>2 DEF Mirrors, x
    <3>9. \A i \in DOMAIN y : /\ y[i].review = Owner[y[i].id]
                              /\ x[y[i].id] = [state |-> y[i].state, group |-> y[i].group]
      <4> TAKE i \in DOMAIN y
      <4>1. CASE i \in 1 .. n
        BY <2>2, <3>4, <3>5, <4>1 DEF x
      <4>2. CASE i = n + 1
        BY <3>2, <3>4, <4>2 DEF c, x
      <4> QED BY <3>6, <4>1, <4>2
    <3>10. \A i, j \in DOMAIN y : y[i].id = y[j].id => i = j
      <4>1. \A i \in 1 .. n : y[i].id # y[n + 1].id
        BY <2>2, <3>2, <3>4, <3>5 DEF c
      <4> QED BY <3>4, <3>5, <3>6, <4>1
    <3>11. Mirrors(x, y)
      BY <3>4, <3>7, <3>8, <3>9, <3>10 DEF Mirrors
    <3> QED BY <3>1, <3>11 DEF FindingsMatch
  <2> QED BY <2>1, <2>2 DEF FindingsMatch
<1>6. FindingsTyped'
  <2>1. sql'.finding \in {sql.finding, x} /\ mem'.findings = y
    BY <1>1, <1>3
  <2>2. Mem!Candidate(f) \in Listed /\ Sql!Candidate \in Rows
    BY TwinsAssumption DEF Mem!Candidate, Sql!Candidate, Listed, Rows, States, Groups
  <2>3. y \in Seq(Listed)
    BY <2>2 DEF FindingsTyped, y
  <2>4. DOMAIN x \subseteq Findings /\ x \in [DOMAIN x -> Rows]
    BY <2>2 DEF FindingsTyped, x
  <2> QED BY <2>1, <2>3, <2>4 DEF FindingsTyped
<1> QED BY <1>3, <1>4, <1>5, <1>6 DEF FindingsHandled

LEMMA NewState ==
  ASSUME NEW e \in Listed, NEW row, row = [state |-> e.state, group |-> e.group], NEW s \in States
  PROVE  LET e2   == [e EXCEPT !.state = s]
             row2 == [row EXCEPT !.state = s]
         IN  /\ e2 \in Listed /\ e2.id = e.id /\ e2.review = e.review
             /\ row2 = [state |-> e2.state, group |-> e2.group]
BY DEF Listed

LEMMA VerdictMirrors ==
  ASSUME TablesAreThere, FindingsTyped, FindingsMatch, NEW r \in Reviews, NEW f \in Findings,
         NEW chosen \in BOOLEAN, NEW group \in Groups, ApplyDecision(r, f, chosen, group)
  PROVE  FindingsHandled
<1> DEFINE state == IF chosen THEN "SCHEDULED" ELSE "SUPPRESSED"
           x == [g \in DOMAIN sql.finding |->
                   CASE g = f -> [sql.finding[g] EXCEPT !.state = state]
                     [] g # f /\ group # "none" /\ sql.finding[g].group = group ->
                          [sql.finding[g] EXCEPT !.state = "SUPPRESSED"]
                     [] OTHER -> sql.finding[g]]
           list == mem.findings
           at == Mem!First(mem, f)
           y == [i \in DOMAIN list |->
                   CASE i = at -> [list[i] EXCEPT !.state = state]
                     [] list[i].id # f /\ group # "none" /\ list[i].group = group ->
                          [list[i] EXCEPT !.state = "SUPPRESSED"]
                     [] OTHER -> list[i]]
           s2 == [sql EXCEPT !.finding = x]
           m2 == [mem EXCEPT !.findings = y]
<1>1. /\ now' = now
      /\ sql' = IF f \notin Sql!Own(sql, r) THEN sql ELSE s2
      /\ mem' = IF ~ Mem!Has(mem, f) THEN mem ELSE m2
      /\ Noting("foreign", Owner[f] # r)
  BY DEF ApplyDecision, Both, Sql!ApplyDecision, Mem!ApplyDecision
<1>2. strayed \subseteq strayed' /\ (Owner[f] # r => "foreign" \in strayed')
  BY <1>1, Noted
<1>0. state \in States
  BY DEF States
<1> HIDE DEF x, y, state
<1>3. /\ Writes({"finding"}, {"findings"})
      /\ sql' = s2 => sql'.finding = x
      /\ mem' = m2 => mem'.findings = y
  BY <1>1, <1>2, FindingWrites
<1>4. DOMAIN sql'.finding = DOMAIN sql.finding
  BY <1>1, <1>3 DEF x
<1>5. FindingsMatch'
  <2>1. CASE Strayed({"conflict", "foreign"}) \/ Owner[f] # r
    BY <1>2, <2>1 DEF FindingsMatch, Strayed
  <2>2. CASE Mirrors(sql.finding, mem.findings) /\ Owner[f] = r /\ f \notin DOMAIN sql.finding
    BY <1>1, <1>2, <2>2, NoPosition, FindingsStay DEF Sql!Own
  <2>3. CASE Mirrors(sql.finding, mem.findings) /\ Owner[f] = r /\ f \in DOMAIN sql.finding
    <3>1. sql'.finding = x /\ mem'.findings = y
      BY <1>1, <1>3, <2>3, OnePosition DEF Sql!Own
    <3>2. \A i \in DOMAIN list : list[i].id = f <=> i = at
      BY <2>3, OnePosition
    <3>3. \A i \in DOMAIN list : list[i] \in Listed
      BY <2>3, MirrorsFacts
    <3>4. \A i \in DOMAIN list : sql.finding[list[i].id] = [state |-> list[i].state, group |-> list[i].group]
      BY <2>3, MirrorsFacts
    <3>5. \A i \in DOMAIN list : list[i].id \in DOMAIN sql.finding
      BY <2>3, MirrorsFacts
    <3>6. list \in Seq(Listed) /\ DOMAIN list = 1 .. Len(list) /\ Len(list) \in Nat
      BY <2>3, EntriesOfASeq DEF Mirrors
    <3> HIDE DEF at, list
    <3>7. \A i \in DOMAIN list : /\ y[i] \in Listed /\ y[i].id = list[i].id /\ y[i].review = list[i].review
                                 /\ x[list[i].id] = [state |-> y[i].state, group |-> y[i].group]
      <4> SUFFICES ASSUME NEW i \in DOMAIN list
                   PROVE  /\ y[i] \in Listed /\ y[i].id = list[i].id /\ y[i].review = list[i].review
                          /\ x[list[i].id] = [state |-> y[i].state, group |-> y[i].group]
        OBVIOUS
      <4> DEFINE row == sql.finding[list[i].id]
      <4>0. /\ list[i] \in Listed /\ list[i].id \in DOMAIN sql.finding
            /\ row = [state |-> list[i].state, group |-> list[i].group]
            /\ list[i].id = f <=> i = at
            /\ row.group = list[i].group
        BY <3>2, <3>3, <3>4, <3>5
      <4>1. CASE i = at
        <5>1. y[i] = [list[i] EXCEPT !.state = state] /\ x[list[i].id] = [row EXCEPT !.state = state]
          BY <4>0, <4>1 DEF x, y
        <5> QED BY <1>0, <4>0, <5>1, NewState
      <4>2. CASE i # at /\ group # "none" /\ list[i].group = group
        <5>1. y[i] = [list[i] EXCEPT !.state = "SUPPRESSED"]
          BY <4>0, <4>2 DEF y
        <5>2. x[list[i].id] = [row EXCEPT !.state = "SUPPRESSED"]
          BY <4>0, <4>2 DEF x
        <5>3. "SUPPRESSED" \in States
          BY DEF States
        <5> QED BY <4>0, <5>1, <5>2, <5>3, NewState
      <4>3. CASE i # at /\ ~ (group # "none" /\ list[i].group = group)
        <5>1. y[i] = list[i]
          BY <4>0, <4>3 DEF y
        <5>2. x[list[i].id] = row
          BY <4>0, <4>3 DEF x
        <5> QED BY <4>0, <5>1, <5>2
      <4> QED BY <4>1, <4>2, <4>3
    <3>8. y \in Seq(Listed) /\ DOMAIN y = DOMAIN list
      <4>1. y = [i \in 1 .. Len(list) |-> y[i]] /\ DOMAIN y = DOMAIN list
        BY <3>6 DEF y
      <4>2. \A i \in 1 .. Len(list) : y[i] \in Listed
        BY <3>6, <3>7
      <4> QED BY <3>6, <4>1, <4>2, SeqOfEntries
    <3>9. x \in [DOMAIN sql.finding -> Rows]
      <4>1. \A g \in DOMAIN sql.finding : \E i \in DOMAIN list : list[i].id = g
        BY <2>3, MirrorsFacts DEF list
      <4>2. \A i \in DOMAIN list : x[list[i].id] \in Rows
        <5> TAKE i \in DOMAIN list
        <5>1. y[i].state \in States /\ y[i].group \in Groups
          BY <3>7 DEF Listed
        <5>2. x[list[i].id] = [state |-> y[i].state, group |-> y[i].group]
          BY <3>7
        <5> QED BY <5>1, <5>2 DEF Rows
      <4>3. \A g \in DOMAIN sql.finding : x[g] \in Rows
        BY <4>1, <4>2
      <4>4. x = [g \in DOMAIN sql.finding |-> x[g]]
        BY DEF x
      <4> QED BY <4>3, <4>4
    <3>10. Mirrors(sql.finding, list)
      BY <2>3 DEF list
    <3>11. Mirrors(x, y)
      <4>1. \A i \in DOMAIN list : y[i].id = list[i].id /\ y[i].review = list[i].review
        BY <3>7
      <4>2. \A i \in DOMAIN list : x[list[i].id] = [state |-> y[i].state, group |-> y[i].group]
        BY <3>7
      <4> QED BY <3>8, <3>9, <3>10, <4>1, <4>2, RewriteMirrors
    <3> QED BY <3>1, <3>11 DEF FindingsMatch
  <2> QED BY <2>1, <2>2, <2>3 DEF FindingsMatch
<1>6. FindingsTyped'
  <2>1. sql'.finding \in {sql.finding, x} /\ mem'.findings \in {list, y}
    BY <1>1, <1>3
  <2>2. /\ \A e \in Rows, s \in States : [e EXCEPT !.state = s] \in Rows
        /\ \A e \in Listed, s \in States : [e EXCEPT !.state = s] \in Listed
        /\ "SUPPRESSED" \in States
    BY DEF Rows, Listed, States
  <2>3. x \in [DOMAIN sql.finding -> Rows]
    <3>1. \A g \in DOMAIN sql.finding : sql.finding[g] \in Rows
      BY DEF FindingsTyped
    <3> QED BY <1>0, <2>2, <3>1 DEF x
  <2>4. list \in Seq(Listed) /\ y \in Seq(Listed)
    <3>1. /\ list \in Seq(Listed) /\ Len(list) \in Nat /\ DOMAIN list = 1 .. Len(list)
          /\ \A i \in 1 .. Len(list) : list[i] \in Listed
      BY EntriesOfASeq DEF FindingsTyped
    <3> HIDE DEF list, at
    <3>2. y = [i \in 1 .. Len(list) |-> y[i]]
      BY <3>1 DEF y
    <3>3. \A i \in 1 .. Len(list) : y[i] \in Listed
      BY <1>0, <2>2, <3>1 DEF y
    <3> QED BY <3>1, <3>2, <3>3, SeqOfEntries
  <2> QED BY <1>4, <2>1, <2>3, <2>4 DEF FindingsTyped
<1> QED BY <1>3, <1>4, <1>5, <1>6 DEF FindingsHandled

(* The delta of a round settles a finding and notes it on the review. *)
LEMMA DeltaKeeps ==
  ASSUME TablesAreThere, ClaimsMatch, FindingsTyped, FindingsMatch,
         NEW r \in Reviews, NEW f \in Findings,
         NEW action \in {"STALE", "RESOLVED"}, ApplyDelta(r, f, action)
  PROVE  /\ ClaimsMatch' /\ FindingsTyped' /\ FindingsMatch'
         /\ Writes({"updated", "finding"}, {"reviews", "findings"})
         /\ DOMAIN sql'.finding = DOMAIN sql.finding
<1> DEFINE own == f \in Sql!Own(sql, r)
           has == Mem!Has(mem, f)
           p == Mem!Last(mem, f)
           x == [sql.finding EXCEPT ![f].state = action]
           y == [mem.findings EXCEPT ![p].state = action]
           fetched == Mem!Fetch(mem, r)
           z == [q \in DOMAIN mem.reviews \cup {r} |-> IF q = r THEN fetched ELSE mem.reviews[q]]
           u == [sql.updated EXCEPT ![r] = now]
<1>1. /\ now' = now
      /\ strayed' = strayed \cup {kind \in {"foreign", "touched"} :
                       (kind = "foreign" /\ Owner[f] # r) \/ (kind = "touched" /\ Prolonging(r))}
      /\ sql' = IF own THEN Sql!Set(Sql!AppendNote(sql, r, now), f, action)
                ELSE Sql!AppendNote(sql, r, now)
      /\ mem' = Mem!AppendNote(IF has THEN [mem EXCEPT !.findings[p].state = action] ELSE mem, r)
      /\ sql = [t \in SqlTables |-> sql[t]] /\ mem = [t \in MemTables |-> mem[t]]
  BY DEF ApplyDelta, Both, Sql!ApplyDelta, Mem!ApplyDelta, TablesAreThere
<1>2. /\ strayed \subseteq strayed' /\ (Prolonging(r) => "touched" \in strayed')
      /\ Owner[f] # r => "foreign" \in strayed'
  BY <1>1
<1>3. /\ sql' = [t \in SqlTables |-> sql'[t]]
      /\ sql'.updated = u /\ sql'.finding = IF own THEN x ELSE sql.finding
      /\ \A t \in SqlTables \ {"updated", "finding"} : sql'[t] = sql[t]
  <2>1. CASE own
    <3>1. sql' = [sql EXCEPT !.updated[r] = now, !.finding[f].state = action]
      BY <1>1, <2>1 DEF Sql!Set, Sql!AppendNote, SqlTables
    <3> QED BY <1>1, <2>1, <3>1 DEF SqlTables
  <2>2. CASE ~ own
    BY <1>1, <2>2 DEF Sql!AppendNote, SqlTables
  <2> QED BY <2>1, <2>2
<1>4. /\ mem' = [t \in MemTables |-> mem'[t]]
      /\ mem'.reviews = z /\ mem'.findings = IF has THEN y ELSE mem.findings
      /\ \A t \in MemTables \ {"reviews", "findings"} : mem'[t] = mem[t]
  <2> DEFINE m2 == IF has THEN [mem EXCEPT !.findings[p].state = action] ELSE mem
  <2>1. /\ m2 = [t \in MemTables |-> m2[t]] /\ m2.reviews = mem.reviews
        /\ m2.findings = IF has THEN y ELSE mem.findings
        /\ \A t \in MemTables \ {"findings"} : m2[t] = mem[t]
    BY <1>1 DEF MemTables
  <2>2. Mem!Fetch(m2, r) = fetched
    BY <2>1 DEF Mem!Fetch, Mem!Known
  <2>3. mem' = Mem!Put(m2, r, fetched)
    BY <1>1, <2>2 DEF Mem!AppendNote
  <2> HIDE DEF m2, fetched, y
  <2> QED BY <2>1, <2>3 DEF Mem!Put, MemTables
<1> HIDE DEF x, y, z, u, own, has, p
<1>5. Writes({"updated", "finding"}, {"reviews", "findings"})
  BY <1>1, <1>2, <1>3, <1>4 DEF Writes
<1>6. DOMAIN sql'.finding = DOMAIN sql.finding
  BY <1>3 DEF x
<1>7. ClaimsMatch'
  <2>1. sql'.status = sql.status
    BY <1>3 DEF SqlTables
  <2> QED BY <1>2, <1>3, <1>4, <2>1, NoteKeepsClaims DEF u, z
<1>8. FindingsMatch'
  <2>1. CASE Strayed({"conflict", "foreign"}) \/ Owner[f] # r
    BY <1>2, <2>1 DEF FindingsMatch, Strayed
  <2>2. CASE Mirrors(sql.finding, mem.findings) /\ Owner[f] = r /\ f \notin DOMAIN sql.finding
    <3>1. ~ own /\ ~ has
      BY <2>2, NoPosition DEF own, has, Sql!Own
    <3> QED BY <1>2, <1>3, <1>4, <3>1, FindingsStay
  <2>3. CASE Mirrors(sql.finding, mem.findings) /\ Owner[f] = r /\ f \in DOMAIN sql.finding
    <3>1. own /\ has /\ p = Mem!First(mem, f) /\ action \in States
      BY <2>3, OnePosition DEF own, has, p, Sql!Own, States
    <3>2. sql'.finding = x /\ mem'.findings = y
      BY <1>3, <1>4, <3>1
    <3>3. Mirrors(sql'.finding, mem'.findings)
      BY <2>3, <3>1, <3>2, StateSet DEF x, y
    <3> QED BY <3>3 DEF FindingsMatch
  <2> QED BY <2>1, <2>2, <2>3 DEF FindingsMatch
<1>9. FindingsTyped'
  <2>1. action \in States /\ "none" \in Groups
    BY DEF States, Groups
  <2>2. x \in [DOMAIN sql.finding -> Rows] /\ y \in Seq(Listed)
    BY <2>1, ListTyped, TableTyped DEF FindingsTyped, x, y
  <2>3. sql'.finding \in {sql.finding, x} /\ mem'.findings \in {mem.findings, y}
    BY <1>3, <1>4
  <2> QED BY <1>6, <2>2, <2>3 DEF FindingsTyped
<1> QED BY <1>5, <1>6, <1>7, <1>8, <1>9

-----------------------------------------------------------------------------
(* What is shown of the findings. *)
LEMMA AsManyImages ==
  ASSUME NEW S, NEW T, IsFiniteSet(S), NEW f \in [S -> T],
         \A i, j \in S : f[i] = f[j] => i = j, \A t \in T : \E i \in S : f[i] = t
  PROVE  Cardinality(T) = Cardinality(S)
<1>1. f \in Bijection(S, T)
  BY DEF Bijection, Injection, Surjection, IsInjective
<1> QED BY <1>1, FS_Bijection DEF ExistsBijection

LEMMA RowOfEntry ==
  ASSUME NEW table, NEW list, Mirrors(table, list), NEW i \in DOMAIN list
  PROVE  /\ list[i].id \in DOMAIN table /\ list[i].review = Owner[list[i].id]
         /\ table[list[i].id].state = list[i].state /\ table[list[i].id].group = list[i].group
<1>1. table[list[i].id] = [state |-> list[i].state, group |-> list[i].group]
  BY DEF Mirrors
<1>2. list[i].id \in DOMAIN table /\ list[i].review = Owner[list[i].id]
  BY DEF Mirrors
<1> QED BY <1>1, <1>2

LEMMA SameOwn ==
  ASSUME Mirrors(sql.finding, mem.findings), NEW r \in Reviews
  PROVE  /\ \A i \in Mem!Own(mem, r) :
              /\ mem.findings[i].id \in Sql!Own(sql, r)
              /\ sql.finding[mem.findings[i].id].state = mem.findings[i].state
              /\ sql.finding[mem.findings[i].id].group = mem.findings[i].group
         /\ \A f \in Sql!Own(sql, r) : \E i \in Mem!Own(mem, r) :
              mem.findings[i].id = f /\ sql.finding[f].state = mem.findings[i].state
<1> DEFINE list == mem.findings
<1>1. ASSUME NEW i \in DOMAIN list
      PROVE  /\ list[i].review = Owner[list[i].id] /\ list[i].id \in DOMAIN sql.finding
             /\ sql.finding[list[i].id].state = list[i].state
             /\ sql.finding[list[i].id].group = list[i].group
  BY RowOfEntry
<1>3. \A f \in DOMAIN sql.finding : \E i \in DOMAIN list : list[i].id = f
  BY DEF Mirrors
<1> QED BY <1>1, <1>3 DEF Sql!Own, Mem!Own

LEMMA SameTotals ==
  ASSUME Mirrors(sql.finding, mem.findings)
  PROVE  /\ Sql!FindingsTotal(sql) = Mem!FindingsTotal(mem)
         /\ Sql!Redundant(sql) = Mem!Redundant(mem)
<1> DEFINE list == mem.findings
           n == Len(list)
           Grouped == {i \in 1 .. n : list[i].group # "none"}
           Rows2 == {f \in DOMAIN sql.finding : sql.finding[f].group # "none"}
<1>1. DOMAIN list = 1 .. n /\ n \in Nat
  BY EntriesOfASeq DEF Mirrors
<1>2. /\ \A i, j \in 1 .. n : list[i].id = list[j].id => i = j
      /\ \A i \in 1 .. n : list[i].id \in DOMAIN sql.finding
      /\ \A f \in DOMAIN sql.finding : \E i \in 1 .. n : list[i].id = f
  <2>1. \A i, j \in 1 .. n : list[i].id = list[j].id => i = j
    BY <1>1 DEF Mirrors
  <2>2. DOMAIN sql.finding = {list[i].id : i \in 1 .. n}
    BY <1>1 DEF Mirrors
  <2> QED BY <2>1, <2>2
<1>3. \A i \in 1 .. n : sql.finding[list[i].id].group = list[i].group
  BY <1>1, RowOfEntry
<1>4. IsFiniteSet(1 .. n) /\ Cardinality(1 .. n) = n
  <2>1. 1 \in Int /\ n \in Int
    BY <1>1
  <2>2. /\ IsFiniteSet(1 .. n)
        /\ Cardinality(1 .. n) = IF 1 > n THEN 0 ELSE n - 1 + 1
    BY <2>1, FS_Interval, Zenon
  <2> QED BY <1>1, <2>2
<1> HIDE DEF n
<1>5. Cardinality(DOMAIN sql.finding) = n
  <2> DEFINE ids == [i \in 1 .. n |-> list[i].id]
  <2>1. /\ ids \in [1 .. n -> DOMAIN sql.finding]
        /\ \A i, j \in 1 .. n : ids[i] = ids[j] => i = j
        /\ \A f \in DOMAIN sql.finding : \E i \in 1 .. n : ids[i] = f
    BY <1>2
  <2> HIDE DEF ids
  <2> QED BY <1>4, <2>1, AsManyImages
<1>6. Cardinality(Rows2) = Cardinality(Grouped)
  <2> DEFINE ids == [i \in Grouped |-> list[i].id]
  <2>1. /\ ids \in [Grouped -> Rows2]
        /\ \A i, j \in Grouped : ids[i] = ids[j] => i = j
        /\ \A f \in Rows2 : \E i \in Grouped : ids[i] = f
    BY <1>2, <1>3
  <2>2. IsFiniteSet(Grouped)
    BY <1>4, FS_Subset
  <2> HIDE DEF ids, Grouped, Rows2
  <2> QED BY <2>1, <2>2, AsManyImages
<1>7. /\ Sql!Redundant(sql) = Cardinality(Rows2) /\ Mem!Redundant(mem) = Cardinality(Grouped)
      /\ Sql!FindingsTotal(sql) = Cardinality(DOMAIN sql.finding) /\ Mem!FindingsTotal(mem) = n
  <2>1. Sql!Redundant(sql) = Cardinality(Rows2)
    BY Zenon DEF Sql!Redundant, Sql!Cardinality, Cardinality
  <2>2. Mem!Redundant(mem) = Cardinality(Grouped)
    BY <1>1, Zenon DEF Mem!Redundant, Mem!Cardinality, Cardinality, n
  <2>3. Sql!FindingsTotal(sql) = Cardinality(DOMAIN sql.finding)
    BY Zenon DEF Sql!FindingsTotal, Sql!Cardinality, Cardinality
  <2>4. Mem!FindingsTotal(mem) = n
    BY DEF Mem!FindingsTotal, n
  <2> QED BY <2>1, <2>2, <2>3, <2>4
<1> HIDE DEF Rows2, Grouped
<1> QED BY <1>5, <1>6, <1>7

LEMMA FindingsImply ==
  ASSUME FindingsMatch, VectorsMatch
  PROVE  FindingsAgree
<1> SUFFICES ASSUME ~ Strayed({"conflict", "foreign"})
             PROVE  /\ \A r \in Reviews : Sql!FindingsOf(sql, r) = Mem!FindingsOf(mem, r)
                    /\ \A r \in Reviews : Mem!Known(mem, r) => Sql!Payload(sql, r) = Mem!Payload(mem, r)
                    /\ Sql!FindingsTotal(sql) = Mem!FindingsTotal(mem)
                    /\ Sql!Redundant(sql) = Mem!Redundant(mem)
                    /\ Strayed({"same text"}) \/ Sql!Resolved(sql) = Mem!Resolved(mem)
  BY DEF FindingsAgree
<1>1. Mirrors(sql.finding, mem.findings)
  BY DEF FindingsMatch
<1>2. ASSUME NEW r \in Reviews
      PROVE  /\ Sql!FindingsOf(sql, r) = Mem!FindingsOf(mem, r)
             /\ Mem!Known(mem, r) => Sql!Payload(sql, r) = Mem!Payload(mem, r)
  <2>1. /\ \A i \in Mem!Own(mem, r) :
              /\ mem.findings[i].id \in Sql!Own(sql, r)
              /\ sql.finding[mem.findings[i].id].state = mem.findings[i].state
        /\ \A f \in Sql!Own(sql, r) : \E i \in Mem!Own(mem, r) :
              mem.findings[i].id = f /\ sql.finding[f].state = mem.findings[i].state
    BY <1>1, SameOwn
  <2>2. Sql!FindingsOf(sql, r) \subseteq Mem!FindingsOf(mem, r)
    BY <2>1 DEF Sql!FindingsOf, Mem!FindingsOf
  <2>3. Mem!FindingsOf(mem, r) \subseteq Sql!FindingsOf(sql, r)
    BY <2>1 DEF Sql!FindingsOf, Mem!FindingsOf
  <2>4. Mem!Known(mem, r) => Sql!Payload(sql, r) = Mem!Payload(mem, r)
    BY <2>1 DEF Sql!Payload, Mem!Payload
  <2> QED BY <2>2, <2>3, <2>4
<1>3. ASSUME ~ Strayed({"same text"})
      PROVE  Sql!Resolved(sql) = Mem!Resolved(mem)
  <2>1. /\ sql.vectors = {mem.vectors[i] : i \in DOMAIN mem.vectors}
        /\ \A v \in sql.vectors : v.kind = "finding" => v.of \in DOMAIN sql.finding
    BY <1>3 DEF VectorsMatch, Range
  <2>2. ASSUME NEW f \in DOMAIN sql.finding
        PROVE  Mem!Has(mem, f) /\ mem.findings[Mem!First(mem, f)].state = sql.finding[f].state
    <3>1. /\ Mem!Has(mem, f) /\ Mem!First(mem, f) \in DOMAIN mem.findings
          /\ mem.findings[Mem!First(mem, f)].id = f
      BY <1>1, OnePosition
    <3> DEFINE p == Mem!First(mem, f)
    <3>2. sql.finding[mem.findings[p].id].state = mem.findings[p].state
      BY <1>1, <3>1, RowOfEntry
    <3> QED BY <3>1, <3>2
  <2>3. \A v \in sql.vectors : v.kind = "finding" =>
          (sql.finding[v.of].state = "RESOLVED" <=>
             Mem!Has(mem, v.of) /\ mem.findings[Mem!First(mem, v.of)].state = "RESOLVED")
    BY <2>1, <2>2
  <2>4. {x \in sql.vectors : x.kind = "finding" /\ sql.finding[x.of].state = "RESOLVED"} =
        {x \in Mem!Vectors(mem, "finding") :
           Mem!Has(mem, x.of) /\ mem.findings[Mem!First(mem, x.of)].state = "RESOLVED"}
    BY <2>1, <2>3 DEF Mem!Vectors
  <2> QED BY <2>4 DEF Sql!Resolved, Mem!Resolved
<1> QED BY <1>1, <1>2, <1>3, SameTotals

-----------------------------------------------------------------------------
(* The other tables. *)
LEMMA SeqOfItself ==
  ASSUME NEW s, s \in Seq(Range(s)), NEW e
  PROVE  /\ Append(s, e) \in Seq(Range(Append(s, e)))
         /\ Range(Append(s, e)) = Range(s) \cup {e}
<1> DEFINE t == Append(s, e)
           n == Len(s)
<1>1. n \in Nat /\ DOMAIN s = 1 .. n /\ DOMAIN t = 1 .. n + 1 /\ t[n + 1] = e /\ Len(t) = n + 1
      /\ \A i \in 1 .. n : t[i] = s[i]
  OBVIOUS
<1>2. t \in Seq(Range(s) \cup {e})
  <2>1. s = [i \in 1 .. n |-> s[i]] /\ \A i \in 1 .. n : s[i] \in Range(s) \cup {e}
    BY DEF Range
  <2>2. s \in Seq(Range(s) \cup {e})
    BY <1>1, <2>1, SeqOfEntries
  <2> QED BY <2>2
<1> HIDE DEF t, n
<1>3. \A i \in 1 .. n + 1 : i \in 1 .. n \/ i = n + 1
  BY <1>1
<1>4. Range(t) = Range(s) \cup {e}
  <2>1. Range(t) \subseteq Range(s) \cup {e}
    BY <1>1, <1>3 DEF Range
  <2>2. Range(s) \subseteq Range(t)
    BY <1>1 DEF Range
  <2>3. e \in Range(t)
    BY <1>1 DEF Range
  <2> QED BY <2>1, <2>2, <2>3
<1>5. t \in Seq(Range(t))
  BY <1>2, <1>4
<1> QED BY <1>4, <1>5 DEF t

LEMMA RoundsOf ==
  ASSUME NEW q
  PROVE  Mem!Rounds(mem, q) = {p[2] : p \in {x \in Range(mem.iterations) : x[1] = q}}
BY DEF Mem!Rounds, Range

(* What follows the numbers from 1 to n. *)
LEMMA Numbering ==
  ASSUME NEW n \in Nat, NEW set, set = 1 .. n
  PROVE  1 + (CHOOSE m \in set \cup {0} : \A j \in set : j <= m) = n + 1
<1> DEFINE m == CHOOSE i \in set \cup {0} : \A j \in set : j <= i
<1>1. n \in set \cup {0} /\ \A j \in set : j <= n
  OBVIOUS
<1>2. m \in set \cup {0} /\ \A j \in set : j <= m
  BY <1>1, Zenon
<1> HIDE DEF m
<1>3. m = n
  BY <1>1, <1>2
<1>4. 1 + m = n + 1
  BY <1>3
<1> QED BY <1>4, Zenon DEF m

LEMMA RoundHandled ==
  ASSUME TablesAreThere, RoundsMatch, NEW r \in Reviews, RecordIteration(r)
  PROVE  RoundsMatch' /\ Writes({"rounds"}, {"iterations"})
<1> DEFINE k == 1 + (CHOOSE n \in sql.rounds[r] \cup {0} : \A j \in sql.rounds[r] : j <= n)
           x == [sql.rounds EXCEPT ![r] = @ \cup {k}]
           y == Append(mem.iterations, <<r, k>>)
<1>1. Mem!NextRound(mem, r) = k
  <2>1. Mem!Rounds(mem, r) = sql.rounds[r]
    BY DEF RoundsMatch
  <2> QED BY <2>1, Zenon DEF Mem!NextRound
<1>2. Sql!NextRound(sql, r) = k
  BY Zenon DEF Sql!NextRound, Sql!Last
<1> HIDE DEF k
<1>3. /\ sql' = [sql EXCEPT !.rounds = x] /\ mem' = [mem EXCEPT !.iterations = y]
      /\ UNCHANGED <<now, strayed>>
      /\ sql = [t \in SqlTables |-> sql[t]] /\ mem = [t \in MemTables |-> mem[t]]
  <2>1. /\ sql' = [sql EXCEPT !.rounds[r] = @ \cup {k}]
        /\ mem' = [mem EXCEPT !.iterations = Append(@, <<r, k>>)]
        /\ UNCHANGED <<now, strayed>>
    BY <1>1, <1>2 DEF RecordIteration, Both, Alike, Sql!RecordIteration, Mem!RecordIteration
  <2> QED BY <2>1 DEF TablesAreThere
<1> HIDE DEF x, y
<1>4. /\ sql' = [t \in SqlTables |-> sql'[t]] /\ \A t \in SqlTables \ {"rounds"} : sql'[t] = sql[t]
      /\ sql'.rounds = x
  BY <1>3 DEF SqlTables
<1>5. /\ mem' = [t \in MemTables |-> mem'[t]] /\ \A t \in MemTables \ {"iterations"} : mem'[t] = mem[t]
      /\ mem'.iterations = y
  BY <1>3 DEF MemTables
<1>6. /\ DOMAIN x = Reviews /\ x = [q \in DOMAIN x |-> x[q]]
      /\ x[r] = sql.rounds[r] \cup {k} /\ \A q \in Reviews \ {r} : x[q] = sql.rounds[q]
  BY DEF RoundsMatch, x
<1>7. y \in Seq(Range(y)) /\ Range(y) = Range(mem.iterations) \cup {<<r, k>>}
  BY SeqOfItself DEF RoundsMatch, y
<1>8. ASSUME NEW q \in Reviews
      PROVE  Mem!Rounds(mem', q) = x[q]
  <2>1. Mem!Rounds(mem', q) = {p[2] : p \in {z \in Range(y) : z[1] = q}}
    BY <1>5 DEF Mem!Rounds, Range
  <2>2. Mem!Rounds(mem, q) = sql.rounds[q]
    BY DEF RoundsMatch
  <2> DEFINE Old == {z \in Range(mem.iterations) : z[1] = q}
             New == {z \in Range(y) : z[1] = q}
  <2>3. {p[2] : p \in Old} = sql.rounds[q]
    BY <2>2, RoundsOf
  <2>4. CASE q = r
    <3>1. New = Old \cup {<<r, k>>}
      BY <1>7, <2>4
    <3>2. {p[2] : p \in New} = {p[2] : p \in Old} \cup {k}
      <4> HIDE DEF Old, New
      <4>1. \A p \in New : p \in Old \/ p[2] = k
        BY <3>1
      <4>2. <<r, k>> \in New /\ <<r, k>>[2] = k /\ Old \subseteq New
        BY <3>1
      <4> QED BY <4>1, <4>2
    <3> QED BY <1>6, <2>1, <2>3, <2>4, <3>2
  <2>5. CASE q # r
    <3>1. New = Old
      BY <1>7, <2>5
    <3> QED BY <1>6, <2>1, <2>3, <2>5, <3>1
  <2> QED BY <2>4, <2>5
<1>9. Writes({"rounds"}, {"iterations"})
  BY <1>3, <1>4, <1>5 DEF Writes
<1>10. ASSUME NEW q \in Reviews
       PROVE  Numbered(q)'
  <2>1. CASE q = r
    <3>1. PICK n \in 0 .. MaxRounds : sql.rounds[r] = 1 .. n
      BY DEF RoundsMatch, Numbered
    <3>2. Cardinality(1 .. n) < MaxRounds /\ n \in Nat /\ MaxRounds \in Nat
      BY <3>1, TwinsAssumption DEF RecordIteration
    <3>3. Cardinality(1 .. n) = n
      BY <3>2, FS_Interval
    <3>4. k = n + 1
      BY <3>1, <3>2, Numbering DEF k
    <3>5. sql'.rounds[r] = 1 .. n + 1
      BY <1>4, <1>6, <3>1, <3>2, <3>4
    <3> QED BY <2>1, <3>2, <3>3, <3>5 DEF Numbered
  <2>2. CASE q # r
    BY <1>4, <1>6, <2>2 DEF RoundsMatch, Numbered
  <2> QED BY <2>1, <2>2
<1>11. RoundsMatch'
  BY <1>4, <1>5, <1>6, <1>7, <1>8, <1>10 DEF RoundsMatch
<1> QED BY <1>9, <1>11

LEMMA SeqGrows ==
  ASSUME NEW S, NEW T, S \subseteq T, NEW s \in Seq(S)
  PROVE  s \in Seq(T)
<1>1. Len(s) \in Nat /\ s = [i \in 1 .. Len(s) |-> s[i]] /\ \A i \in 1 .. Len(s) : s[i] \in T
  OBVIOUS
<1> QED BY <1>1, SeqOfEntries

LEMMA FeedbackStays ==
  ASSUME TablesAreThere, FeedbackMatches, sql'.feedback = sql.feedback, mem'.feedback = mem.feedback,
         now' \in Nat, now <= now'
  PROVE  FeedbackMatches'
<1>1. [id : Findings, day : 0 .. now] \subseteq [id : Findings, day : 0 .. now']
  BY DEF TablesAreThere
<1>2. mem.feedback \in Seq([id : Findings, day : 0 .. now])
  BY DEF FeedbackMatches
<1>3. mem.feedback \in Seq([id : Findings, day : 0 .. now'])
  BY <1>1, <1>2, SeqGrows
<1> QED BY <1>3 DEF FeedbackMatches

LEMMA FeedbackHandled ==
  ASSUME TablesAreThere, FeedbackMatches, NEW f \in Findings, CreateFeedback(f)
  PROVE  FeedbackMatches' /\ Writes({"feedback"}, {"feedback"})
<1> DEFINE event == [id |-> f, day |-> now]
           x == [g \in DOMAIN sql.feedback \cup {f} |-> IF g = f THEN now ELSE sql.feedback[g]]
           y == Append(mem.feedback, event)
           list == mem.feedback
           n == Len(list)
<1>1. /\ n \in Nat /\ DOMAIN list = 1 .. n
      /\ DOMAIN sql.feedback = {list[i].id : i \in 1 .. n}
      /\ \A i \in 1 .. n : sql.feedback[list[i].id] = list[i].day
  BY DEF FeedbackMatches
<1>2. CASE f \in DOMAIN sql.feedback
  <2>1. \E i \in DOMAIN list : list[i].id = f
    BY <1>1, <1>2
  <2>2. Both(sql, mem) /\ strayed \subseteq strayed'
    BY <1>2, <2>1 DEF CreateFeedback, Sql!CreateFeedback, Mem!CreateFeedback, Alike
  <2>3. UNCHANGED <<sql, mem>> /\ Writes({"feedback"}, {"feedback"}) /\ now' = now
    BY <2>2, NothingWritten DEF Both
  <2> QED BY <2>3, FeedbackStays DEF TablesAreThere
<1>3. CASE f \notin DOMAIN sql.feedback
  <2>1. \A i \in DOMAIN list : list[i].id # f
    BY <1>1, <1>3
  <2>2. /\ sql' = [sql EXCEPT !.feedback = x] /\ mem' = [mem EXCEPT !.feedback = y]
        /\ UNCHANGED <<now, strayed>>
        /\ sql = [t \in SqlTables |-> sql[t]] /\ mem = [t \in MemTables |-> mem[t]]
    BY <1>3, <2>1 DEF CreateFeedback, Both, Alike, Sql!CreateFeedback, Mem!CreateFeedback,
                      TablesAreThere
  <2> HIDE DEF x, y
  <2>3. /\ sql' = [t \in SqlTables |-> sql'[t]] /\ \A t \in SqlTables \ {"feedback"} : sql'[t] = sql[t]
        /\ sql'.feedback = x
    BY <2>2 DEF SqlTables
  <2>4. /\ mem' = [t \in MemTables |-> mem'[t]] /\ \A t \in MemTables \ {"feedback"} : mem'[t] = mem[t]
        /\ mem'.feedback = y
    BY <2>2 DEF MemTables
  <2>5. event \in [id : Findings, day : 0 .. now]
    BY DEF TablesAreThere
  <2>6. /\ y \in Seq([id : Findings, day : 0 .. now])
        /\ DOMAIN y = 1 .. n + 1 /\ y[n + 1] = event /\ \A i \in 1 .. n : y[i] = list[i]
    BY <1>1, <2>5 DEF FeedbackMatches, y
  <2>7. \A i \in DOMAIN y : i \in 1 .. n \/ i = n + 1
    BY <1>1, <2>6
  <2>8. n + 1 \in DOMAIN y /\ y[n + 1].id = f /\ y[n + 1].day = now
    BY <1>1, <2>6
  <2>9. DOMAIN x = {y[i].id : i \in DOMAIN y}
    <3>1. \A i \in DOMAIN y : y[i].id \in DOMAIN x
      BY <1>1, <2>6, <2>7, <2>8 DEF x
    <3>2. \A g \in DOMAIN sql.feedback : \E i \in 1 .. n : list[i].id = g
      BY <1>1
    <3>3. ASSUME NEW g \in DOMAIN x
          PROVE  \E i \in DOMAIN y : y[i].id = g
      <4>1. CASE g = f
        BY <2>8, <4>1
      <4>2. CASE g # f
        <5>1. g \in DOMAIN sql.feedback
          BY <4>2 DEF x
        <5>2. PICK i \in 1 .. n : list[i].id = g
          BY <3>2, <5>1
        <5>3. i \in DOMAIN y
          BY <1>1, <2>6
        <5>4. y[i] = list[i]
          BY <2>6
        <5> QED BY <5>2, <5>3, <5>4
      <4> QED BY <4>1, <4>2
    <3> QED BY <3>1, <3>3
  <2>10. ASSUME NEW i \in DOMAIN y
         PROVE  x[y[i].id] = y[i].day
    <3>1. CASE i \in 1 .. n
      BY <1>1, <1>3, <2>1, <2>6, <3>1 DEF x
    <3>2. CASE i = n + 1
      BY <2>8, <3>2 DEF x
    <3> QED BY <2>7, <3>1, <3>2
  <2>11. FeedbackMatches'
    <3>1. mem'.feedback \in Seq([id : Findings, day : 0 .. now'])
      BY <2>2, <2>4, <2>6
    <3>2. DOMAIN sql'.feedback = {mem'.feedback[i].id : i \in DOMAIN mem'.feedback}
      BY <2>3, <2>4, <2>9
    <3>3. \A i \in DOMAIN mem'.feedback : sql'.feedback[mem'.feedback[i].id] = mem'.feedback[i].day
      BY <2>3, <2>4, <2>10
    <3> QED BY <3>1, <3>2, <3>3 DEF FeedbackMatches
  <2> QED BY <2>2, <2>3, <2>4, <2>11 DEF Writes
<1> QED BY <1>2, <1>3

LEMMA AuditStays ==
  ASSUME TablesAreThere, AuditMatches, sql'.audit = sql.audit, mem'.audit = mem.audit,
         now' \in Nat, now <= now'
  PROVE  AuditMatches'
<1>1. [row : Nat, at : 0 .. now] \subseteq [row : Nat, at : 0 .. now']
  BY DEF TablesAreThere
<1>2. mem.audit \in Seq([row : Nat, at : 0 .. now])
  BY DEF AuditMatches
<1>3. mem.audit \in Seq([row : Nat, at : 0 .. now'])
  BY <1>1, <1>2, SeqGrows
<1> QED BY <1>3 DEF AuditMatches

LEMMA AuditHandled ==
  ASSUME TablesAreThere, AuditMatches, LogAudit
  PROVE  AuditMatches' /\ Writes({"audit"}, {"audit"})
<1> DEFINE list == mem.audit
           n == Len(list)
           entry == [row |-> n + 1, at |-> now]
           x == sql.audit \cup {entry}
           y == Append(list, entry)
<1>1. /\ n \in Nat /\ DOMAIN list = 1 .. n /\ list \in Seq([row : Nat, at : 0 .. now])
      /\ \A i \in 1 .. n : list[i].at \in 0 .. now
  <2>1. list \in Seq([row : Nat, at : 0 .. now])
    BY DEF AuditMatches
  <2>2. DOMAIN list = 1 .. n /\ n \in Nat /\ \A i \in DOMAIN list : list[i] \in [row : Nat, at : 0 .. now]
    BY <2>1, EntriesOfASeq
  <2> QED BY <2>1, <2>2
<1>2. entry \in [row : Nat, at : 0 .. now]
  BY <1>1 DEF TablesAreThere
<1>3. /\ sql' = [sql EXCEPT !.audit = x] /\ mem' = [mem EXCEPT !.audit = y]
      /\ UNCHANGED <<now, strayed>>
      /\ sql = [t \in SqlTables |-> sql[t]] /\ mem = [t \in MemTables |-> mem[t]]
  BY DEF LogAudit, Both, Alike, Sql!RecordAudit, Mem!RecordAudit, TablesAreThere
<1> HIDE DEF x, y
<1>4. /\ sql' = [t \in SqlTables |-> sql'[t]] /\ \A t \in SqlTables \ {"audit"} : sql'[t] = sql[t]
      /\ sql'.audit = x
  BY <1>3 DEF SqlTables
<1>5. /\ mem' = [t \in MemTables |-> mem'[t]] /\ \A t \in MemTables \ {"audit"} : mem'[t] = mem[t]
      /\ mem'.audit = y
  BY <1>3 DEF MemTables
<1>6. /\ y \in Seq([row : Nat, at : 0 .. now])
      /\ DOMAIN y = 1 .. n + 1 /\ y[n + 1] = entry /\ \A i \in 1 .. n : y[i] = list[i]
  BY <1>1, <1>2 DEF y
<1>7. \A i \in DOMAIN y : i \in 1 .. n \/ i = n + 1
  BY <1>1, <1>6
<1>8. x = Range(y)
  <2>1. sql.audit = {list[i] : i \in 1 .. n}
    BY <1>1 DEF AuditMatches, Range
  <2>2. n + 1 \in DOMAIN y
    BY <1>1, <1>6
  <2>3. Range(y) \subseteq x
    BY <1>6, <1>7, <2>1 DEF Range, x
  <2>4. x \subseteq Range(y)
    <3>1. \A i \in 1 .. n : i \in DOMAIN y /\ y[i] = list[i]
      BY <1>1, <1>6
    <3>2. {list[i] : i \in 1 .. n} \subseteq Range(y)
      BY <3>1 DEF Range
    <3>3. entry \in Range(y)
      BY <1>6, <2>2 DEF Range
    <3> QED BY <2>1, <3>2, <3>3 DEF x
  <2> QED BY <2>3, <2>4
<1>9. ASSUME NEW i \in DOMAIN y, NEW j \in DOMAIN y, i <= j
      PROVE  y[i].at <= y[j].at
  <2>1. CASE j \in 1 .. n
    <3>1. i \in 1 .. n
      BY <1>1, <1>7, <1>9, <2>1
    <3> QED BY <1>1, <1>6, <1>9, <2>1, <3>1 DEF AuditMatches
  <2>2. CASE j = n + 1
    <3>1. y[j].at = now
      BY <1>6, <2>2
    <3>2. y[i].at \in 0 .. now
      <4>1. y[i] \in [row : Nat, at : 0 .. now]
        BY <1>6, EntriesOfASeq
      <4> QED BY <4>1
    <3> QED BY <3>1, <3>2 DEF TablesAreThere
  <2> QED BY <1>7, <2>1, <2>2
<1>10. AuditMatches'
  BY <1>3, <1>4, <1>5, <1>6, <1>8, <1>9 DEF AuditMatches
<1> QED BY <1>3, <1>4, <1>5, <1>10 DEF Writes

LEMMA VectorsStay ==
  ASSUME VectorsMatch, sql'.vectors = sql.vectors, mem'.vectors = mem.vectors,
         DOMAIN sql.finding \subseteq DOMAIN sql'.finding, strayed \subseteq strayed'
  PROVE  VectorsMatch'
BY DEF VectorsMatch, Strayed

LEMMA VectorHandled ==
  ASSUME TablesAreThere, VectorsMatch, NEW row \in Vectors, CreateEmbedding(row)
  PROVE  VectorsMatch' /\ Writes({"vectors"}, {"vectors"})
<1> DEFINE y == Append(mem.vectors, row)
           x == sql.vectors \cup {row}
           same == Sql!SameText(sql, row)
<1>1. /\ sql' = IF same THEN sql ELSE [sql EXCEPT !.vectors = x]
      /\ mem' = [mem EXCEPT !.vectors = y] /\ now' = now
      /\ Noting("same text", same)
      /\ sql = [t \in SqlTables |-> sql[t]] /\ mem = [t \in MemTables |-> mem[t]]
  BY DEF CreateEmbedding, Both, Sql!CreateEmbedding, Mem!CreateEmbedding, TablesAreThere
<1>2. strayed \subseteq strayed' /\ (same => "same text" \in strayed')
  BY <1>1, Noted
<1>3. row.kind = "finding" => row.of \in DOMAIN sql.finding
  BY DEF Vectors, Vector
<1>4. y \in Seq(Range(y)) /\ Range(y) = Range(mem.vectors) \cup {row}
  BY SeqOfItself DEF VectorsMatch
<1> HIDE DEF x, y, same
<1>5. /\ sql' = [t \in SqlTables |-> sql'[t]] /\ \A t \in SqlTables \ {"vectors"} : sql'[t] = sql[t]
      /\ sql'.vectors = IF same THEN sql.vectors ELSE x
  BY <1>1 DEF SqlTables
<1>6. /\ mem' = [t \in MemTables |-> mem'[t]] /\ \A t \in MemTables \ {"vectors"} : mem'[t] = mem[t]
      /\ mem'.vectors = y
  BY <1>1 DEF MemTables
<1>7. sql'.finding = sql.finding
  BY <1>5 DEF SqlTables
<1>8. VectorsMatch'
  <2>1. mem'.vectors \in Seq(Range(mem'.vectors))
    BY <1>4, <1>6
  <2>2. \A v \in sql'.vectors : v.kind = "finding" => v.of \in DOMAIN sql'.finding
    BY <1>3, <1>5, <1>7 DEF VectorsMatch, x
  <2>3. Strayed({"same text"})' \/ sql'.vectors = Range(mem'.vectors)
    <3>1. CASE same \/ Strayed({"same text"})
      BY <1>2, <3>1 DEF Strayed
    <3>2. CASE ~ same /\ sql.vectors = Range(mem.vectors)
      BY <1>4, <1>5, <1>6, <3>2 DEF x
    <3> QED BY <3>1, <3>2 DEF VectorsMatch
  <2> QED BY <2>1, <2>2, <2>3 DEF VectorsMatch
<1> QED BY <1>1, <1>2, <1>5, <1>6, <1>8 DEF Writes

LEMMA LearningStays ==
  ASSUME LearningMatches, strayed \subseteq strayed',
         sql'.agents = sql.agents, sql'.metrics = sql.metrics, sql'.version = sql.version,
         sql'.learned = sql.learned,
         mem'.agents = mem.agents, mem'.metrics = mem.metrics, mem'.version = mem.version,
         mem'.learned = mem.learned
  PROVE  LearningMatches'
BY DEF LearningMatches, Strayed, Sql!Memory, Mem!Memory

(* The tables of what is learned. *)
Learned == {"agents", "metrics", "version", "learned"}

LEMMA AgentHandled ==
  ASSUME TablesAreThere, LearningMatches, NEW a, SyncAgent(a)
  PROVE  LearningMatches' /\ Writes(Learned, Learned)
<1>1. /\ sql' = IF a \in sql.agents THEN sql ELSE [sql EXCEPT !.agents = @ \cup {a}]
      /\ mem' = [mem EXCEPT !.agents = @ \cup {a}] /\ UNCHANGED <<now, strayed>>
      /\ sql = [t \in SqlTables |-> sql[t]] /\ mem = [t \in MemTables |-> mem[t]]
  BY DEF SyncAgent, Both, Alike, Sql!SyncAgent, Mem!SyncAgent, TablesAreThere
<1>2. /\ sql' = [t \in SqlTables |-> sql'[t]] /\ \A t \in SqlTables \ {"agents"} : sql'[t] = sql[t]
      /\ sql'.agents = sql.agents \cup {a}
  BY <1>1 DEF SqlTables
<1>3. /\ mem' = [t \in MemTables |-> mem'[t]] /\ \A t \in MemTables \ {"agents"} : mem'[t] = mem[t]
      /\ mem'.agents = mem.agents \cup {a}
  BY <1>1 DEF MemTables
<1>4. /\ UNCHANGED <<sql.metrics, sql.version, sql.learned>>
      /\ UNCHANGED <<mem.metrics, mem.version, mem.learned>>
  BY <1>2, <1>3 DEF SqlTables, MemTables
<1>5. LearningMatches'
  BY <1>1, <1>2, <1>3, <1>4 DEF LearningMatches, Strayed, Sql!Memory, Mem!Memory
<1> QED BY <1>1, <1>2, <1>3, <1>5 DEF Writes, Learned

LEMMA MetricHandled ==
  ASSUME TablesAreThere, LearningMatches, NEW duration \in {0, 1}, CreateMetric(duration)
  PROVE  LearningMatches' /\ Writes(Learned, Learned)
<1>1. /\ sql' = [sql EXCEPT !.metrics = Append(@, duration)]
      /\ mem' = [mem EXCEPT !.metrics = Append(@, duration)] /\ now' = now
      /\ Noting("instant", duration = 0)
      /\ sql = [t \in SqlTables |-> sql[t]] /\ mem = [t \in MemTables |-> mem[t]]
  BY DEF CreateMetric, Both, Sql!CreateMetric, Mem!CreateMetric, TablesAreThere
<1>2. strayed \subseteq strayed' /\ (duration = 0 => "instant" \in strayed')
  BY <1>1, Noted
<1>3. /\ sql' = [t \in SqlTables |-> sql'[t]] /\ \A t \in SqlTables \ {"metrics"} : sql'[t] = sql[t]
      /\ sql'.metrics = Append(sql.metrics, duration)
  BY <1>1 DEF SqlTables
<1>4. /\ mem' = [t \in MemTables |-> mem'[t]] /\ \A t \in MemTables \ {"metrics"} : mem'[t] = mem[t]
      /\ mem'.metrics = Append(mem.metrics, duration)
  BY <1>1 DEF MemTables
<1>5. /\ sql'.agents = sql.agents /\ sql'.version = sql.version /\ sql'.learned = sql.learned
      /\ mem'.agents = mem.agents /\ mem'.version = mem.version /\ mem'.learned = mem.learned
  BY <1>3, <1>4 DEF SqlTables, MemTables
<1>6. mem.metrics \in Seq({0, 1}) /\ mem'.metrics \in Seq({0, 1})
  <2>1. mem.metrics \in Seq({0, 1})
    BY DEF LearningMatches
  <2> QED BY <1>4, <2>1
<1>7. Strayed({"instant"})' \/ (sql'.metrics = mem'.metrics /\ 0 \notin Range(mem'.metrics))
  <2>1. CASE duration = 0 \/ Strayed({"instant"})
    BY <1>2, <2>1 DEF Strayed
  <2>2. CASE duration # 0 /\ sql.metrics = mem.metrics /\ 0 \notin Range(mem.metrics)
    <3>1. \A i \in DOMAIN mem'.metrics :
            mem'.metrics[i] = duration \/ (i \in DOMAIN mem.metrics /\ mem'.metrics[i] = mem.metrics[i])
      BY <1>4, <1>6
    <3> QED BY <1>3, <1>4, <2>2, <3>1 DEF Range
  <2> QED BY <2>1, <2>2 DEF LearningMatches
<1>8. LearningMatches'
  BY <1>2, <1>5, <1>6, <1>7 DEF LearningMatches, Strayed, Sql!Memory, Mem!Memory
<1> QED BY <1>1, <1>2, <1>3, <1>4, <1>8 DEF Writes, Learned

LEMMA SnapshotHandled ==
  ASSUME TablesAreThere, LearningMatches, UpsertMemory
  PROVE  LearningMatches' /\ Writes(Learned, Learned)
<1>1. /\ sql' = [sql EXCEPT !.version = @ + 1] /\ mem' = [mem EXCEPT !.version = @ + 1]
      /\ UNCHANGED <<now, strayed>>
      /\ sql = [t \in SqlTables |-> sql[t]] /\ mem = [t \in MemTables |-> mem[t]]
  BY DEF UpsertMemory, Both, Alike, Sql!UpsertMemory, Mem!UpsertMemory, TablesAreThere
<1>2. /\ sql' = [t \in SqlTables |-> sql'[t]] /\ \A t \in SqlTables \ {"version"} : sql'[t] = sql[t]
      /\ sql'.version = sql.version + 1
  BY <1>1 DEF SqlTables
<1>3. /\ mem' = [t \in MemTables |-> mem'[t]] /\ \A t \in MemTables \ {"version"} : mem'[t] = mem[t]
      /\ mem'.version = mem.version + 1
  BY <1>1 DEF MemTables
<1>4. /\ sql'.agents = sql.agents /\ sql'.metrics = sql.metrics /\ sql'.learned = sql.learned
      /\ mem'.agents = mem.agents /\ mem'.metrics = mem.metrics /\ mem'.learned = mem.learned
  BY <1>2, <1>3 DEF SqlTables, MemTables
<1>5. LearningMatches'
  BY <1>1, <1>2, <1>3, <1>4 DEF LearningMatches, Strayed, Sql!Memory, Mem!Memory
<1> QED BY <1>1, <1>2, <1>3, <1>5 DEF Writes, Learned

(* Weights insert the row of a repository that has no snapshot yet. *)
LEMMA WeightsHandled ==
  ASSUME TablesAreThere, LearningMatches, SaveWeights
  PROVE  LearningMatches' /\ Writes(Learned, Learned)
<1>1. /\ sql' = [sql EXCEPT !.learned = TRUE, !.version = IF @ = 0 THEN 1 ELSE @]
      /\ mem' = [mem EXCEPT !.learned = TRUE] /\ now' = now
      /\ Noting("weights first", sql.version = 0)
      /\ sql = [t \in SqlTables |-> sql[t]] /\ mem = [t \in MemTables |-> mem[t]]
  BY DEF SaveWeights, Both, Sql!SaveWeights, Mem!SaveWeights, TablesAreThere
<1>2. strayed \subseteq strayed' /\ (sql.version = 0 => "weights first" \in strayed')
  BY <1>1, Noted
<1>3. /\ sql' = [t \in SqlTables |-> sql'[t]]
      /\ \A t \in SqlTables \ {"learned", "version"} : sql'[t] = sql[t]
      /\ sql'.version = IF sql.version = 0 THEN 1 ELSE sql.version
      /\ sql'.learned = TRUE
  BY <1>1 DEF SqlTables
<1>4. /\ mem' = [t \in MemTables |-> mem'[t]] /\ \A t \in MemTables \ {"learned"} : mem'[t] = mem[t]
      /\ mem'.learned = TRUE
  BY <1>1 DEF MemTables
<1>5. /\ sql'.agents = sql.agents /\ sql'.metrics = sql.metrics
      /\ mem'.agents = mem.agents /\ mem'.metrics = mem.metrics /\ mem'.version = mem.version
  BY <1>3, <1>4 DEF SqlTables, MemTables
<1>6. LearningMatches'
  BY <1>2, <1>3, <1>4, <1>5 DEF LearningMatches, Strayed, Sql!Memory, Mem!Memory
<1> QED BY <1>1, <1>2, <1>3, <1>4, <1>6 DEF Writes, Learned

(* What is shown of the other tables. *)
LEMMA SameEvidence ==
  ASSUME TablesAreThere, FeedbackMatches
  PROVE  Young(Sql!FeedbackEvents(sql, now)) = Mem!FeedbackEvents(mem, now)
<1> DEFINE list == mem.feedback
           S == Young(Sql!FeedbackEvents(sql, now))
           M == Mem!FeedbackEvents(mem, now)
<1>1. /\ \A i \in DOMAIN list : sql.feedback[list[i].id] = list[i].day /\ list[i].id \in DOMAIN sql.feedback
      /\ \A f \in DOMAIN sql.feedback : \E i \in DOMAIN list : list[i].id = f
  BY DEF FeedbackMatches
<1>2. \A i \in DOMAIN list : list[i].day \in 0 .. now
  <2>1. list \in Seq([id : Findings, day : 0 .. now])
    BY DEF FeedbackMatches
  <2>2. \A i \in DOMAIN list : list[i] \in [id : Findings, day : 0 .. now]
    BY <2>1, EntriesOfASeq
  <2> QED BY <2>2
<1>3. now \in Int /\ Horizon \in Int
  BY TwinsAssumption DEF TablesAreThere
<1>4. ASSUME NEW f \in S
      PROVE  f \in M
  <2>1. f \in DOMAIN sql.feedback /\ now - sql.feedback[f] < Horizon
    BY <1>4 DEF Young, Sql!FeedbackEvents
  <2>2. PICK i \in DOMAIN list : list[i].id = f
    BY <1>1, <2>1
  <2>3. list[i].day = sql.feedback[f] /\ list[i].day \in 0 .. now
    BY <1>1, <1>2, <2>2
  <2> QED BY <1>3, <2>1, <2>2, <2>3 DEF Mem!FeedbackEvents
<1>5. ASSUME NEW f \in M
      PROVE  f \in S
  <2>1. PICK i \in DOMAIN list : list[i].id = f /\ now - list[i].day < Horizon
    BY <1>5 DEF Mem!FeedbackEvents
  <2>2. f \in DOMAIN sql.feedback /\ sql.feedback[f] = list[i].day /\ list[i].day \in 0 .. now
    BY <1>1, <1>2, <2>1
  <2> QED BY <1>3, <2>1, <2>2 DEF Young, Sql!FeedbackEvents
<1> QED BY <1>4, <1>5

LEMMA NewestIsNewest ==
  ASSUME AuditMatches
  PROVE  Mem!Newest(mem) \subseteq Sql!Newest(sql)
<1> DEFINE list == mem.audit
           n == Len(list)
<1>1. /\ n \in Nat /\ DOMAIN list = 1 .. n
      /\ \A i, j \in 1 .. n : i <= j => list[i].at <= list[j].at
      /\ sql.audit = {list[i] : i \in 1 .. n}
  <2>1. list \in Seq([row : Nat, at : 0 .. now])
    BY DEF AuditMatches
  <2>2. n \in Nat /\ DOMAIN list = 1 .. n
    BY <2>1, EntriesOfASeq
  <2>3. \A i, j \in 1 .. n : i <= j => list[i].at <= list[j].at
    BY <2>2 DEF AuditMatches
  <2>4. sql.audit = {list[i] : i \in 1 .. n}
    BY <2>2 DEF AuditMatches, Range
  <2> QED BY <2>2, <2>3, <2>4
<1>2. CASE n = 0
  BY <1>1, <1>2 DEF Mem!Newest
<1>3. CASE n # 0
  <2>1. n \in 1 .. n /\ Mem!Newest(mem) = {list[n].row}
    BY <1>1, <1>3 DEF Mem!Newest
  <2>2. list[n] \in sql.audit
    BY <1>1, <2>1
  <2>3. \A y \in sql.audit : y.at <= list[n].at
    BY <1>1, <2>1
  <2> QED BY <2>1, <2>2, <2>3 DEF Sql!Newest
<1> QED BY <1>2, <1>3

LEMMA RecordsImply ==
  ASSUME TablesAreThere, RoundsMatch, FeedbackMatches, AuditMatches, LearningMatches, VectorsMatch
  PROVE  RecordsAgree
<1>1. \A r \in Reviews : Sql!Rounds(sql, r) = Mem!Rounds(mem, r)
  BY DEF RoundsMatch, Sql!Rounds
<1>2. sql.agents = mem.agents /\ (Strayed({"weights first"}) \/ Sql!Memory(sql) = Mem!Memory(mem))
  BY DEF LearningMatches
<1>3. Strayed({"instant"}) \/ Sql!Latencies(sql) = Mem!Latencies(mem)
  <2>1. CASE sql.metrics = mem.metrics /\ 0 \notin Range(mem.metrics)
    <3> DEFINE list == mem.metrics
    <3>1. list \in Seq({0, 1})
      BY DEF LearningMatches
    <3>2. list = [i \in DOMAIN list |-> list[i]]
      BY <3>1
    <3>3. {j \in DOMAIN list : list[j] # 0} = DOMAIN list
      BY <2>1 DEF Range
    <3>4. Mem!Latencies(mem) = [i \in DOMAIN list |-> list[i]]
      BY <3>3 DEF Mem!Latencies
    <3> QED BY <2>1, <3>2, <3>4 DEF Sql!Latencies
  <2> QED BY <2>1 DEF LearningMatches
<1>4. ASSUME ~ Strayed({"same text"}), NEW q \in Repositories
      PROVE  Sql!Standards(sql, q) = Mem!Standards(mem, q)
  <2>1. sql.vectors = {mem.vectors[i] : i \in DOMAIN mem.vectors}
    BY <1>4 DEF VectorsMatch, Range
  <2>2. {x \in sql.vectors : x.kind = "standard" /\ x.of = q} =
        {x \in Mem!Vectors(mem, "standard") : x.of = q}
    BY <2>1 DEF Mem!Vectors
  <2> QED BY <2>2 DEF Sql!Standards, Mem!Standards
<1> QED BY <1>1, <1>2, <1>3, <1>4, SameEvidence, NewestIsNewest DEF RecordsAgree

-----------------------------------------------------------------------------
(* Every call keeps the tables it writes in step, and leaves the others. *)
LEMMA OthersStay ==
  ASSUME TwinsInvariant, NEW S, NEW M, Writes(S, M),
         "finding" \in S => DOMAIN sql.finding \subseteq DOMAIN sql'.finding
  PROVE  /\ TablesAreThere'
         /\ "finding" \notin S /\ "findings" \notin M => FindingsTyped'
         /\ "status" \notin S /\ "updated" \notin S /\ "reviews" \notin M => ClaimsMatch'
         /\ "finding" \notin S /\ "findings" \notin M => FindingsMatch'
         /\ "vectors" \notin S /\ "vectors" \notin M => VectorsMatch'
         /\ "rounds" \notin S /\ "iterations" \notin M => RoundsMatch'
         /\ "feedback" \notin S /\ "feedback" \notin M => FeedbackMatches'
         /\ "audit" \notin S /\ "audit" \notin M => AuditMatches'
         /\ Learned \cap (S \cup M) = {} => LearningMatches'
<1>1. /\ \A t \in SqlTables \ S : sql'[t] = sql[t]
      /\ \A t \in MemTables \ M : mem'[t] = mem[t]
  BY DEF Writes
<1>2. now' = now /\ now \in Nat /\ now <= now' /\ strayed \subseteq strayed'
  BY TwinsAssumption DEF Writes, TwinsInvariant, TablesAreThere
<1>3. TablesAreThere'
  BY <1>2 DEF Writes, TwinsInvariant, TablesAreThere
<1>4. ASSUME "status" \notin S, "updated" \notin S, "reviews" \notin M
      PROVE  ClaimsMatch'
  <2>1. sql'.status = sql.status /\ sql'.updated = sql.updated /\ mem'.reviews = mem.reviews
    BY <1>1, <1>4 DEF SqlTables, MemTables
  <2> QED BY <1>2, <2>1, ClaimsStay DEF TwinsInvariant
<1>5. ASSUME "finding" \notin S, "findings" \notin M
      PROVE  FindingsTyped' /\ FindingsMatch'
  <2>1. sql'.finding = sql.finding /\ mem'.findings = mem.findings
    BY <1>1, <1>5 DEF SqlTables, MemTables
  <2> QED BY <1>2, <2>1, FindingsStay DEF TwinsInvariant, FindingsTyped
<1>6. ASSUME "vectors" \notin S, "vectors" \notin M
      PROVE  VectorsMatch'
  <2>1. sql'.vectors = sql.vectors /\ mem'.vectors = mem.vectors
    BY <1>1, <1>6 DEF SqlTables, MemTables
  <2>2. DOMAIN sql.finding \subseteq DOMAIN sql'.finding
    <3>1. "finding" \notin S => sql'.finding = sql.finding
      BY <1>1 DEF SqlTables
    <3> QED BY <3>1
  <2> QED BY <1>2, <2>1, <2>2, VectorsStay DEF TwinsInvariant
<1>7. ASSUME "rounds" \notin S, "iterations" \notin M
      PROVE  RoundsMatch'
  <2>1. sql'.rounds = sql.rounds /\ mem'.iterations = mem.iterations
    BY <1>1, <1>7 DEF SqlTables, MemTables
  <2> QED BY <2>1 DEF TwinsInvariant, RoundsMatch, Numbered, Mem!Rounds
<1>8. ASSUME "feedback" \notin S, "feedback" \notin M
      PROVE  FeedbackMatches'
  <2>1. sql'.feedback = sql.feedback /\ mem'.feedback = mem.feedback
    BY <1>1, <1>8 DEF SqlTables, MemTables
  <2> QED BY <1>2, <2>1, FeedbackStays DEF TwinsInvariant
<1>9. ASSUME "audit" \notin S, "audit" \notin M
      PROVE  AuditMatches'
  <2>1. sql'.audit = sql.audit /\ mem'.audit = mem.audit
    BY <1>1, <1>9 DEF SqlTables, MemTables
  <2> QED BY <1>2, <2>1, AuditStays DEF TwinsInvariant
<1>10. ASSUME Learned \cap (S \cup M) = {}
       PROVE  LearningMatches'
  <2>0. \A t \in {"agents", "metrics", "version", "learned"} : t \notin S /\ t \notin M
    BY <1>10 DEF Learned
  <2>1. /\ sql'.agents = sql.agents /\ sql'.metrics = sql.metrics /\ sql'.version = sql.version
        /\ sql'.learned = sql.learned
    BY <1>1, <2>0 DEF SqlTables
  <2>2. /\ mem'.agents = mem.agents /\ mem'.metrics = mem.metrics /\ mem'.version = mem.version
        /\ mem'.learned = mem.learned
    BY <1>1, <2>0 DEF MemTables
  <2> QED BY <1>2, <2>1, <2>2, LearningStays DEF TwinsInvariant
<1> QED BY <1>3, <1>4, <1>5, <1>6, <1>7, <1>8, <1>9, <1>10

LEMMA RunningKeepsTwins ==
  ASSUME TwinsInvariant, NEW r \in Reviews, Running(r)
  PROVE  TwinsInvariant'
<1> USE DEF TwinsInvariant
<1>1. ASSUME NEW to \in {"DECIDING", "ITERATING", "FAILED"}, Transition(r, to)
      PROVE  TwinsInvariant'
  <2>1. ClaimsMatch' /\ Writes({"status", "updated"}, {"reviews"})
    BY <1>1, TransitionClaims
  <2> QED BY <2>1, OthersStay DEF Learned
<1>2. CASE AppendNote(r)
  <2>1. ClaimsMatch' /\ Writes({"updated"}, {"reviews"})
    BY <1>2, NoteClaims
  <2> QED BY <2>1, OthersStay DEF Learned
<1>3. ASSUME NEW news \in BOOLEAN, RecordDecision(r, news)
      PROVE  TwinsInvariant'
  <2>1. ClaimsMatch' /\ Writes({"updated"}, {})
    BY <1>3, DecisionClaims
  <2> QED BY <2>1, OthersStay DEF Learned
<1>4. ASSUME NEW f \in Findings, NEW action \in {"STALE", "RESOLVED"}, ApplyDelta(r, f, action)
      PROVE  TwinsInvariant'
  <2>1. /\ ClaimsMatch' /\ FindingsTyped' /\ FindingsMatch'
        /\ Writes({"updated", "finding"}, {"reviews", "findings"})
        /\ DOMAIN sql'.finding = DOMAIN sql.finding
    BY <1>4, DeltaKeeps
  <2> QED BY <2>1, OthersStay DEF Learned
<1>5. ASSUME FindingsHandled
      PROVE  TwinsInvariant'
  <2>1. /\ FindingsTyped' /\ FindingsMatch' /\ Writes({"finding"}, {"findings"})
        /\ DOMAIN sql.finding \subseteq DOMAIN sql'.finding
    BY <1>5 DEF FindingsHandled
  <2> QED BY <2>1, OthersStay DEF Learned
<1>6. ASSUME NEW f \in Findings, NEW chosen \in BOOLEAN, NEW g \in {"none", "g"},
             ApplyDecision(r, f, chosen, g)
      PROVE  TwinsInvariant'
  <2>1. FindingsHandled
    BY <1>6, VerdictMirrors DEF Groups
  <2> QED BY <1>5, <2>1
<1>7. ASSUME NEW f \in Findings, UpdateDuplicate(r, f, "g")
      PROVE  TwinsInvariant'
  BY <1>5, <1>7, DuplicateMirrors
<1>8. CASE RecordIteration(r)
  <2>1. RoundsMatch' /\ Writes({"rounds"}, {"iterations"})
    BY <1>8, RoundHandled
  <2> QED BY <2>1, OthersStay DEF Learned
<1> QED BY <1>1, <1>2, <1>3, <1>4, <1>6, <1>7, <1>8 DEF Running

LEMMA PublishingKeepsTwins ==
  ASSUME TwinsInvariant, NEW r \in Reviews, Publishing(r)
  PROVE  TwinsInvariant'
<1> USE DEF TwinsInvariant
<1>1. CASE Claim(r) \/ Release(r) \/ MarkReviewPublished(r)
  <2>1. ClaimsMatch' /\ Writes({"status", "updated"}, {"reviews"})
    BY <1>1, ClaimClaims, ReleaseClaims, PublishedClaims
  <2> QED BY <2>1, OthersStay DEF Learned
<1>2. ASSUME NEW f \in Findings, MarkFinding(r, f)
      PROVE  TwinsInvariant'
  <2>1. /\ FindingsTyped' /\ FindingsMatch' /\ Writes({"finding"}, {"findings"})
        /\ DOMAIN sql.finding \subseteq DOMAIN sql'.finding
    BY <1>2, MarkMirrors DEF FindingsHandled
  <2> QED BY <2>1, OthersStay DEF Learned
<1> QED BY <1>1, <1>2 DEF Publishing

LEMMA LearningKeepsTwins ==
  ASSUME TwinsInvariant, Learning
  PROVE  TwinsInvariant'
<1> USE DEF TwinsInvariant
<1>1. ASSUME NEW f \in Findings, CreateFeedback(f)
      PROVE  TwinsInvariant'
  <2>1. FeedbackMatches' /\ Writes({"feedback"}, {"feedback"})
    BY <1>1, FeedbackHandled
  <2> QED BY <2>1, OthersStay DEF Learned
<1>2. CASE UpsertMemory \/ SaveWeights
  <2>1. LearningMatches' /\ Writes(Learned, Learned)
    BY <1>2, SnapshotHandled, WeightsHandled
  <2> QED BY <2>1, OthersStay DEF Learned
<1>3. ASSUME NEW row \in Vectors, CreateEmbedding(row)
      PROVE  TwinsInvariant'
  <2>1. VectorsMatch' /\ Writes({"vectors"}, {"vectors"})
    BY <1>3, VectorHandled
  <2> QED BY <2>1, OthersStay DEF Learned
<1> QED BY <1>1, <1>2, <1>3 DEF Learning

LEMMA TickKeepsTwins ==
  ASSUME TwinsInvariant, Tick
  PROVE  TwinsInvariant'
<1> USE DEF TwinsInvariant
<1>1. UNCHANGED <<sql, mem, strayed>> /\ now' = now + 1 /\ now < MaxTime
  BY DEF Tick
<1>2. now' \in Nat /\ now <= now' /\ now' \in 0 .. MaxTime
  BY <1>1, TwinsAssumption DEF TablesAreThere
<1>3. TablesAreThere'
  BY <1>1, <1>2 DEF TablesAreThere
<1>4. FeedbackMatches' /\ AuditMatches'
  BY <1>1, <1>2, FeedbackStays, AuditStays
<1>5. ClaimsMatch' /\ FindingsTyped' /\ FindingsMatch' /\ VectorsMatch'
  BY <1>1, ClaimsStay, FindingsStay, VectorsStay DEF FindingsTyped
<1>6. RoundsMatch' /\ LearningMatches'
  BY <1>1, LearningStays DEF RoundsMatch, Numbered
<1> QED BY <1>3, <1>4, <1>5, <1>6

LEMMA StepKeepsTwins ==
  ASSUME TwinsInvariant, TwinsNext
  PROVE  TwinsInvariant'
<1>1. CASE \E r \in Reviews : Running(r) \/ Publishing(r)
  BY <1>1, RunningKeepsTwins, PublishingKeepsTwins
<1>2. ASSUME NEW f \in Findings, CreateFinding(f)
      PROVE  TwinsInvariant'
  <2>1. /\ FindingsTyped' /\ FindingsMatch' /\ Writes({"finding"}, {"findings"})
        /\ DOMAIN sql.finding \subseteq DOMAIN sql'.finding
    BY <1>2, CreateMirrors DEF FindingsHandled, TwinsInvariant
  <2> QED BY <2>1, OthersStay DEF Learned, TwinsInvariant
<1>3. ASSUME NEW duration \in {0, 1}, CreateMetric(duration)
      PROVE  TwinsInvariant'
  <2>1. LearningMatches' /\ Writes(Learned, Learned)
    BY <1>3, MetricHandled DEF TwinsInvariant
  <2> QED BY <2>1, OthersStay DEF Learned, TwinsInvariant
<1>4. CASE SyncAgent("security")
  <2>1. LearningMatches' /\ Writes(Learned, Learned)
    BY <1>4, AgentHandled DEF TwinsInvariant
  <2> QED BY <2>1, OthersStay DEF Learned, TwinsInvariant
<1>5. CASE LogAudit
  <2>1. AuditMatches' /\ Writes({"audit"}, {"audit"})
    BY <1>5, AuditHandled DEF TwinsInvariant
  <2> QED BY <2>1, OthersStay DEF Learned, TwinsInvariant
<1> QED BY <1>1, <1>2, <1>3, <1>4, <1>5, LearningKeepsTwins, TickKeepsTwins DEF TwinsNext

LEMMA TwinsStart ==
  ASSUME TwinsInit
  PROVE  TwinsInvariant
<1>1. /\ sql.status = [r \in Reviews |-> "QUEUED"] /\ sql.updated = [r \in Reviews |-> 0]
      /\ sql.finding = << >> /\ sql.rounds = [r \in Reviews |-> {}] /\ sql.feedback = << >>
      /\ sql.agents = {} /\ sql.metrics = << >> /\ sql.audit = {} /\ sql.vectors = {}
      /\ sql.version = 0 /\ sql.learned = FALSE
      /\ sql = [t \in SqlTables |-> sql[t]]
  BY DEF TwinsInit, Sql!Empty, SqlTables
<1>2. /\ mem.reviews = << >> /\ mem.findings = << >> /\ mem.iterations = << >>
      /\ mem.feedback = << >> /\ mem.agents = {} /\ mem.metrics = << >> /\ mem.audit = << >>
      /\ mem.vectors = << >> /\ mem.version = 0 /\ mem.learned = FALSE
      /\ mem = [t \in MemTables |-> mem[t]]
  BY DEF TwinsInit, Mem!Empty, MemTables
<1>3. TablesAreThere
  BY <1>1, <1>2, TwinsAssumption DEF TwinsInit, TablesAreThere
<1>4. ClaimsMatch
  BY <1>1, <1>2, TwinsAssumption DEF ClaimsMatch, Mem!Status, Mem!Known, Statuses
<1>5. FindingsTyped /\ FindingsMatch
  BY <1>1, <1>2 DEF FindingsTyped, FindingsMatch, Mirrors
<1>6. VectorsMatch
  BY <1>1, <1>2 DEF VectorsMatch, Range
<1>7. RoundsMatch
  <2>1. 0 \in 0 .. MaxRounds /\ {} = 1 .. 0
    BY TwinsAssumption
  <2> QED BY <1>1, <1>2, <2>1 DEF RoundsMatch, Numbered, Mem!Rounds
<1>8. FeedbackMatches /\ AuditMatches
  BY <1>1, <1>2 DEF FeedbackMatches, AuditMatches, Range
<1>9. LearningMatches
  <2>1. mem.metrics \in Seq({0, 1}) /\ 0 \notin Range(mem.metrics)
    BY <1>2 DEF Range
  <2>2. Sql!Memory(sql) = Mem!Memory(mem)
    BY <1>1, <1>2 DEF Sql!Memory, Mem!Memory
  <2> QED BY <1>1, <1>2, <2>1, <2>2 DEF LearningMatches
<1> QED BY <1>3, <1>4, <1>5, <1>6, <1>7, <1>8, <1>9 DEF TwinsInvariant

(* After any sequence of calls the tables of the two stores say the same, up to
   what the calls that are known to part them have made different. *)
THEOREM TwinsInvariantHolds == TwinsSpec => []TwinsInvariant
<1>1. TwinsInit => TwinsInvariant
  BY TwinsStart
<1>2. TwinsInvariant /\ [TwinsNext]_twinsVars => TwinsInvariant'
  <2> SUFFICES ASSUME TwinsInvariant, [TwinsNext]_twinsVars
               PROVE  TwinsInvariant'
    OBVIOUS
  <2>1. CASE TwinsNext
    BY <2>1, StepKeepsTwins
  <2>2. CASE UNCHANGED twinsVars
    <3>1. /\ sql' = sql /\ mem' = mem /\ now' = now /\ strayed' = strayed
          /\ now \in Nat /\ now <= now'
      BY <2>2, TwinsAssumption DEF twinsVars, TwinsInvariant, TablesAreThere
    <3>2. TablesAreThere' /\ FindingsTyped' /\ RoundsMatch'
      BY <3>1 DEF TwinsInvariant, TablesAreThere, FindingsTyped, RoundsMatch, Numbered
    <3> QED BY <3>1, <3>2, ClaimsStay, FindingsStay, VectorsStay, FeedbackStays, AuditStays,
               LearningStays DEF TwinsInvariant
  <2> QED BY <2>1, <2>2
<1> QED BY <1>1, <1>2, PTL DEF TwinsSpec

LEMMA SuiteStays ==
  ASSUME suite \in Suites, strayed \subseteq Kinds, [TwinsNext]_twinsVars
  PROVE  suite' \in Suites /\ strayed' \subseteq Kinds
<1>1. \A kind \in Kinds : \A apart : Noting(kind, apart) => strayed' \subseteq Kinds
  BY DEF Noting
<1>2. \A s, m : Both(s, m) => suite' = suite
  BY DEF Both
<1>3. Alike => strayed' = strayed
  BY DEF Alike
<1>4. ASSUME NEW r \in Reviews, Running(r)
      PROVE  suite' = suite /\ strayed' \subseteq Kinds
  BY <1>1, <1>2, <1>3, <1>4
     DEF Running, Kinds, Transition, AppendNote, RecordDecision, ApplyDelta, ApplyDecision,
         UpdateDuplicate, RecordIteration
<1>5. ASSUME NEW r \in Reviews, Publishing(r)
      PROVE  suite' = suite /\ strayed' \subseteq Kinds
  BY <1>2, <1>3, <1>5 DEF Publishing, Claim, Release, MarkReviewPublished, MarkFinding
<1>6. ASSUME Learning
      PROVE  suite' = suite /\ strayed' \subseteq Kinds
  BY <1>1, <1>2, <1>3, <1>6
     DEF Learning, Kinds, CreateFeedback, UpsertMemory, SaveWeights, CreateEmbedding
<1>7. ASSUME NEW f \in Findings, CreateFinding(f)
      PROVE  suite' = suite /\ strayed' \subseteq Kinds
  BY <1>1, <1>2, <1>7 DEF CreateFinding, Kinds
<1>8. ASSUME NEW duration \in {0, 1}, CreateMetric(duration)
      PROVE  suite' = suite /\ strayed' \subseteq Kinds
  BY <1>1, <1>2, <1>8 DEF CreateMetric, Kinds
<1>9. ASSUME SyncAgent("security") \/ LogAudit
      PROVE  suite' = suite /\ strayed' \subseteq Kinds
  BY <1>2, <1>3, <1>9 DEF SyncAgent, LogAudit
<1>10. ASSUME Tick \/ UNCHANGED twinsVars
       PROVE  suite' = suite /\ strayed' \subseteq Kinds
  BY <1>10 DEF Tick, twinsVars
<1> QED BY <1>4, <1>5, <1>6, <1>7, <1>8, <1>9, <1>10 DEF TwinsNext

(* Both stores stay in the form their classes keep them in, whatever the calls
   and whatever has parted them. *)
THEOREM TwinsTypeCorrect == TwinsSpec => []TwinsTypeOK
<1>1. TwinsInit => suite \in Suites /\ strayed \subseteq Kinds
  BY DEF TwinsInit
<1>2. TwinsInvariant /\ suite \in Suites /\ strayed \subseteq Kinds => TwinsTypeOK
  BY DEF TwinsInvariant, TwinsTypeOK, TablesAreThere, ClaimsMatch, RoundsMatch
<1> DEFINE Started == suite \in Suites /\ strayed \subseteq Kinds
<1>3. Started /\ [TwinsNext]_twinsVars => Started'
  BY SuiteStays
<1>4. TwinsInit => Started
  BY <1>1
<1>5. TwinsInvariant /\ Started => TwinsTypeOK
  BY <1>2
<1> HIDE DEF Started
<1> QED BY <1>3, <1>4, <1>5, TwinsInvariantHolds, PTL DEF TwinsSpec

(* A publisher is offered the same reviews by both, and sees them in the same
   status, until a claimed one is written to by someone who does not hold it. *)
THEOREM ClaimsAlwaysAgree == TwinsSpec => []ClaimsAgree
<1>1. TwinsInvariant => ClaimsAgree
  BY ClaimsImply DEF TwinsInvariant
<1> QED BY <1>1, TwinsInvariantHolds, PTL

(* Both show a review's findings alike, and count and choose them alike, until
   an id is stored twice or a review is told of the finding of another. *)
THEOREM FindingsAlwaysAgree == TwinsSpec => []FindingsAgree
<1>1. TwinsInvariant => FindingsAgree
  BY FindingsImply DEF TwinsInvariant
<1> QED BY <1>1, TwinsInvariantHolds, PTL

(* Both show the same rounds, agents, evidence and, but for the calls that are
   known to part them, the same memory, latencies and standards. *)
THEOREM RecordsAlwaysAgree == TwinsSpec => []RecordsAgree
<1>1. TwinsInvariant => RecordsAgree
  BY RecordsImply DEF TwinsInvariant
<1> QED BY <1>1, TwinsInvariantHolds, PTL
=============================================================================
