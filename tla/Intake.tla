-------------------------------- MODULE Intake --------------------------------
(***************************************************************************)
(* github_webhook: the requests that GitHub sends about one pull request,  *)
(* from the rate limiter to the commit of the ingesting transaction. What  *)
(* follows, the dispatch of the stored review, is ReviewQueue.             *)
(*                                                                         *)
(* The transaction (READ COMMITTED) loads the row of the pull request and  *)
(* writes the columns that differ from what it loaded; a row that another  *)
(* transaction has written is locked until that one ends. The row of the   *)
(* repository is found and inserted in the same way just before, and a     *)
(* conflict on it ends a request as one on the pull request does.          *)
(* The urgency, read with that row, is read in the same step here: nothing *)
(* relates the two.                                                        *)
(***************************************************************************)
EXTENDS Integers, Sequences, FiniteSets

CONSTANTS
  Requests,    \* requests served at a time
  Clients,     \* addresses GitHub sends from
  Deliveries,  \* X-GitHub-Delivery ids
  Kind,        \* "review", or why a delivery is refused or ignored
  Commit,      \* the head a delivery reports, numbered as pushed
  Size,        \* changed_files, additions and deletions, in steps of the score
  Urgencies,   \* what an administrator may set as the repository's urgency
  Cap,         \* rate_limit_webhook_per_minute
  Window,      \* window_seconds
  Full, UrgencyWeight, Low, Medium,  \* the weights and thresholds of the score
  MaxSends, MaxTime                  \* bounds: sends of a delivery, the clock

ASSUME IntakeAssumption ==
  /\ Commit \in [Deliveries -> Nat \ {0}]
  /\ Size \in [Deliveries -> Nat] /\ MaxSends \in [Deliveries -> Nat]
  /\ Urgencies \subseteq Int /\ 0 \in Urgencies
  /\ {Cap, Window, MaxTime} \subseteq Nat \ {0}
  /\ {Full, UrgencyWeight, Low, Medium} \subseteq Nat

VARIABLES
  now, hits,             \* the clock and the limiter's hits per address
  sends,                 \* times a delivery has arrived
  urgency,               \* review_settings.urgency
  row, lock,             \* the pull request's row and who has written to it
  reviews,               \* the stored reviews, by delivery
  rpc, event, loaded, seen,  \* the requests' local state: where it is, its
                         \* delivery, the row and the urgency it loaded
  passed, refused,       \* history: requests by the limiter's answer
  stale, late            \* history: a transaction wrote over a row it had not
                         \* seen, or an older commit was stored after a newer

limiterVars == <<now, hits, sends, passed, refused>>
tableVars == <<row, lock, reviews>>
requestVars == <<rpc, event, loaded, seen>>
vars == <<limiterVars, urgency, tableVars, requestVars, stale, late>>

None == 0
NoRow == [commit |-> None, size |-> None]
Fields(d) == [commit |-> Commit[d], size |-> Size[d]]
Rows == {NoRow} \cup {[commit |-> Commit[d], size |-> Size[e]] : d \in Deliveries, e \in Deliveries}

Least(m, n) == IF m < n THEN m ELSE n
Clamp(n) == IF n < 0 THEN 0 ELSE Least(n, 1)

(* compute_priority; of its factors only these two are ever above 0. *)
Score(size, urgent) == Least(size, Full) + UrgencyWeight * Clamp(urgent)
RiskClass(score) == IF score < Low THEN "LOW" ELSE IF score <= Medium THEN "MEDIUM" ELSE "HIGH"

Review(d, urgent) ==
  LET score == Score(Size[d], urgent) IN [score |-> score, risk |-> RiskClass(score)]

Init ==
  /\ now = 0
  /\ hits = [c \in Clients |-> << >>]
  /\ sends = [d \in Deliveries |-> 0]
  /\ urgency = 0
  /\ row = NoRow
  /\ lock = {}
  /\ reviews = << >>
  /\ rpc = [r \in Requests |-> "idle"]
  /\ event = [r \in Requests |-> "none"]
  /\ loaded = [r \in Requests |-> NoRow]
  /\ seen = [r \in Requests |-> 0]
  /\ passed = [c \in Clients |-> << >>]
  /\ refused = {}
  /\ stale = FALSE
  /\ late = FALSE

RequestGoes(r, from, to) == rpc[r] = from /\ rpc' = [rpc EXCEPT ![r] = to]
Ends(r) ==
  /\ rpc' = [rpc EXCEPT ![r] = "idle"]
  /\ event' = [event EXCEPT ![r] = "none"]
  /\ loaded' = [loaded EXCEPT ![r] = NoRow]
  /\ seen' = [seen EXCEPT ![r] = 0]

-----------------------------------------------------------------------------
(* Mutants, here and below: forms of the definition that follows with a
   plausible bug, which a property must notice. *)
PopLate(c) ==
  LET gone == {i \in DOMAIN hits[c] : \A j \in 1 .. i : hits[c][j] < now - Window}
  IN  SubSeq(hits[c], Cardinality(gone) + 1, Len(hits[c]))

(* allow: the hits that have left the window are popped from the front, that
   of an admitted request is added. *)
Pruned(c) ==
  LET gone == {i \in DOMAIN hits[c] : \A j \in 1 .. i : hits[c][j] <= now - Window}
  IN  SubSeq(hits[c], Cardinality(gone) + 1, Len(hits[c]))

Refuse(r, c) ==
  /\ Len(Pruned(c)) >= Cap
  /\ hits' = [hits EXCEPT ![c] = Pruned(c)]
  /\ refused' = refused \cup {[client |-> c, at |-> now]}
  /\ UNCHANGED <<passed, requestVars>>

(* A bad signature, a ping, an event or an action that is not reviewed, a
   missing id and a payload that does not parse have used up a hit. *)
Admit(r, c, d) ==
  /\ Len(Pruned(c)) < Cap
  /\ hits' = [hits EXCEPT ![c] = Append(Pruned(c), now)]
  /\ passed' = [passed EXCEPT ![c] = Append(@, now)]
  /\ IF Kind[d] = "review"
     THEN rpc' = [rpc EXCEPT ![r] = "load"] /\ event' = [event EXCEPT ![r] = d]
     ELSE UNCHANGED <<rpc, event>>
  /\ UNCHANGED <<loaded, seen, refused>>

Arrive(r, c, d) ==
  /\ rpc[r] = "idle"
  /\ sends[d] < MaxSends[d]
  /\ sends' = [sends EXCEPT ![d] = @ + 1]
  /\ Refuse(r, c) \/ Admit(r, c, d)
  /\ UNCHANGED <<now, urgency, tableVars, stale, late>>

-----------------------------------------------------------------------------
(* _upsert_pull_request: select, then assign and flush. *)
Load(r) ==
  /\ RequestGoes(r, "load", "write")
  /\ loaded' = [loaded EXCEPT ![r] = row]
  /\ seen' = [seen EXCEPT ![r] = urgency]
  /\ UNCHANGED <<limiterVars, urgency, tableVars, event, stale, late>>

CountsStay(r) == {f \in {"commit"} : loaded[r][f] # Fields(event[r])[f]}
HeadStays(r) ==
  {f \in {"commit", "size"} : (f = "commit" => loaded[r] = NoRow) /\ loaded[r][f] # Fields(event[r])[f]}

(* The columns of the UPDATE; all of them are inserted. *)
Changed(r) == {f \in {"commit", "size"} : loaded[r][f] # Fields(event[r])[f]}

Write(r) ==
  /\ RequestGoes(r, "write", "find")
  /\ loaded[r] = NoRow => row = NoRow
  /\ IF Changed(r) = {} THEN UNCHANGED lock ELSE lock = {} /\ lock' = {r}
  /\ stale' = (stale \/ row # loaded[r])
  /\ UNCHANGED <<limiterVars, urgency, row, reviews, event, loaded, seen, late>>

(* Another request inserted the row first: IntegrityError, the request fails. *)
InsertConflicts(r) ==
  /\ rpc[r] = "write" /\ loaded[r] = NoRow /\ row # NoRow
  /\ lock = {}
  /\ Ends(r)
  /\ UNCHANGED <<limiterVars, urgency, tableVars, stale, late>>

Stored == DOMAIN reviews
Newest(deliveries) == {d \in deliveries : \A e \in deliveries : Commit[e] <= Commit[d]}

(* The columns it wrote become visible, and its lock goes. *)
CommitRow(r) ==
  /\ row' = IF r \in lock
            THEN [f \in {"commit", "size"} |->
                   IF f \in Changed(r) THEN Fields(event[r])[f] ELSE row[f]]
            ELSE row
  /\ lock' = lock \ {r}
  /\ late' = (late \/ \E d \in Stored : Commit[d] > Commit[event[r]])

(* A delivery that is known is answered with the review it has, but what it
   says of the pull request has been written all the same. *)
FindKnown(r) ==
  /\ rpc[r] = "find" /\ event[r] \in Stored
  /\ CommitRow(r)
  /\ Ends(r)
  /\ UNCHANGED <<limiterVars, urgency, reviews, stale>>

FindNothing(r) ==
  /\ RequestGoes(r, "find", "insert")
  /\ event[r] \notin Stored
  /\ UNCHANGED <<limiterVars, urgency, tableVars, event, loaded, seen, stale, late>>

(* github_delivery_id is unique: who flushes second waits for the first. *)
Flush(r) ==
  /\ RequestGoes(r, "insert", "commit")
  /\ event[r] \notin Stored
  /\ \A q \in Requests : rpc[q] = "commit" => event[q] # event[r]
  /\ UNCHANGED <<limiterVars, urgency, tableVars, event, loaded, seen, stale, late>>

CommitReview(r) ==
  /\ rpc[r] = "commit"
  /\ reviews' = [d \in Stored \cup {event[r]} |-> IF d = event[r] THEN Review(d, seen[r]) ELSE reviews[d]]
  /\ CommitRow(r)
  /\ Ends(r)
  /\ UNCHANGED <<limiterVars, urgency, stale>>

(* The delivery was stored meanwhile, or the connection or the process is lost:
   the transaction is rolled back. *)
RollBack(r) ==
  /\ rpc[r] # "idle"
  /\ lock' = lock \ {r}
  /\ Ends(r)
  /\ UNCHANGED <<limiterVars, urgency, row, reviews, stale, late>>

SetUrgency ==
  /\ \E u \in Urgencies : urgency' = u
  /\ UNCHANGED <<limiterVars, tableVars, requestVars, stale, late>>

Tick ==
  /\ now < MaxTime
  /\ now' = now + 1
  /\ UNCHANGED <<hits, sends, passed, refused, urgency, tableVars, requestVars, stale, late>>

Serve(r) ==
  \/ \E c \in Clients, d \in Deliveries : Arrive(r, c, d)
  \/ Load(r) \/ Write(r) \/ InsertConflicts(r)
  \/ FindKnown(r) \/ FindNothing(r) \/ Flush(r) \/ CommitReview(r) \/ RollBack(r)

Next == (\E r \in Requests : Serve(r)) \/ SetUrgency \/ Tick

Spec == Init /\ [][Next]_vars

-----------------------------------------------------------------------------
(* Every variable stays in its range: a score between nothing and the largest
   change of the most urgent repository, whatever the administrator set. *)
TypeOK ==
  /\ now \in 0 .. MaxTime
  /\ sends \in [Deliveries -> Nat]
  /\ hits \in [Clients -> Seq(0 .. MaxTime)]
  /\ passed \in [Clients -> Seq(0 .. MaxTime)]
  /\ refused \subseteq [client: Clients, at: 0 .. MaxTime]
  /\ urgency \in Urgencies
  /\ row \in Rows /\ lock \subseteq Requests
  /\ Stored \subseteq Deliveries
  /\ \A d \in Stored : reviews[d].score \in 0 .. Full + UrgencyWeight
  /\ rpc \in [Requests -> {"idle", "load", "write", "find", "insert", "commit"}]
  /\ event \in [Requests -> Deliveries \cup {"none"}]
  /\ loaded \in [Requests -> Rows]
  /\ seen \in [Requests -> Urgencies]
  /\ {stale, late} \subseteq BOOLEAN

(* The limiter lets no more than Cap requests of an address pass in any window,
   and refuses one only where that many did (ratelimit.py:36-50). *)
Spaced(c) ==
  \A i \in DOMAIN passed[c] :
    i + Cap <= Len(passed[c]) => passed[c][i + Cap] - passed[c][i] >= Window

WasFull(x) ==
  Cap <= Cardinality({i \in DOMAIN passed[x.client] :
            x.at - Window < passed[x.client][i] /\ passed[x.client][i] <= x.at})

LimiterIsExact == (\A c \in Clients : Spaced(c)) /\ (\A x \in refused : WasFull(x))

(* The head and the counts of the pull request are those of one delivery,
   unless a request wrote over a row that changed after it had loaded it. *)
RowIsOneDeliverys ==
  stale \/ row = NoRow \/ \E d \in Stored : row = Fields(d)

(* The row shows the newest commit of the stored deliveries, unless an older
   one was committed after it or wrote over a row it had not seen. *)
HeadIsNewest ==
  stale \/ late \/ \A d \in Newest(Stored) : row.commit = Commit[d]

-----------------------------------------------------------------------------
(* What makes the limiter exact: it has forgotten only what left the window,
   and remembers the rest in its order. *)
Forgotten(c) == Len(passed[c]) - Len(hits[c])

Remembers(c) ==
  /\ Forgotten(c) >= 0
  /\ \A i \in DOMAIN hits[c] : hits[c][i] = passed[c][Forgotten(c) + i]
  /\ \A i \in 1 .. Forgotten(c) : passed[c][i] <= now - Window
  /\ \A i, j \in DOMAIN passed[c] : i <= j => passed[c][i] <= passed[c][j]
  /\ \A i \in DOMAIN passed[c] : passed[c][i] <= now

LimiterRemembers == \A c \in Clients : Remembers(c)

LimiterInvariant == LimiterRemembers /\ LimiterIsExact

-----------------------------------------------------------------------------
(* What makes the other two hold: a row that is locked stays as its holder loaded it,
   a request without the lock has nothing to write, and rows and reviews come
   into being together. *)
Writing(r) == rpc[r] \in {"find", "insert", "commit"}

LockHolds ==
  /\ \A r \in lock, q \in lock : r = q
  /\ \A r \in lock : /\ Writing(r)
                     /\ loaded[r] = NoRow => row = NoRow
                     /\ ~ stale => row = loaded[r]

RequestsAreSound ==
  \A r \in Requests :
    /\ rpc[r] # "idle" => event[r] \in Deliveries
    /\ Writing(r) => r \in lock \/ loaded[r] = Fields(event[r])
    /\ loaded[r] # NoRow => row # NoRow
    /\ ~ stale /\ ~ late => loaded[r].commit <= row.commit

RowsAreSound ==
  /\ row = NoRow <=> Stored = {}
  /\ ~ stale /\ ~ late => \A d \in Stored : Commit[d] <= row.commit

IntakeInvariant == LockHolds /\ RequestsAreSound /\ RowsAreSound /\ RowIsOneDeliverys

-----------------------------------------------------------------------------
(* A claim of the documents that the code does not keep: "Upsert is idempotent"
   on a replayed delivery (ARCHITECTURE.md:226). It moves the head back. *)
ReplayChangesNothing ==
  [][\A r \in Requests : rpc[r] = "find" /\ event[r] \in Stored => row' = row]_vars
=============================================================================
