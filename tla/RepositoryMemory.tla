--------------------------- MODULE RepositoryMemory ---------------------------
(***************************************************************************)
(* What a repository remembers.  A feedback request stores its event and   *)
(* rebuilds the memory snapshot from all the events that are young enough; *)
(* the decision layer of a review uses the snapshot, or builds it when     *)
(* there is none, and embeds the coding standards that are not yet stored. *)
(* The rebuild is four transactions without a lock, so that rebuilds, and  *)
(* a rebuild and a change of the settings it depends on, overlap.          *)
(***************************************************************************)
EXTENDS RepositorySettings

CONSTANTS
  Events,      \* identities of feedback: review, finding, outcome, commit, author
  Handlers,    \* feedback requests served at the same time
  Deciders,    \* reviews in their decision layer at the same time
  Standards,   \* the hashes of the active coding standards
  Tau,         \* arum_temporal_decay_days
  DayStep,     \* granularity of the clock
  MaxDay       \* bound: the clock

None == -1
Writers == Handlers \cup Deciders

ASSUME MemoryAssumption ==
  /\ Handlers \cap Deciders = {}
  /\ {Tau, DayStep, MaxDay} \subseteq Nat
  /\ None \notin Events

(* DecayPatch takes an integer for the days. *)
DaysAreANumber(all) ==
  "decay" \in DOMAIN all /\ "temporal_decay_days" \in DOMAIN all["decay"] =>
    all["decay"]["temporal_decay_days"] \in Int

ASSUME DecayAssumption == \A all \in {Initial} \cup {p.put : p \in Patches} : DaysAreANumber(all)

VARIABLES
  day,        \* the clock
  stored,     \* developer_feedback: the day of an event, None without a row
  memory,     \* repository_memory: the snapshot and its version, or NoMemory
  embedded,   \* embeddings of standards: hash, owner and number of each row
  wpc,        \* where a writer is
  own,        \* what it has read so far
  overtaken,  \* history: events a rebuild did not know of although they were stored
  abandoned,  \* history: events whose rebuild failed
  expired     \* history: events a rebuild found too old, all there were

writerVars == <<wpc, own>>
memoryVars == <<day, stored, memory, embedded, writerVars, overtaken, abandoned,
                expired>>
repositoryVars == <<settingsVars, memoryVars, left>>

Recorded == {e \in Events : stored[e] # None}
NoMemory == [version |-> 0, counted |-> {}, tau |-> 0, built |-> 0]

(* Of a writer: the event it was sent, the decay it applies, the events there
   were, those it counts and the day, the version of the row, and the standards
   it has to embed.  Gone when it is idle. *)
Fresh == [event |-> None, tau |-> 0, known |-> {}, counted |-> {}, built |-> 0, row |-> 0,
          missing |-> {}]

Horizon(t) == 3 * t
Age(e) == day - stored[e]

(* Mutants, here and below: forms of the definition that follows with a
   plausible bug, which a property must notice. *)
CountsOlder(e, t) == 0 < Age(e) /\ Age(e) < Horizon(t)

(* aggregate_category_shares *)
Counts(e, t) == 0 <= Age(e) /\ Age(e) < Horizon(t)

MemoryInit ==
  /\ day = 0
  /\ stored = [e \in Events |-> None]
  /\ memory = NoMemory
  \* another repository may have embedded the same text
  /\ \E H \in SUBSET Standards : embedded = {[hash |-> h, here |-> FALSE, nth |-> 1] : h \in H}
  /\ wpc = [w \in Writers |-> "idle"]
  /\ own = [w \in Writers |-> Fresh]
  /\ overtaken = {}
  /\ abandoned = {}
  /\ expired = {}

(* A writer goes on with what it has read, or is idle and forgets it. *)
Goes(w, from, to, read) ==
  /\ wpc[w] = from
  /\ wpc' = [wpc EXCEPT ![w] = to]
  /\ own' = [own EXCEPT ![w] = IF to = "idle" THEN Fresh ELSE read]

-----------------------------------------------------------------------------
(* record_feedback: a caller may send again what it sent before. *)
Submit(h) ==
  /\ \E e \in Events : Goes(h, "idle", "look up", [Fresh EXCEPT !.event = e])
  /\ NextRequest("feedback")
  /\ UNCHANGED <<day, stored, memory, embedded, overtaken, abandoned, expired>>

(* create_feedback: an event that is there already is not written again, but
   two at once may both find it missing; the key refuses the second. *)
LookUp(h) ==
  /\ Goes(h, "look up", IF own[h].event \in Recorded THEN "settings" ELSE "create", own[h])
  /\ UNCHANGED <<day, stored, memory, embedded, left, overtaken, abandoned, expired>>

Create(h) ==
  /\ own[h].event \notin Recorded
  /\ Goes(h, "create", "settings", own[h])
  /\ stored' = [stored EXCEPT ![own[h].event] = day]
  /\ UNCHANGED <<day, memory, embedded, left, overtaken, abandoned, expired>>

(* _refresh_repository_memory of the API: the decay of this repository. *)
ReadDecay(h) ==
  /\ Goes(h, "settings", "events",
          [own[h] EXCEPT !.tau = Field("decay", "temporal_decay_days", Tau)])
  /\ UNCHANGED <<day, stored, memory, embedded, left, overtaken, abandoned, expired>>

-----------------------------------------------------------------------------
(* _refresh_repository_memory of the decision layer: what is stored is used as
   it is; only where there is none it is built, with the global decay. *)
Decide(d) ==
  /\ Goes(d, "idle", IF memory = NoMemory THEN "events" ELSE "sync", [Fresh EXCEPT !.tau = Tau])
  /\ NextRequest("reviews")
  /\ UNCHANGED <<day, stored, memory, embedded, overtaken, abandoned, expired>>

Done(w) == IF w \in Handlers THEN "idle" ELSE "sync"

-----------------------------------------------------------------------------
(* The rebuild, of both. *)

(* repository_feedback_events; without any there is nothing to build, and an
   older snapshot stays. *)
ReadEvents(w) ==
  LET young == {e \in Recorded : Age(e) <= Horizon(own[w].tau)}
  IN  /\ Goes(w, "events", IF young = {} THEN Done(w) ELSE "memory",
              [own[w] EXCEPT !.known = Recorded, !.built = day,
                             !.counted = {e \in young : Counts(e, own[w].tau)}])
      /\ expired' = IF young = {} THEN expired \cup Recorded ELSE expired
      /\ UNCHANGED <<day, stored, memory, embedded, left, overtaken, abandoned>>

(* upsert_repository_memory reads the row ... *)
ReadMemory(w) ==
  /\ Goes(w, "memory", "write", [own[w] EXCEPT !.row = memory.version])
  /\ UNCHANGED <<day, stored, memory, embedded, left, overtaken, abandoned, expired>>

(* ... and updates it, with the version it read and one, or inserts it, unless
   another writer has: the key refuses the second row. *)
Conflict(w) == own[w].row = 0 /\ memory # NoMemory

WriteMemory(w) ==
  /\ ~ Conflict(w)
  /\ Goes(w, "write", Done(w), own[w])
  /\ memory' = [version |-> own[w].row + 1, counted |-> own[w].counted, tau |-> own[w].tau,
                built |-> own[w].built]
  /\ overtaken' = (overtaken \cup Recorded) \ own[w].known
  /\ abandoned' = abandoned \ own[w].known
  /\ expired' = expired \ own[w].known
  /\ UNCHANGED <<day, stored, embedded, left>>

(* A writer dies, a statement of it fails, or the key refuses its row: the
   request is answered with an error, the review is diagnosed FAILED. *)
WriterFails(w) ==
  /\ wpc[w] # "idle" /\ Goes(w, wpc[w], "idle", Fresh)
  /\ abandoned' = abandoned \cup ({own[w].event} \ (memory.counted \cup {None}))
  /\ UNCHANGED <<day, stored, memory, embedded, left, overtaken, expired>>

-----------------------------------------------------------------------------
(* _sync_repository_context *)

Here == {r.hash : r \in {q \in embedded : q.here}}
Hashes == {r.hash : r \in embedded}
Rows(H) == {[hash |-> h, here |-> TRUE, nth |-> Cardinality(embedded) + 1] : h \in H}

(* embedding_hashes: only those of this repository. *)
ReadHashes(d) ==
  /\ Goes(d, "sync", IF Standards \subseteq Here THEN "score" ELSE "embed",
          [own[d] EXCEPT !.missing = Standards \ Here])
  /\ UNCHANGED <<day, stored, memory, embedded, left, overtaken, abandoned, expired>>

(* create_embeddings: ON CONFLICT (resource_type, content_hash) DO NOTHING,
   whosever row it is. *)
Embed(d) ==
  /\ Goes(d, "embed", "score", own[d])
  /\ embedded' = embedded \cup Rows(own[d].missing \ Hashes)
  /\ UNCHANGED <<day, stored, memory, left, overtaken, abandoned, expired>>

(* The candidates are scored (see Decision). *)
Score(d) ==
  /\ Goes(d, "score", "idle", Fresh)
  /\ UNCHANGED <<day, stored, memory, embedded, left, overtaken, abandoned, expired>>

DayPasses ==
  /\ day + DayStep <= MaxDay
  /\ day' = day + DayStep
  /\ UNCHANGED <<stored, memory, embedded, left, writerVars, overtaken, abandoned, expired>>

-----------------------------------------------------------------------------
HandlerStep(h) == Submit(h) \/ LookUp(h) \/ Create(h) \/ ReadDecay(h)
DeciderStep(d) == Decide(d) \/ ReadHashes(d) \/ Embed(d) \/ Score(d)
WriterStep(w) == ReadEvents(w) \/ ReadMemory(w) \/ WriteMemory(w) \/ WriterFails(w)

MemoryNext ==
  \/ \E h \in Handlers : HandlerStep(h)
  \/ \E d \in Deciders : DeciderStep(d)
  \/ \E w \in Writers : WriterStep(w)
  \/ DayPasses

RepositoryInit == SettingsInit /\ MemoryInit /\ left \in Loads

RepositoryNext ==
  \/ MemoryNext /\ UNCHANGED settingsVars
  \/ \E a \in Admins : AdminStep(a) /\ UNCHANGED memoryVars

RepositorySpec == RepositoryInit /\ [][RepositoryNext]_repositoryVars

-----------------------------------------------------------------------------
WriterStage == {"idle", "look up", "create", "settings", "events", "memory", "write",
                "sync", "embed", "score"}

Reading ==
  [event : Events \cup {None}, tau : Int, known : SUBSET Events, counted : SUBSET Events,
   built : 0 .. MaxDay, row : Nat, missing : SUBSET Standards]

RepositoryTypeOK ==
  /\ SettingsOK
  /\ day \in 0 .. MaxDay
  /\ stored \in [Events -> (0 .. MaxDay) \cup {None}]
  /\ memory \in [version : Nat, counted : SUBSET Events, tau : Int, built : 0 .. MaxDay]
  /\ wpc \in [Writers -> WriterStage]
  /\ own \in [Writers -> Reading]
  /\ overtaken \cup abandoned \cup expired \subseteq Events
  /\ DaysAreANumber(settings)
  /\ \A a \in Admins : DaysAreANumber(before[a])

(* A snapshot of the events that were known counts e, or was built when e was
   too old for it. *)
Judged(e, counted, tau, built) == e \in counted \/ built - stored[e] >= Horizon(tau)
Covered(e) == memory # NoMemory /\ Judged(e, memory.counted, memory.tau, memory.built)

(* When nobody is rebuilding, the snapshot counts every recorded event that
   was young enough, except what a failed request left to be sent again, what
   a rebuild overtook that had read the events before this one was stored and
   was written after it, and what a rebuild came too late for: all there was
   had grown too old while it was waiting, and the snapshot stayed as it was. *)
EvidenceIsCounted ==
  (\A w \in Writers : wpc[w] = "idle") =>
    \A e \in Recorded \ (overtaken \cup abandoned \cup expired) : Covered(e)

(* Why: until the snapshot covers an event, its handler is on its way to a
   rebuild that will, and a rebuild under way has judged all it knows. *)
Awaited(e) ==
  \E h \in Handlers :
    /\ own[h].event = e
    /\ \/ wpc[h] \in {"settings", "events"}
       \/ wpc[h] \in {"memory", "write"} /\ e \in own[h].known

EvidenceInvariant ==
  /\ \A e \in Recorded : stored[e] <= day
  /\ \A e \in Recorded \ (overtaken \cup abandoned \cup expired) : Covered(e) \/ Awaited(e)
  /\ \A w \in Writers : wpc[w] \in {"memory", "write"} =>
       \A e \in own[w].known :
         e \in Recorded /\ Judged(e, own[w].counted, own[w].tau, own[w].built)

-----------------------------------------------------------------------------
(* Claims of the code that it does not keep. *)

(* "Old decisions fade" (ARUM.md:134): a review uses what was young when the
   snapshot was built, however long ago that was. *)
UsedEvidenceIsYoung ==
  \A d \in Deciders : wpc[d] = "score" =>
    \A e \in memory.counted : Age(e) < Horizon(memory.tau)

(* "Embed the repository's active coding standards" (service.py:626): where
   another repository has the same text it is never stored for this one. *)
StandardsAreRetrievable ==
  \A d \in Deciders : wpc[d] = "score" => Standards \subseteq Here

=============================================================================
