-------------------------- MODULE RepositorySettings --------------------------
(***************************************************************************)
(* The admin API of one repository: a settings patch reads the settings,   *)
(* merges, writes the whole of them back and records an audit row; a rerun *)
(* creates a review, hands it to the queue and records an audit row.  Each *)
(* of these is a transaction or a call of its own, and requests overlap.   *)
(* Composed with RepositoryMemory, whose rebuilds read the settings.       *)
(***************************************************************************)
EXTENDS Integers, Sequences, FiniteSets, Functions

CONSTANTS
  Admins,      \* requests served at the same time
  Patches,     \* what a caller sends: sections cleared, and fields per section
  Initial,     \* review_settings at the beginning
  Loads        \* bound: the mixes of requests that are looked at

Nothing == << >>

ASSUME SettingsAssumption ==
  /\ Loads \subseteq [admin : Nat, feedback : Nat, reviews : Nat]
  /\ \A p \in Patches : p.clear \cap DOMAIN p.put = {}

VARIABLES
  settings,  \* repositories.review_settings: section -> field -> value
  reruns,    \* the MANUAL_RERUN reviews: the urgency that scored each
  sent,      \* those handed to the queue
  audit,     \* admin_audit_log
  apc,       \* where a request is
  patch,     \* what it wants
  before,    \* the settings it read
  entry,     \* the audit row it is to record
  left,      \* requests to come
  unaudited  \* history: rows of requests that died or whose dispatch failed

adminVars == <<apc, patch, before, entry>>
settingsVars == <<settings, reruns, sent, audit, adminVars, unaudited>>

NoPatch == [clear |-> {}, put |-> Nothing]
Row(kind, from, to) == [kind |-> kind, before |-> from, after |-> to]
NoRow == Row("none", Nothing, Nothing)

Updated(section, fields) ==
  [f \in DOMAIN section \cup DOMAIN fields |->
     IF f \in DOMAIN fields THEN fields[f] ELSE section[f]]

(* Mutants, here and below: forms of the definition that follows with a
   plausible bug, which a property must notice. *)
MergeShallow(current, p) ==
  [s \in (DOMAIN current \cup DOMAIN p.put) \ p.clear |->
     IF s \in DOMAIN p.put THEN p.put[s] ELSE current[s]]

(* _merge_settings: sections merge field by field; a section the caller sets
   to null is null afterwards, which every reader takes for an empty one. *)
Merge(current, p) ==
  [s \in (DOMAIN current \cup DOMAIN p.put) \ p.clear |->
     IF s \notin DOMAIN p.put THEN current[s]
     ELSE IF s \notin DOMAIN current THEN p.put[s]
     ELSE Updated(current[s], p.put[s])]

Field(section, name, default) ==
  IF section \notin DOMAIN settings THEN default
  ELSE IF name \notin DOMAIN settings[section] THEN default
  ELSE settings[section][name]

SettingsInit ==
  /\ settings = Initial
  /\ reruns = << >>
  /\ sent = {}
  /\ audit = {}
  /\ apc = [a \in Admins |-> "idle"]
  /\ patch = [a \in Admins |-> NoPatch]
  /\ before = [a \in Admins |-> Nothing]
  /\ entry = [a \in Admins |-> NoRow]
  /\ unaudited = {}

AdminGoes(a, from, to) == apc[a] = from /\ apc' = [apc EXCEPT ![a] = to]
Forgets(a) ==
  /\ patch' = [patch EXCEPT ![a] = NoPatch]
  /\ before' = [before EXCEPT ![a] = Nothing]
  /\ entry' = [entry EXCEPT ![a] = NoRow]
NextRequest(kind) == left[kind] > 0 /\ left' = [left EXCEPT ![kind] = @ - 1]

-----------------------------------------------------------------------------
(* update_repository_settings *)

(* repository_detail; a patch with an unknown weight is refused after it. *)
ReadSettings(a) ==
  /\ AdminGoes(a, "idle", "patch")
  /\ NextRequest("admin")
  /\ \E p \in Patches : patch' = [patch EXCEPT ![a] = p]
  /\ before' = [before EXCEPT ![a] = settings]
  /\ UNCHANGED <<settings, reruns, sent, audit, entry, unaudited>>

(* patch_repository_settings replaces all of them. *)
PatchSettings(a) ==
  LET merged == Merge(before[a], patch[a])
  IN  /\ AdminGoes(a, "patch", "audit")
      /\ settings' = merged
      /\ entry' = [entry EXCEPT ![a] = Row("settings", before[a], merged)]
      /\ UNCHANGED <<reruns, sent, audit, patch, before, left, unaudited>>

-----------------------------------------------------------------------------
(* rerun_review *)

(* create_rerun_review scores the new review with the urgency of the moment. *)
CreateRerun(a) ==
  /\ AdminGoes(a, "idle", "dispatch")
  /\ NextRequest("admin")
  /\ reruns' = Append(reruns, Field("urgency", "value", 0))
  /\ entry' = [entry EXCEPT ![a] = Row("rerun", Nothing, Len(reruns) + 1)]
  /\ UNCHANGED <<settings, sent, audit, patch, before, unaudited>>

DispatchRerun(a) ==
  /\ AdminGoes(a, "dispatch", "audit")
  /\ sent' = sent \cup {entry[a].after}
  /\ UNCHANGED <<settings, reruns, audit, patch, before, entry, left, unaudited>>

-----------------------------------------------------------------------------
RecordAuditSwapped(a) ==
  /\ AdminGoes(a, "audit", "idle")
  /\ audit' = audit \cup {Row(entry[a].kind, entry[a].after, entry[a].before)}
  /\ Forgets(a)
  /\ UNCHANGED <<settings, reruns, sent, left, unaudited>>

(* record_audit: what the request read, not what it replaced. *)
RecordAudit(a) ==
  /\ AdminGoes(a, "audit", "idle")
  /\ audit' = audit \cup {entry[a]}
  /\ Forgets(a)
  /\ UNCHANGED <<settings, reruns, sent, left, unaudited>>

(* The process dies, the database refuses, or the broker does: the request
   ends, and what it had changed stays without an audit row. *)
AdminFails(a) ==
  /\ apc[a] # "idle" /\ apc' = [apc EXCEPT ![a] = "idle"]
  /\ unaudited' = unaudited \cup ({entry[a]} \ {NoRow})
  /\ Forgets(a)
  /\ UNCHANGED <<settings, reruns, sent, audit, left>>

AdminStep(a) ==
  \/ ReadSettings(a) \/ PatchSettings(a) \/ CreateRerun(a) \/ DispatchRerun(a)
  \/ RecordAudit(a) \/ AdminFails(a)

-----------------------------------------------------------------------------
SettingsOK ==
  /\ reruns \in Seq(Range(reruns))
  /\ sent \subseteq 1 .. Len(reruns)
  /\ apc \in [Admins -> {"idle", "patch", "dispatch", "audit"}]
  /\ patch \in [Admins -> Patches \cup {NoPatch}]
  /\ before \in [Admins -> Range(before)]
  /\ entry \in [Admins -> Range(entry)]
  /\ left \in [admin : Nat, feedback : Nat, reviews : Nat]

(* A field the caller did not touch is what it was, unless another request
   changed it after the caller had read the settings (which loses that change,
   although _merge_settings promises to keep siblings). *)
Touches(p, s, f) == s \in p.clear \/ (s \in DOMAIN p.put /\ f \in DOMAIN p.put[s])
Value(all, s, f) ==
  IF s \in DOMAIN all /\ f \in DOMAIN all[s] THEN <<all[s][f]>> ELSE << >>
Fields == UNION {{<<s, f>> : f \in DOMAIN settings[s]} : s \in DOMAIN settings}

PatchKeepsOthers ==
  \A a \in Admins : apc[a] = "patch" /\ apc'[a] = "audit" =>
    \A q \in Fields : LET s == q[1] f == q[2]
      IN  \/ Touches(patch[a], s, f)
          \/ Value(settings', s, f) = Value(settings, s, f)
          \/ Value(before[a], s, f) # Value(settings, s, f)

UntouchedFieldsStay == [][PatchKeepsOthers]_settingsVars

(* The settings in effect and every rerun can be found in the audit log,
   except by what a failing request left behind. *)
ChangesAreAudited ==
  LET rows == audit \cup unaudited \cup {entry[a] : a \in Admins}
  IN  /\ settings = Initial \/ \E r \in rows : r.kind = "settings" /\ r.after = settings
      /\ \A n \in 1 .. Len(reruns) : \E r \in rows : r.kind = "rerun" /\ r.after = n

(* Why: a request that has changed nothing yet holds no row, so that the rows
   it has are never lost; the one that dispatches holds that of its rerun. *)
RowsAreKept ==
  \A a \in Admins :
    /\ apc[a] \in {"idle", "patch"} => entry[a] = NoRow
    /\ apc[a] = "dispatch" => entry[a].after \in 1 .. Len(reruns)

-----------------------------------------------------------------------------
(* A claim of the code that it does not keep: "a partial update never clobbers
   sibling values the caller did not touch" (admin.py:146-148). *)
SiblingsAreKept ==
  [][\A a \in Admins : apc[a] = "patch" /\ apc'[a] = "audit" =>
       \A q \in Fields : ~ Touches(patch[a], q[1], q[2]) =>
         Value(settings', q[1], q[2]) = Value(settings, q[1], q[2])]_settingsVars

=============================================================================
