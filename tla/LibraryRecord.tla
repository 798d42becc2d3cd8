--------------------------- MODULE LibraryRecord ---------------------------
(***************************************************************************)
(* A library record is one track; sources are the files that carry it.     *)
(* The policy decides which source is effective, the edits append          *)
(* immutable final revisions, and a chain of jobs carries a change to the  *)
(* published copy: a selection_refresh of the record decides and asks for  *)
(* a final_publish of the effective source, the final_publish prepares a   *)
(* publication attempt, and the journal makes it the current publication.  *)
(* Sources move between records (association), are imported again, vanish  *)
(* from disk and are deleted; outputs are withdrawn or lost.  Every link   *)
(* of the chain runs in a transaction of its own.                          *)
(*                                                                         *)
(* A transaction is one step, except where the code reads before it holds  *)
(* the lock it writes under: a final_publish, an import, the two reviewer  *)
(* endpoints and the reconciliation scan are a read step and a write step, *)
(* and a refresh whose publish row is locked by the executing job waits.   *)
(***************************************************************************)
EXTENDS Integers, SequencesExt, QualityPolicy

CONSTANTS Record, Source, Path,
          Media,            \* the media facts of each source
          InitialRecord,    \* the record intake gave each source
          InitialPath,      \* where the tags of its first final revision put the output
          EditPaths,        \* where the tags of a reviewer's edit put it
          ProviderRecord,   \* the records whose first final revision a provider wrote
          Published,        \* the records whose first revision is already published
          Fits,             \* the pairs (record, path) whose tags carry the record's identity
          NoRecord, Nothing,
          MaxRevisions,     \* with so many, no source moves by association, no edit begins, no import publishes
          MaxAttempts,      \* bound of the journal
          MaxChanges        \* how often a source moves, vanishes or is imported, an output is lost, a reviewer
                            \* acts; what moves several sources, a cleanup, a lost output, and an import that
                            \* refuses or publishes its file count for two

ASSUME LibraryRecordAssumption ==
  /\ Source \subseteq Nat \ {0} /\ IsFiniteSet(Source) /\ NoSource = 0
  /\ \A s \in Source : {Media[s].depth, Media[s].rate, Media[s].channels, Media[s].bitrate} \subseteq Nat
  /\ NoRecord \notin Record
  /\ InitialRecord \in [Source -> Record] /\ InitialPath \in [Source -> Path] /\ EditPaths \subseteq Path
  /\ ProviderRecord \subseteq Record /\ Published \subseteq Record /\ Fits \subseteq Record \X Path

VARIABLES
  owner,      \* the record each source belongs to, NoRecord once its rows are deleted
  usable,     \* FALSE while intake_state is quarantined or disappeared
  onDisk,     \* whether the file is there
  decision,   \* the effective source decision of each record
  revisions,  \* the final revisions, in the order of their ids
  current,    \* the current publication of each record
  attempts,   \* the publication journal, in the order of creation
  refresh,    \* whether a selection_refresh of the record is queued
  waits,      \* the source whose locked publish row the executing refresh waits for
  publish,    \* the final_publish row of each source
  request,    \* a reviewer request between its read and its write
  import,     \* the import of a source between its read and its write
  scan,       \* a reconciliation scan between its snapshot and its apply
  changes,    \* bound: how many of the changes of the environment happened
  slips       \* history: the records that lost a change after their last refresh

vars == <<owner, usable, onDisk, decision, revisions, current, attempts, refresh, waits, publish,
          request, import, scan, changes, slips>>

Pending == {"prepared", "exposed"}

Max0(S) == IF S = {} THEN 0 ELSE CHOOSE m \in S : \A n \in S : n <= m

Members(r) == {s \in Source : owner[s] = r}

\* What the policy reads of the sources of a record, given who owns them and which are usable.
Candidate(s, isUsable) ==
  [id |-> s, codec |-> Media[s].codec, depth |-> Media[s].depth, rate |-> Media[s].rate,
   channels |-> Media[s].channels, bitrate |-> Media[s].bitrate, confirmed |-> TRUE,
   state |-> IF isUsable THEN "present" ELSE "quarantined", disappeared |-> FALSE]
CandidatesIn(owners, usables, r) == {Candidate(s, usables[s]) : s \in {m \in Source : owners[m] = r}}

Candidates(r) == CandidatesIn(owner, usable, r)

\* The sources that could be effective for r.
Choosable(r) == {c.id : c \in EligibleOf(Candidates(r))}

\* What is already published was published from an eligible source.
ASSUME PublishedAssumption ==
  \A r \in Published : EligibleOf(CandidatesIn(InitialRecord, [s \in Source |-> TRUE], r)) # {}

\* The key stands for a hash over every fact of every candidate.
ASSUME KeyAssumption ==
  \A owners, others \in [Source -> Record \cup {NoRecord}], usables, uses \in [Source -> BOOLEAN], r \in Record :
    SetKey(CandidatesIn(owners, usables, r)) = SetKey(CandidatesIn(others, uses, r))
      => CandidatesIn(owners, usables, r) = CandidatesIn(others, uses, r)

Columns == {"source", "baseline", "version", "quality", "key"}

\* Mutant: the whole decision is written, with what was read and not changed.
FlushAll(stored, loaded, new) == new
\* The stored decision is mapped by attribute: a flush writes only what the session changed.
Flush(stored, loaded, new) ==
  [f \in Columns |-> IF new[f] = loaded[f] THEN stored[f] ELSE new[f]]

LatestFinal(r, s) == Max0({i \in DOMAIN revisions : revisions[i].record = r /\ revisions[i].source = s})
LatestAnywhere(s) == Max0({i \in DOMAIN revisions : revisions[i].source = s})
ProviderFinal(r) == Max0({i \in DOMAIN revisions : revisions[i].record = r /\ revisions[i].provider})

Revision(r, s, path, provider) == [record |-> r, source |-> s, path |-> path, provider |-> provider]
Publication(s, i) == [source |-> s, revision |-> i, path |-> revisions[i].path]
NoPublication == [source |-> NoSource, revision |-> 0, path |-> Nothing]

NoRow == [state |-> "none", revision |-> 0, view |-> Nothing]
Row(i) == [state |-> "queued", revision |-> i, view |-> Nothing]
Executing(s) == publish[s].state = "running"

\* Only a waiting refresh holds a record's row lock between two steps.
Locked(r) == waits[r] # Nothing

PathTaken(path, r) == \E q \in Record \ {r} : current[q].path = path
Awaited(s) == \E r \in Record : Locked(r) /\ waits[r].source = s
\* An attempt already in the journal that publishes something else for r than revision i of s.
OthersPending(r, s, i) ==
  \E a \in DOMAIN attempts : /\ attempts[a].record = r /\ attempts[a].state \in Pending
                              /\ <<attempts[a].source, attempts[a].revision>> # <<s, i>>
\* An attempt or the publication of r has a later revision of s than i.
Outdated(r, s, i) ==
  \/ \E a \in DOMAIN attempts : /\ attempts[a].state # "deleted" /\ attempts[a].record = r
                                /\ attempts[a].source = s /\ attempts[a].revision > i
  \/ current[r].source = s /\ current[r].revision > i
HasPending(r) == \E i \in DOMAIN attempts : attempts[i].record = r /\ attempts[i].state \in Pending

Asked(refreshes, rs) == [r \in Record |-> IF r \in rs THEN TRUE ELSE refreshes[r]]

\* The record a source can be chosen for again, which no refresh is queued for.
Regained(s) == {q \in {owner[s]} : ~usable[s]}

Changed == changes < MaxChanges /\ changes' = changes + 1
ChangedTwice == changes + 2 <= MaxChanges /\ changes' = changes + 2

InitialSources == SetToSeq(Source)

Init ==
  /\ owner = InitialRecord
  /\ usable = [s \in Source |-> TRUE]
  /\ onDisk = [s \in Source |-> TRUE]
  /\ revisions = [i \in 1..Cardinality(Source) |->
       LET s == InitialSources[i]
       IN  Revision(InitialRecord[s], s, InitialPath[s], InitialRecord[s] \in ProviderRecord)]
  /\ decision = [r \in Record |->
       Evaluate(CandidatesIn(InitialRecord, [s \in Source |-> TRUE], r), NoDecision, NoSource)]
  /\ current = [r \in Record |->
       IF r \in Published
       THEN LET i == CHOOSE i \in DOMAIN revisions : InitialSources[i] = decision[r].source
            IN  [source |-> InitialSources[i], revision |-> i, path |-> InitialPath[InitialSources[i]]]
       ELSE NoPublication]
  /\ attempts = <<>>
  /\ refresh = [r \in Record |-> r \notin Published]
  /\ waits = [r \in Record |-> Nothing]
  /\ publish = [s \in Source |-> NoRow]
  /\ request = Nothing
  /\ import = Nothing
  /\ scan = Nothing
  /\ changes = 0
  /\ slips = {}

-----------------------------------------------------------------------------
(* selection_refresh: under the record's lock, decide and ask for a publish *)

Recovers(r, s) == LatestFinal(r, s) = 0 /\ LatestAnywhere(s) # 0

\* The revision the refresh of r publishes from s: the last of r, or a copy of the last anywhere.
WantedRevision(r, s) == IF Recovers(r, s) THEN Len(revisions) + 1 ELSE LatestFinal(r, s)

RevisionsAfterRefresh(r, s) ==
  IF Recovers(r, s)
  THEN Append(revisions, Revision(r, s, revisions[LatestAnywhere(s)].path, FALSE))
  ELSE revisions

\* Mutant: only a change of source is published, not an edit of its metadata.
PublishesOtherSource(r, d) ==
  /\ d.source # NoSource
  /\ WantedRevision(r, d.source) # 0
  /\ current[r].source # d.source

Publishes(r, d) ==
  /\ d.source # NoSource
  /\ WantedRevision(r, d.source) # 0
  /\ ~(current[r].source = d.source /\ current[r].revision = WantedRevision(r, d.source))

\* The record whose queued request a new request for the same source replaces.
Crossed(s) ==
  {revisions[i].record : i \in {j \in {publish[s].revision} : publish[s].state = "queued"}}

\* The refresh ends: nothing to publish, or the publish row is inserted, or coalesced with a queued one.
RefreshRun(r) ==
  LET d == Evaluate(Candidates(r), decision[r], NoSource)
      s == d.source
      asks == Publishes(r, d)
  IN  /\ refresh[r] /\ ~Locked(r)
      /\ asks => ~Executing(s) /\ ~Awaited(s)
      /\ decision' = [decision EXCEPT ![r] = d]
      /\ refresh' = [refresh EXCEPT ![r] = FALSE]
      /\ revisions' = IF s = NoSource THEN revisions ELSE RevisionsAfterRefresh(r, s)
      /\ publish' = IF asks THEN [publish EXCEPT ![s] = Row(WantedRevision(r, s))] ELSE publish
      /\ slips' = LET kept == (IF asks THEN slips \cup Crossed(s) ELSE slips) \ {r}
                  IN  IF ~asks /\ OthersPending(r, s, LatestFinal(r, s)) THEN kept \cup {r} ELSE kept
      /\ UNCHANGED <<owner, usable, onDisk, current, attempts, waits, request, scan, import, changes>>

\* The row it would coalesce with is locked by the publish executing it for another record.
RefreshWaits(r) ==
  LET d == Evaluate(Candidates(r), decision[r], NoSource)
  IN  /\ refresh[r] /\ ~Locked(r)
      /\ Publishes(r, d)
      /\ Executing(d.source) /\ publish[d.source].view.record # r
      /\ waits' = [waits EXCEPT ![r] = [source |-> d.source, decided |-> d]]
      /\ UNCHANGED <<owner, usable, onDisk, decision, revisions, current, attempts, refresh, publish,
                     request, scan, import, changes, slips>>

\* The executing publish ended: the write falls on its row, which is a finished one unless it retries.
RefreshResumes(r) ==
  LET s == waits[r].source
  IN  /\ Locked(r) /\ ~Executing(s)
      /\ waits' = [waits EXCEPT ![r] = Nothing]
      /\ refresh' = [refresh EXCEPT ![r] = FALSE]
      /\ decision' = [decision EXCEPT ![r] = waits[r].decided]
      /\ revisions' = RevisionsAfterRefresh(r, s)
      /\ publish' = IF publish[s].state = "queued"
                    THEN [publish EXCEPT ![s] = Row(WantedRevision(r, s))] ELSE publish
      /\ slips' = IF publish[s].state = "queued" /\ s \in Choosable(r)
                  THEN (slips \cup Crossed(s)) \ {r} ELSE slips \cup Crossed(s) \cup {r}
      /\ UNCHANGED <<owner, usable, onDisk, current, attempts, request, scan, import, changes>>

-----------------------------------------------------------------------------
(* final_publish: reads the source, its record and its revisions, and only  *)
(* then takes the record's lock, by writing the decision it made            *)

PublishReads(s) ==
  LET r == owner[s]
  IN  /\ publish[s].state = "queued" /\ ~Awaited(s)
      /\ publish' = [publish EXCEPT ![s] =
           [state |-> "running", revision |-> @.revision,
            view |-> [record |-> r, loaded |-> decision[r],
                      decided |-> Evaluate(Candidates(r), decision[r], NoSource),
                      revisions |-> Len(revisions), current |-> current[r]]]]
      /\ UNCHANGED <<owner, usable, onDisk, decision, revisions, current, attempts, refresh, waits,
                     request, scan, import, changes, slips>>

\* The row ends, and the decision it read is flushed over the stored one.
PublishEnds(s, view) ==
  /\ decision' = [decision EXCEPT ![view.record] = Flush(@, view.loaded, view.decided)]
  /\ publish' = [publish EXCEPT ![s] = NoRow]

\* Nobody asks for a publish of the source a publish leaves behind as the effective one.
Diverted(r) == {q \in {r} : decision'[q].source # decision[q].source}

\* What the handler finds once it holds the record's lock.
Superseded(s, view) == view.decided.source \notin {NoSource, s}
\* Mutant: any revision the row names is published.
ForeignUnchecked(s, view) == publish[s].revision > view.revisions
Foreign(s, view) == \/ publish[s].revision > view.revisions
                    \/ revisions[publish[s].revision].record # view.record

\* A decision for a source deleted since it was read is refused by the foreign key: the job is retried.
Writable(loaded, decided) ==
  decided.source \in {NoSource, loaded.source} \cup {s \in Source : owner[s] # NoRecord}

PublishHolds(s) ==
  LET view == publish[s].view
  IN  Executing(s) /\ ~Locked(view.record) /\ Writable(view.loaded, view.decided)

PublishStale(s) ==
  LET view == publish[s].view
  IN  /\ PublishHolds(s) /\ Superseded(s, view)
      /\ PublishEnds(s, view)
      /\ slips' = slips \cup Diverted(view.record)
      /\ UNCHANGED <<owner, usable, onDisk, revisions, current, attempts, refresh, waits, request, scan, import, changes>>

\* The revision is not among the record's: the job is retried, and given up in the end.
PublishFails(s) ==
  LET view == publish[s].view
  IN  /\ PublishHolds(s) /\ ~Superseded(s, view) /\ Foreign(s, view)
      /\ \/ publish' = [publish EXCEPT ![s] = Row(publish[s].revision)] /\ UNCHANGED slips
         \/ publish' = [publish EXCEPT ![s] = NoRow] /\ slips' = slips \cup ({owner[s]} \cap Record)
      /\ UNCHANGED <<owner, usable, onDisk, decision, revisions, current, attempts, refresh, waits, request, scan, import, changes>>

PublishReviewed(s) ==
  LET view == publish[s].view
      path == revisions[publish[s].revision].path
  IN  /\ PublishHolds(s) /\ ~Superseded(s, view) /\ ~Foreign(s, view)
      /\ <<view.record, path>> \notin Fits
      /\ PublishEnds(s, view)
      /\ slips' = slips \cup Diverted(view.record)
      /\ UNCHANGED <<owner, usable, onDisk, revisions, current, attempts, refresh, waits, request, scan, import, changes>>

Ready(s) ==
  LET view == publish[s].view
  IN  /\ PublishHolds(s) /\ ~Superseded(s, view) /\ ~Foreign(s, view)
      /\ <<view.record, revisions[publish[s].revision].path>> \in Fits

\* The file is gone: the source is quarantined and its record decided again; nobody asks for a refresh.
PublishQuarantines(s) ==
  LET view == publish[s].view
      r == view.record
  IN  /\ Ready(s) /\ ~onDisk[s]
      /\ usable' = [usable EXCEPT ![s] = FALSE]
      /\ publish' = [publish EXCEPT ![s] = NoRow]
      /\ decision' =
           LET first == Flush(decision[r], view.loaded, view.decided)
               again == Evaluate(CandidatesIn(owner, usable', r), view.decided, NoSource)
           IN  [decision EXCEPT ![r] = Flush(first, view.decided, again)]
      /\ slips' = slips \cup {r, owner[s]}
      /\ UNCHANGED <<owner, onDisk, revisions, current, attempts, refresh, waits, request, scan, import, changes>>

\* Already published, as far as the handler read, or already on its way.
Redundant(s, view) ==
  LET i == publish[s].revision
  IN  \/ view.current = Publication(s, i)
      \/ current[view.record] = Publication(s, i)
      \/ \E a \in DOMAIN attempts : /\ attempts[a].record = view.record /\ attempts[a].source = s
                                    /\ attempts[a].revision = i /\ attempts[a].state \in Pending

PublishUnchanged(s) ==
  LET view == publish[s].view
  IN  /\ Ready(s) /\ onDisk[s]
      /\ Redundant(s, view)
      /\ view.current = Publication(s, publish[s].revision)
           \/ ~PathTaken(revisions[publish[s].revision].path, view.record)
      /\ PublishEnds(s, view)
      /\ slips' = LET i == publish[s].revision
                      outdated == view.current = Publication(s, i) /\ current[view.record] # view.current
                  IN  (IF outdated \/ OthersPending(view.record, s, i) THEN slips \cup {view.record} ELSE slips)
                        \cup Diverted(view.record)
      /\ UNCHANGED <<owner, usable, onDisk, revisions, current, attempts, refresh, waits, request, scan, import, changes>>

PublishConflicts(s) ==
  LET view == publish[s].view
  IN  /\ Ready(s) /\ onDisk[s]
      /\ view.current # Publication(s, publish[s].revision)
      /\ PathTaken(revisions[publish[s].revision].path, view.record)
      /\ PublishEnds(s, view)
      /\ slips' = slips \cup {view.record}
      /\ UNCHANGED <<owner, usable, onDisk, revisions, current, attempts, refresh, waits, request, scan, import, changes>>

PublishPrepares(s) ==
  LET view == publish[s].view
      r == view.record
      i == publish[s].revision
  IN  /\ Ready(s) /\ onDisk[s]
      /\ ~Redundant(s, view) /\ ~PathTaken(revisions[i].path, r)
      /\ Len(attempts) < MaxAttempts
      /\ attempts' = Append(attempts, [record |-> r, source |-> s, revision |-> i, state |-> "prepared"])
      /\ usable' = [usable EXCEPT ![s] = TRUE]
      /\ publish' = [publish EXCEPT ![s] = NoRow]
      /\ decision' =
           LET first == Flush(decision[r], view.loaded, view.decided)
               again == Evaluate(CandidatesIn(owner, usable', r), view.decided, NoSource)
           IN  [decision EXCEPT ![r] = Flush(first, view.decided, again)]
      /\ slips' = LET kept == IF decision[r].source = s /\ ~Outdated(r, s, i) THEN slips ELSE slips \cup {r}
                  IN  kept \cup Diverted(r) \cup Regained(s)
      /\ UNCHANGED <<owner, onDisk, revisions, current, refresh, waits, request, scan, import, changes>>

\* The worker is lost, or PostgreSQL picks its transaction to break a deadlock: the job runs again.
PublishAborted(s) ==
  /\ Executing(s)
  /\ publish' = [publish EXCEPT ![s] = Row(publish[s].revision)]
  /\ UNCHANGED <<owner, usable, onDisk, decision, revisions, current, attempts, refresh, waits,
                 request, scan, import, changes, slips>>

-----------------------------------------------------------------------------
(* The journal: a pass takes the attempts in order and leaves one alone when *)
(* its record is locked, so a later attempt may come first                   *)

AttemptPath(a) == revisions[attempts[a].revision].path

\* An exposed attempt at the same path goes first, then the oldest.
Reserved(a) ==
  \A b \in DOMAIN attempts \ {a} :
    (attempts[b].state \in Pending /\ AttemptPath(b) = AttemptPath(a)) => attempts[b].state = "prepared" /\ a < b

Expose(a) ==
  LET r == attempts[a].record
  IN  /\ attempts[a].state = "prepared" /\ ~Locked(r) /\ Reserved(a)
      /\ IF PathTaken(AttemptPath(a), r)
         THEN attempts' = [attempts EXCEPT ![a].state = "failed"] /\ slips' = slips \cup {r}
         ELSE attempts' = [attempts EXCEPT ![a].state = "exposed"] /\ UNCHANGED slips
      /\ UNCHANGED <<owner, usable, onDisk, decision, revisions, current, refresh, waits, publish, request, scan, import, changes>>

Overtaken(a) == \E b \in DOMAIN attempts : b > a /\ attempts[b].record = attempts[a].record
                                           /\ attempts[b].state = "finalized"

Finalize(a) ==
  LET r == attempts[a].record
  IN  /\ attempts[a].state = "exposed" /\ ~Locked(r)
      /\ attempts' = [attempts EXCEPT ![a].state = "finalized"]
      /\ current' = [current EXCEPT ![r] = Publication(attempts[a].source, attempts[a].revision)]
      /\ slips' = IF Overtaken(a) THEN slips \cup {r} ELSE slips
      /\ UNCHANGED <<owner, usable, onDisk, decision, revisions, refresh, waits, publish, request, scan, import, changes>>

\* The exposed file does not verify.
FinalizeFails(a) ==
  LET r == attempts[a].record
  IN  /\ attempts[a].state = "exposed" /\ ~Locked(r)
      /\ attempts' = [attempts EXCEPT ![a].state = "failed"]
      /\ slips' = slips \cup {r}
      /\ UNCHANGED <<owner, usable, onDisk, decision, revisions, current, refresh, waits, publish, request, scan, import, changes>>

-----------------------------------------------------------------------------
(* The import of a source: its record is the one read first.  It publishes  *)
(* the file's own tags without asking which source is effective.            *)

ImportBegins(s) ==
  /\ import = Nothing
  /\ owner[s] \in Record
  /\ import' = [source |-> s, record |-> owner[s], view |-> Nothing]
  /\ Changed
  /\ UNCHANGED <<owner, usable, onDisk, decision, revisions, current, attempts, refresh, waits,
                 publish, request, scan, slips>>

\* It leaves the record alone: the path is another's, the source was replaced, the file has no
\* fingerprint, or the worker is lost.
ImportEnds ==
  /\ import # Nothing
  /\ import' = Nothing
  /\ UNCHANGED <<owner, usable, onDisk, decision, revisions, current, attempts, refresh, waits,
                 publish, request, scan, slips, changes>>

\* The file is refused: the record is decided again without it, before its lock is held.
ImportJudges ==
  LET r == import.record
  IN  /\ import # Nothing /\ import.view = Nothing
      /\ import' = [import EXCEPT !.view =
           [loaded |-> decision[r],
            decided |-> Evaluate(CandidatesIn(owner, [usable EXCEPT ![import.source] = FALSE], r),
                                 decision[r], NoSource)]]
      /\ Changed
      /\ UNCHANGED <<owner, usable, onDisk, decision, revisions, current, attempts, refresh, waits,
                     publish, request, scan, slips>>

ImportRejects ==
  LET r == import.record
      s == import.source
      view == import.view
  IN  /\ import # Nothing /\ view # Nothing
      /\ ~Locked(r) /\ Writable(view.loaded, view.decided)
      /\ usable' = [usable EXCEPT ![s] = FALSE]
      /\ decision' = [decision EXCEPT ![r] = Flush(@, view.loaded, view.decided)]
      /\ import' = Nothing
      /\ slips' = slips \cup Diverted(r) \cup {q \in {owner[s]} : decision'[q].source = s}
      /\ UNCHANGED <<owner, onDisk, revisions, current, attempts, refresh, waits, publish, request, scan, changes>>

\* What both endings of an accepted import do to the decision, under the lock of the record.
ImportDecides ==
  LET r == import.record
  IN  /\ import # Nothing /\ import.view = Nothing
      /\ ~Locked(r) /\ onDisk[import.source]
      /\ usable' = [usable EXCEPT ![import.source] = TRUE]
      /\ decision' = [decision EXCEPT ![r] = Evaluate(CandidatesIn(owner, usable', r), @, NoSource)]
      /\ import' = Nothing

\* The tags name no recording and release: the source waits for the providers.
ImportDefers ==
  /\ ImportDecides
  /\ slips' = slips \cup Diverted(import.record) \cup Regained(import.source)
  /\ UNCHANGED <<owner, onDisk, revisions, current, attempts, refresh, waits, publish, request, scan, changes>>

ImportPrepares(path) ==
  LET r == import.record
      s == import.source
      i == Len(revisions) + 1
  IN  /\ ImportDecides
      /\ ~PathTaken(path, r)
      /\ Len(revisions) < MaxRevisions /\ Len(attempts) < MaxAttempts
      /\ revisions' = Append(revisions, Revision(r, s, path, FALSE))
      /\ attempts' = Append(attempts, [record |-> r, source |-> s, revision |-> i, state |-> "prepared"])
      /\ slips' = IF decision'[r].source = s /\ owner[s] = r THEN slips ELSE slips \cup {r} \cup Regained(s)
      /\ Changed
      /\ UNCHANGED <<owner, onDisk, current, refresh, waits, publish, request, scan>>

-----------------------------------------------------------------------------
(* What is published is taken back by an operator, or found missing         *)

Withdraw(r) ==
  /\ current[r] # NoPublication /\ ~Locked(r)
  /\ \A q \in Record : ~HasPending(q)
  /\ ChangedTwice
  /\ current' = [current EXCEPT ![r] = NoPublication]
  /\ slips' = slips \cup {r}
  /\ UNCHANGED <<owner, usable, onDisk, decision, revisions, attempts, refresh, waits, publish, request,
                 import, scan>>

\* No other job executes while the output tree is reconciled.
Alone == import = Nothing /\ (\A s \in Source : ~Executing(s)) /\ \A r \in Record : ~Locked(r)

Sweep ==
  /\ Alone /\ ChangedTwice
  /\ \E lost \in SUBSET {r \in Record : current[r] # NoPublication /\ ~HasPending(r)} \ {{}} :
       /\ current' = [r \in Record |-> IF r \in lost THEN NoPublication ELSE current[r]]
       /\ refresh' = Asked(refresh, lost)
  /\ UNCHANGED <<owner, usable, onDisk, decision, revisions, attempts, waits, publish, request, import,
                 scan, slips>>

-----------------------------------------------------------------------------
(* Association: a source moves to the record of another recording           *)

\* The revision a source takes along when it moves to q: the last of the provider for q, or its own
\* last one for the record it leaves; none when it stays.
Inherited(s, q) ==
  IF owner[s] = q THEN 0
  ELSE IF ProviderFinal(q) # 0 THEN ProviderFinal(q) ELSE LatestFinal(owner[s], s)

\* A transaction moves each source of DOMAIN target to the record target[s].
Moved(target) == [s \in Source |-> IF s \in DOMAIN target THEN target[s] ELSE owner[s]]

Touched(target) == {owner[s] : s \in DOMAIN target} \cup Range(target)

\* The revisions it appends: the inherited ones, and one with the new tags for each tagged source.
\* Those of one source come in this order; between sources the order means nothing.
Brought(target) ==
  LET order == SetToSeq({s \in DOMAIN target : Inherited(s, target[s]) # 0})
  IN  [i \in DOMAIN order |->
         LET s == order[i]
         IN  Revision(target[s], s, revisions[Inherited(s, target[s])].path, FALSE)]
Finals(target, tagged, path) ==
  LET order == SetToSeq(tagged)
  IN  [i \in DOMAIN order |-> Revision(target[order[i]], order[i], path, FALSE)]

\* A record that still has a source, or something published or about to be.
Lives(owners, r) == r \in Range(owners) \/ current[r] # NoPublication \/ HasPending(r)

DecidedAgain(d, owners, r) == Evaluate(CandidatesIn(owners, usable, r), d, NoSource)

Associate(s, q) ==
  LET target == [m \in {s} |-> q]
  IN  /\ owner[s] \in Record \ {q}
      /\ ~Locked(owner[s]) /\ ~Locked(q)
      /\ Len(revisions) < MaxRevisions
      /\ Changed
      /\ owner' = Moved(target)
      /\ revisions' = revisions \o Brought(target)
      /\ decision' = [r \in Record |->
           IF r \in Touched(target) THEN DecidedAgain(decision[r], owner', r) ELSE decision[r]]
      /\ refresh' = Asked(refresh, {q} \cup {r \in {owner[s]} : Lives(owner', r)})
      /\ UNCHANGED <<usable, onDisk, current, attempts, waits, publish, request, scan, slips, import>>

\* folder_release_selection moves the members of a folder to the records of one release in one batch:
\* the decisions follow once all have moved, also for the records of the sources that stay.
AssociateFolder(path) ==
  /\ Len(revisions) < MaxRevisions
  /\ ChangedTwice
  /\ \E moved \in SUBSET {s \in Source : owner[s] # NoRecord} \ {{}} :
     \E target \in [moved -> Record], retagged \in SUBSET moved :
       /\ \A r \in Touched(target) : ~Locked(r)
       /\ owner' = Moved(target)
       /\ revisions' = revisions \o Brought(target) \o Finals(target, retagged, path)
       /\ decision' = [r \in Record |->
            IF r \in Touched(target) THEN DecidedAgain(decision[r], owner', r) ELSE decision[r]]
       /\ refresh' = Asked(refresh, {r \in Touched(target) : Lives(owner', r)})
  /\ UNCHANGED <<usable, onDisk, current, attempts, waits, publish, request, scan, slips, import>>

\* The endpoint that attaches a source to a record: it brings no revision, decides only for the new
\* record and asks for no refresh.
Attach(s, q) ==
  /\ owner[s] \in Record \ {q} /\ ~Locked(q)
  /\ Changed
  /\ owner' = [owner EXCEPT ![s] = q]
  /\ decision' = [decision EXCEPT ![q] = Evaluate(CandidatesIn(owner', usable, q), @, NoSource)]
  /\ slips' = slips \cup {owner[s], q}
  /\ UNCHANGED <<usable, onDisk, revisions, current, attempts, refresh, waits, publish, request, scan, import>>

-----------------------------------------------------------------------------
(* The reviewer: membership is checked on what was read, the write comes    *)
(* under the record's lock                                                  *)

EditReads(s, path) ==
  /\ request = Nothing
  /\ owner[s] \in Record /\ onDisk[s]
  /\ Len(revisions) < MaxRevisions
  /\ request' = [op |-> "edit", record |-> owner[s], source |-> s, path |-> path]
  /\ Changed
  /\ UNCHANGED <<owner, usable, onDisk, decision, revisions, current, attempts, refresh, waits,
                 publish, scan, slips, import>>

EditWrites ==
  /\ request # Nothing /\ request.op = "edit"
  /\ ~Locked(request.record)
  /\ owner[request.source] # NoRecord
  /\ revisions' = Append(revisions, Revision(request.record, request.source, request.path, FALSE))
  /\ refresh' = Asked(refresh, {request.record})
  /\ request' = Nothing
  /\ UNCHANGED <<owner, usable, onDisk, decision, current, attempts, waits, publish, scan, slips, import, changes>>

SelectReads(r, s) ==
  /\ request = Nothing
  /\ Changed
  /\ ManualAllowed(Candidates(r), s)
  /\ request' = [op |-> "select", record |-> r, source |-> s, loaded |-> decision[r],
                 decided |-> Evaluate(Candidates(r), decision[r], s)]
  /\ UNCHANGED <<owner, usable, onDisk, decision, revisions, current, attempts, refresh, waits,
                 publish, scan, slips, import>>

SelectWrites ==
  /\ request # Nothing /\ request.op = "select"
  /\ ~Locked(request.record)
  /\ owner[request.source] # NoRecord
  /\ decision' = [decision EXCEPT ![request.record] = Flush(@, request.loaded, request.decided)]
  /\ refresh' = Asked(refresh, {request.record})
  /\ request' = Nothing
  /\ UNCHANGED <<owner, usable, onDisk, revisions, current, attempts, waits, publish, scan, slips, import, changes>>

\* The source an album shows for a record: its effective one, else the published one, else the first.
TrackSource(r) ==
  CASE decision[r].source \in Members(r) -> decision[r].source
    [] decision[r].source \notin Members(r) /\ current[r].source \in Members(r) -> current[r].source
    [] OTHER -> CHOOSE s \in Members(r) : \A m \in Members(r) : s <= m

Album == {s \in Source : owner[s] \in Record /\ s = TrackSource(owner[s])}

\* What the reviewer saw of the album: whose each source is, and its canonical revision.
Token(album) ==
  [s \in {m \in album : owner[m] # NoRecord} |-> <<owner[s], LatestFinal(owner[s], s)>>]

RemapReads ==
  /\ request = Nothing
  /\ ChangedTwice
  /\ Len(revisions) < MaxRevisions
  /\ Album # {}
  /\ request' = [op |-> "remap", seen |-> Token(Album), album |-> Nothing]
  /\ UNCHANGED <<owner, usable, onDisk, decision, revisions, current, attempts, refresh, waits,
                 publish, scan, slips, import>>

\* The apply lists the album again, before it holds a lock.
RemapLists ==
  /\ request # Nothing /\ request.op = "remap" /\ request.album = Nothing
  /\ request' = [request EXCEPT !.album = Album]
  /\ UNCHANGED <<owner, usable, onDisk, decision, revisions, current, attempts, refresh, waits,
                 publish, scan, slips, import, changes>>

\* The locks of the listed sources, then of their records, are held.
RemapHolds ==
  /\ request # Nothing /\ request.op = "remap" /\ request.album # Nothing
  /\ \A s \in request.album : owner[s] \in Record => ~Locked(owner[s])

RemapConflicts ==
  /\ RemapHolds /\ Token(request.album) # request.seen
  /\ request' = Nothing
  /\ UNCHANGED <<owner, usable, onDisk, decision, revisions, current, attempts, refresh, waits,
                 publish, scan, slips, import, changes>>

\* The assigned sources move one by one, in the order of their ids, and after each its two records are
\* decided and refreshed.  An album lists one source of a record, so a record has at most two turns, when
\* its own leaves and when another one joins; deciding a single turn twice changes nothing.  Each
\* assigned source gets a revision with the tags of its track.
RemapWrites(path) ==
  /\ RemapHolds /\ Token(request.album) = request.seen
  /\ \E assigned \in SUBSET {s \in request.album : owner[s] # NoRecord} \ {{}} :
     \E track \in Injection(assigned, Record) :
       LET owners(s) == Moved([m \in {x \in assigned : x <= s} |-> track[m]])
           turns(r) == {s \in assigned : r \in {owner[s], track[s]}}
           decided(r) == DecidedAgain(DecidedAgain(decision[r], owners(Min(turns(r))), r), owners(Max(turns(r))), r)
           asked == {r \in Touched(track) : \E s \in assigned :
                       r = track[s] \/ (r = owner[s] /\ Lives(owners(s), r))}
       IN  /\ \A s \in assigned : ~Locked(track[s])
           /\ owner' = Moved(track)
           /\ revisions' = revisions \o Brought(track) \o Finals(track, assigned, path)
           /\ decision' = [r \in Record |-> IF r \in Touched(track) THEN decided(r) ELSE decision[r]]
           /\ refresh' = Asked(refresh, asked)
  /\ request' = Nothing
  /\ UNCHANGED <<usable, onDisk, current, attempts, waits, publish, scan, slips, import, changes>>

\* The source is gone from the database: the foreign key refuses the write, and the request fails.
RequestFails ==
  /\ request # Nothing /\ request.op \in {"edit", "select"}
  /\ owner[request.source] = NoRecord
  /\ request' = Nothing
  /\ UNCHANGED <<owner, usable, onDisk, decision, revisions, current, attempts, refresh, waits,
                 publish, scan, slips, import, changes>>

-----------------------------------------------------------------------------
(* The scan: the plan is made from a snapshot and applied later             *)

FileVanishes(s) ==
  /\ onDisk[s] /\ owner[s] \in Record
  /\ onDisk' = [onDisk EXCEPT ![s] = FALSE]
  /\ Changed
  /\ UNCHANGED <<owner, usable, decision, revisions, current, attempts, refresh, waits, publish,
                 request, scan, slips, import>>

ScanPlans ==
  LET gone == {s \in Source : owner[s] \in Record /\ ~onDisk[s]}
  IN  /\ scan = Nothing /\ gone # {}
      /\ scan' = [gone |-> gone, refresh |-> {owner[s] : s \in gone} \ {r \in Record : refresh[r]}]
      /\ UNCHANGED <<owner, usable, onDisk, decision, revisions, current, attempts, refresh, waits,
                     publish, request, slips, import, changes>>

\* Every row of the sources goes, which waits for the jobs that execute them; what only mentions the
\* sources loses the mention.
Deletes(gone, asked) ==
  LET stripped(d) == [f \in Columns |->
                        IF f \in {"source", "baseline"} /\ d[f] \in gone THEN NoSource ELSE d[f]]
      deprived == {owner[s] : s \in gone} \cap Record
  IN  /\ \A s \in gone : ~Executing(s)
      /\ import # Nothing => import.source \notin gone
      /\ \A r \in Record : Locked(r) =>
           gone \cap {waits[r].source, decision[r].source, decision[r].baseline, current[r].source} = {}
      /\ owner' = [s \in Source |-> IF s \in gone THEN NoRecord ELSE owner[s]]
      /\ decision' = [r \in Record |-> stripped(decision[r])]
      /\ revisions' = [i \in DOMAIN revisions |->
           [revisions[i] EXCEPT !.source = IF @ \in gone THEN NoSource ELSE @]]
      /\ current' = [r \in Record |-> [current[r] EXCEPT !.source = IF @ \in gone THEN NoSource ELSE @]]
      /\ attempts' = [a \in DOMAIN attempts |->
           [attempts[a] EXCEPT !.state = IF attempts[a].source \in gone THEN "deleted" ELSE @]]
      /\ publish' = [s \in Source |-> IF s \in gone THEN NoRow ELSE publish[s]]
      /\ refresh' = Asked(refresh, asked)
      /\ slips' = slips \cup {r \in deprived : ~refresh'[r]}

ScanApplies ==
  /\ scan # Nothing
  /\ \A r \in scan.refresh : ~refresh[r]
  /\ Deletes(scan.gone, scan.refresh)
  /\ scan' = Nothing
  /\ UNCHANGED <<usable, onDisk, waits, request, import, changes>>

\* The recovery endpoints find files missing: a source that is published somewhere disappears and its
\* record is asked to decide again, the others are deleted, and nobody asks.
Disappear ==
  \E missing \in SUBSET {s \in Source : owner[s] \in Record /\ ~onDisk[s]} \ {{}} :
    LET published == {s \in missing : \E r \in Record : current[r].source = s}
        asked == {owner[s] : s \in published}
    IN  /\ \A r \in asked : ~Locked(r)
        /\ Deletes(missing \ published, asked)
        /\ usable' = [s \in Source |-> IF s \in published THEN FALSE ELSE usable[s]]
        /\ UNCHANGED <<onDisk, waits, request, import, scan, changes>>

\* The cleanup of the state deletes the sources that have no location left, and asks for nothing.
Cleanup ==
  /\ Alone /\ ChangedTwice
  /\ \E gone \in SUBSET {s \in Source : owner[s] \in Record} \ {{}} : Deletes(gone, {})
  /\ UNCHANGED <<usable, onDisk, waits, request, import, scan>>

\* A refresh was queued meanwhile: the insert breaks the unique index, and the job plans again.
ScanAborts ==
  /\ scan # Nothing
  /\ \E r \in scan.refresh : refresh[r]
  /\ scan' = Nothing
  /\ UNCHANGED <<owner, usable, onDisk, decision, revisions, current, attempts, refresh, waits,
                 publish, request, slips, import, changes>>

-----------------------------------------------------------------------------
Refreshes(r) == RefreshRun(r) \/ RefreshWaits(r) \/ RefreshResumes(r)

PublishFinishes(s) ==
  \/ PublishStale(s) \/ PublishFails(s) \/ PublishReviewed(s) \/ PublishQuarantines(s)
  \/ PublishUnchanged(s) \/ PublishConflicts(s) \/ PublishPrepares(s)

Settles(a) == Expose(a) \/ Finalize(a) \/ FinalizeFails(a)

Next ==
  \/ \E r \in Record : Refreshes(r)
  \/ \E s \in Source : PublishReads(s) \/ PublishFinishes(s) \/ PublishAborted(s)
  \/ \E a \in DOMAIN attempts : Settles(a)
  \/ \E s \in Source : ImportBegins(s)
  \/ ImportEnds \/ ImportJudges \/ ImportRejects \/ ImportDefers
  \/ \E path \in EditPaths \cup Range(InitialPath) : ImportPrepares(path)
  \/ (\E r \in Record : Withdraw(r)) \/ Sweep
  \/ \E s \in Source, q \in Record : Associate(s, q) \/ Attach(s, q)
  \/ \E path \in EditPaths : AssociateFolder(path)
  \/ \E s \in Source, path \in EditPaths : EditReads(s, path)
  \/ \E r \in Record, s \in Source : SelectReads(r, s)
  \/ EditWrites \/ SelectWrites \/ RequestFails
  \/ RemapReads \/ RemapLists \/ RemapConflicts \/ \E path \in EditPaths : RemapWrites(path)
  \/ \E s \in Source : FileVanishes(s)
  \/ ScanPlans \/ ScanApplies \/ ScanAborts \/ Disappear \/ Cleanup

Spec == Init /\ [][Next]_vars

-----------------------------------------------------------------------------
(* Every variable keeps its type: the journal and the revision log only hold rows of this model. *)
TypeOK ==
  /\ owner \in [Source -> Record \cup {NoRecord}]
  /\ usable \in [Source -> BOOLEAN] /\ onDisk \in [Source -> BOOLEAN]
  /\ \A r \in Record : decision[r].source \in Source \cup {NoSource}
  /\ \A i \in DOMAIN revisions : revisions[i].record \in Record /\ revisions[i].path \in Path
  /\ \A r \in Record : current[r].revision \in 0..Len(revisions)
  /\ \A a \in DOMAIN attempts :
       attempts[a].state \in Pending \cup {"failed", "finalized", "deleted"}
  /\ refresh \in [Record -> BOOLEAN] /\ \A r \in Record : Locked(r) => refresh[r] /\ waits[r].source \in Source
  /\ \A s \in Source : /\ publish[s].state \in {"none", "queued", "running"}
                       /\ publish[s].revision \in 0..Len(revisions)

\* Nothing is queued, executing or half done.
Quiet ==
  /\ request = Nothing /\ scan = Nothing /\ import = Nothing
  /\ \A r \in Record : ~refresh[r] /\ ~Locked(r) /\ ~HasPending(r)
  /\ \A s \in Source : publish[s].state = "none"

\* The record publishes the latest final revision of its effective source.
Served(r) ==
  LET s == decision[r].source
      i == LatestFinal(r, s)
  IN  EligibleOf(Candidates(r)) # {} =>
        /\ s \in {c.id : c \in EligibleOf(Candidates(r))}
        /\ (onDisk[s] /\ i # 0 /\ <<r, revisions[i].path>> \in Fits) => current[r] = Publication(s, i)

\* When the chain is idle, each record publishes the latest final revision of its effective
\* source, unless one of the slips the history names befell it after its last refresh.
QuietServed == Quiet => \A r \in Record : r \notin slips => Served(r)

\* An attempt, and so a publication, of a record carries a revision written for that record,
\* from the source it names: publish rows are shared by the records a source moved between.
AttemptsOwnTheirRevision ==
  \A a \in DOMAIN attempts : attempts[a].state # "deleted" =>
    LET i == attempts[a].revision
    IN  revisions[i].record = attempts[a].record /\ revisions[i].source = attempts[a].source

\* A publish of r ends in this step.
PublishOf(s, r) == Executing(s) /\ publish[s].view.record = r /\ publish'[s] # publish[s]

\* It had decided for another source, from candidates that are not those of r any more.
DecidedOnOthers(s) ==
  LET view == publish[s].view
  IN  /\ view.decided.source # view.loaded.source
      /\ view.decided.key # SetKey(Candidates(view.record))

\* A refused import of a source of r ends, which had decided for another source, from candidates that are
\* not those of r any more.
RejectionOf(r) == import # Nothing /\ import.record = r /\ import.view # Nothing /\ import' = Nothing
RejectedOnOthers(r) ==
  LET view == import.view
  IN  view.decided.source # view.loaded.source /\ view.decided.key # SetKey(Candidates(r)')

\* Without a reviewer, a record leaves an effective source that is still eligible only for one strictly
\* better than the quality it has stored.  A publish and a refused import, which flush decisions over
\* newer ones, leave it at worst for the best of the record: what they read and did not change undoes
\* nothing.  The exception are the steps that write what they had decided before, a publish, a refused
\* import and a refresh that waited: they may leave it when the candidates changed since they decided.
EligibleKept ==
  [][\A r \in Record :
       LET s == decision[r].source
       IN  (decision'[r].source # s /\ s \in Choosable(r) /\ s \in Choosable(r)' /\ request' = request)
           => \/ /\ ~\E x \in Source : PublishOf(x, r)
                 /\ decision[r].quality = NoQuality \/ Greater(decision'[r].quality, decision[r].quality)
              \/ \E x \in Source :
                   /\ PublishOf(x, r)
                   /\ DecidedOnOthers(x) \/ decision'[r].source = Best(Candidates(r)').id
              \/ /\ RejectionOf(r)
                 /\ RejectedOnOthers(r) \/ decision'[r].source = Best(Candidates(r)').id
              \/ Locked(r) /\ waits[r].decided.key # SetKey(Candidates(r))]_vars
=============================================================================
