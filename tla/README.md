# MusicEnreachment: TLA+ models, checks and proofs

MusicEnreachment is a personal music library service.  It scans source
folders, analyses each audio file with external providers (AcoustID,
MusicBrainz, LRCLIB), decides on metadata and artwork, and publishes cleaned
copies of the files into an output tree that players read.  One Python process
tree serves an HTTP API and runs pools of worker slots; PostgreSQL holds every
piece of durable state.  Paths below are relative to `src/src/music_ingest/`
unless they start with `src/`.

This directory holds TLA+ modules of the parts whose correctness depends on
order, concurrency or failure, the TLC configurations that check them on small
instances, and proofs that TLAPS checks for every value of the constants.

    tlc -workers 2 -config JobQueuePublish.cfg MCJobQueue.tla
    tlapm JobQueueProofs.tla          # and PublicationJournalProofs, OutputTreeProofs,
                                      # SourceLifecycleProofs, ProviderProofs,
                                      # LyricsFetchProofs, RequestPacingProofs,
                                      # LibraryRecordProofs

`PROJECT.json` lists the runs, the source lines every definition stands for,
the hazards the properties are aimed at, one mutation of the code's model per
property that breaks it, and the theorems.

## 1. The system

### Components

| Component | State it keeps | Operations | What makes it correct |
|---|---|---|---|
| Job queue (`repositories/jobs.py`, `models/workflow.py`, `workers/worker.py`, `workers/support/outcomes.py`) | `processing_jobs`, `job_attempts` rows; partial unique indexes on active jobs | claim with `SKIP LOCKED`, run handler in a savepoint, succeed / retry / quarantine / block, enqueue (coalescing), take over an expired lease, operator requeue | one runner per row; a job row agrees with its attempts; limits hold; one active job per key where an index says so; an attempt and what it enqueues are atomic; every job is settled |
| Publication journal (`services/publication/attempts.py`, `cleanup.py`, `workers/handlers/publication.py`) | `publication_attempts`, `library_publications`, output files, workspaces | reserve, stage, two-rename exposure, recovery, finalization, restore, cleanup, removal | a published file is never lost; one owner per destination; superseded files go; every attempt is settled and cleaned |
| Output relocation (`services/storage.py`, `storage_migration.py`) | `storage_config` with manifest, cursor, phase, generation; two file trees | begin, copy one file, switch, remove one old file; the exclusive relocation gate | the files the library serves exist at every moment; nothing is left behind or published into the old tree |
| Publication directory reconciliation (`services/publication/reconciliation.py`) | none of its own | walk the output tree, report and delete orphans, mark missing outputs | nothing known to the library is deleted; what is missing is made again |
| Source roots (`services/source_roots.py`, `source_boundary.py`) | `source_roots`, mounts | create, switch, remove a root | a root that is away or removed costs no source of another root |
| Intake and source life cycle (`services/intake`, `services/reconciliation.py`, `handlers/reconciliation.py`, `workers/support/outcomes.py`) | sources, locations, revisions | snapshot, walk, plan, apply, replace, disappear, reappear, changed-source requeue, cleanup of current state | a plan applied to newer state takes no file from its source; every file ends with a source that was imported or refused |
| Initial import (`handlers/initial.py`) | evidence rows | inspect, hash, fence on the observed revision | evidence belongs to the revision that was read |
| Provider analysis and folder selection (`handlers/analysis.py`, `handlers/selection.py`, `services/candidates.py`) | candidate runs, release decisions | analyse per provider, wait for all providers, wait for all members of a folder, select, refresh a confirmed identity | every member of a folder is seen by a pass that ran after its analysis; a folder is not split; a refresh writes what was confirmed |
| Matching (`services/matching`) | none | search, browse, details, weigh candidates, choose a release | what is stored is what the servers said, in whatever order they answered |
| Provider adapters and pacing (`adapters/external`, `services/matching/providers.py`, `repositories/persistence.py`) | a schedule row, a pacer and a lock in memory | space requests, retry, bound one lookup | the provider's rate is kept across threads, retries and restarts; every call ends |
| Settings (`services/settings.py`, `api/routers/settings.py`) | `settings` rows, the live snapshot of the process | read, save, apply | what is saved is in force |
| Lyrics (`handlers/lrclib.py`, `services/lyrics`) | lyric columns of the record, evidence, `.lrc` files | fetch, validate, write, settle, reuse an earlier answer | lyrics shown are on disk and belong to the current publication |
| Library records (`services/library/service.py`, `models/library.py`) | records, metadata revisions, source decisions | append revision under the record lock, choose the effective source, refresh selection | what is published is the newest effective decision |
| Recording association, album remap (`services/association`, `album_remap.py`) | record identities | move a source to the record of its recording; move the sources of an album at once under an optimistic token | a moved source carries its revision; a stale token changes nothing; decisions taken from outdated reads undo nothing |
| Source quality policy (`services/quality_policy.py`) | none (pure) | compare technical quality of sources | a strict order; re-evaluation changes nothing |
| Source tag encoding, artwork, tag normalization, copying of one output, media tools, contracts, bootstrap, web UI, test stand | - | - | see section 6 |

### How they interact

- **Everything goes through the queue.**  The scheduler and HTTP endpoints
  enqueue; a worker slot claims, opens a savepoint, calls the handler of the
  job's kind, and commits the claim, the handler's rows and the outcome in one
  transaction.  Handlers enqueue the next stage in that same transaction:
  `filesystem_scan -> acoustid_analysis -> musicbrainz_analysis ->
  candidate_selection -> folder_release_selection -> selection_refresh ->
  final_publish -> lrclib_fetch`.
- **Locks.**  Row locks of job rows, sources and library records; PostgreSQL
  advisory lock 732014902, the relocation gate, taken shared by every
  `run_once` and by whoever takes the storage lock, exclusively by the output
  move, its resume step, a change of source roots and orphan cleanup; advisory
  lock 732014901, the storage lock, which serialises everything that renames or
  unlinks in the output tree; in memory, the request lock of the LRCLIB
  transport.
- **Files and rows.**  `final_publish` only prepares; the maintenance loop
  moves files and commits the journal, one step at a time.
- **Hard behaviours.**  READ COMMITTED visibility (a claimed job still looks
  queued to everybody else); read-then-insert races closed by partial unique
  indexes for some kinds only; a process lost between a rename and its commit;
  several attempts for one destination; a coalesced request that arrives while
  the job it joins has already read its inputs; scans that apply a plan minutes
  after they read; requests to servers in the middle of a transaction that locks
  only part of what it decides by; files and a database that must agree although
  no transaction spans both.

The hazards, each with its line and the properties that cover it, are in
`PROJECT.json`.

## 2. Modules

| Module | Models | Role |
|---|---|---|
| `JobQueue` | the queue at the level of row locks, savepoints, unique indexes and commits | core, proved about |
| `JobLedger` | what the queue promises to a reader of committed rows | abstract specification of `JobQueue` |
| `JobQueueProofs` | the inductive invariant; the recorded attempts; the refinement | TLAPS |
| `PublicationJournal` | attempts, files, crashes and removal | core, proved about |
| `PublicationJournalProofs` | the four safety invariants of the journal | TLAPS |
| `OutputTree` | the output tree as a whole: moves, the relocation gate, orphan removal, sidecars | core, proved about |
| `OutputTreeProofs` | what is served stays on disk, old output goes, sidecars stay | TLAPS |
| `SourceLifecycle` | files, sources, locations, scans, imports, roots | core, proved about |
| `SourceLifecycleProofs` | what a plan may do to newer rows; nobody is forgotten; records continue | TLAPS |
| `FolderSelection` | the enrichment pipeline of one folder up to the selection of its release | core, proved about |
| `CandidateScoring` | the weighing of candidates and the choice of a release, as operators | pure |
| `ProviderLookup` | what the providers are asked about one source, with pages, fan-outs and faults, and what becomes of the answers; extends `CandidateScoring` | core, proved about |
| `ProviderProofs` | both parts of the folder analysis: an album is not split, nobody is overlooked but by joining; what a lookup finds and what a refresh writes | TLAPS |
| `RequestPacing` | the spacing of requests, the retry budget, and how a saved setting comes into force | core, proved about |
| `RequestPacingProofs` | settings in force; the bound of one lookup; the rate | TLAPS |
| `QualityPolicy` | the policy that picks the effective source, as operators | pure, proved about |
| `LibraryRecord` | records, revisions, decisions, remaps, and the chain of jobs that publishes them; extends `QualityPolicy` | core, proved about |
| `LibraryRecordProofs` | the order of qualities and the stability of decisions; whose revision an attempt carries; when an effective source is left; that an idle record is served | TLAPS |
| `LyricsFetch` | the lyrics of one record: fetch, sidecar, evidence | core, proved about |
| `LyricsFetchProofs` | the four safety invariants of the fetch | TLAPS |
| `MCJobQueue`, `MCPublicationJournal`, `MCOutputTree`, `MCSourceLifecycle`, `MCFolderSelection`, `MCProviderLookup`, `MCRequestPacing`, `MCLibraryRecord`, `MCLyricsFetch` | key sets, intents, file names, servers' answers and symmetries of the instances | TLC |

Where two modules meet, each shows the other's part as one step: the journal is
one step of an attempt in `LibraryRecord` and one step of an output in
`OutputTree`; a publication in `SourceLifecycle` and `LyricsFetch` is the
commit that makes it current; a lookup of `LyricsFetch` is a call of
`RequestPacing`.

### JobQueue

State: `state`, `attempts`, `rev`, `ripe` are the committed columns `state`,
the attempt rows, `metadata_revision_id` (or the MusicBrainz identity) and
"`next_attempt_at` / `lease_expires_at` has passed"; `key` is the pair (target,
kind) of each row; `txn[s]` is what session `s` has done and not committed;
`storage` is `StorageConfigRecord.state`.

| Action | Code |
|---|---|
| `Claim` | `run_once` up to the savepoint: gate, storage state, `claim`, provider limit |
| `Finish`, `Retry`, `Quarantine` | the outcome and the single commit of `run_once` |
| `SettleClaim` | `_process` fences, `requeue_changed_source`, `QuarantineSource` |
| `Fail`, `Raise` | an exception rolls the savepoint back and keeps the claim |
| `FollowUp`, `Request` | the SELECT every `enqueue*` starts with, by a handler or a client |
| `Revise`, `Supersede`, `Insert`, `Clash`, `Reread` | the remaining statements of the enqueues, each waiting for the locks PostgreSQL makes it wait for |
| `Requeue` | the destination-conflict cleanup endpoint |
| `CommitClient` | a request's commit |
| `Ripen`, `Crash`, `BeginMigration`, `EndMigration` | the clock, a lost session, an output move |

The model separates each SELECT from the write that depends on it, because the
code is correct only if the locks and indexes close that gap.  A statement
that would wait for a lock is an action that is not enabled.

`JobLedger` is the promise: a successful attempt, the retirement and the
insertion it makes are one step; a failed one adds an attempt and nothing
else; a lost one adds nothing.  The refinement maps committed rows to the
ledger and hides uncommitted ones.

### PublicationJournal

State: `journal`, `intent`, `cleaned` are the attempt rows, `version` the
`library_publications` row of the attempt, `disk`, `staged`, `backup` the
destination files, the workspace output and the displaced file; `op` is the
step whose file changes are done and whose commit is to come.  A crash clears
`op` and leaves the files.

| Action | Code |
|---|---|
| `Reserve`, `CommitPrepared`, `AbandonPrepared` | `final_publish` up to the worker's commit |
| `RejectOwned`, `Recover`, `Displace`, `Place`, `PlaceFails`, `CommitExposed` | `_reconcile_step` for a prepared attempt, `expose_attempt` |
| `Finalize`, `Restore`, `CommitFailed` | `_reconcile_step` for an exposed attempt |
| `EmptyWorkspace`, `Sweep`, `CommitCleaned` | `cleanup_attempt` |
| `Withdraw`, `UnlinkWithdrawn` | removal of a publication by an operator |
| `Crash`, `Damage` | faults |

### OutputTree

`PublicationJournal` looks at one destination closely; `OutputTree` takes an
exposure as one step and looks at everything that holds the relocation gate.

State: `storage` and `journal` are the row of `storage_config` (state, output
root; manifest, hashes, managed files, phase, and for the cursor the set of files
it has passed, in whatever order); `tree` is what lies under each root; `pub`, `lyrics`, `attempt`, `refresh` are the rows of each record;
`removing` and `mover` are requests under way; `task[s]` is what a worker slot
or the maintenance loop is doing.  The gate has no variable of its own: a
session shares or excludes according to the task it is at (`Shares`,
`Excludes`), and one that waits for it exclusively keeps newcomers out, as
PostgreSQL's lock queue does.  Files change at once, rows when the task
commits, and a crash forgets the tasks only.

| Action | Code |
|---|---|
| `Prepare`, `CommitPrepared`, `SeeAttempt`, `Expose`, `Finalize` | `final_publish` and the steps of its attempt |
| `FetchLyrics`, `WriteSidecar`, `SettleLyrics`, `FailJob` | `LrclibHandler`, `write_lrc_atomically` |
| `ClaimSweep`, `Upgrade`, `Sweep`, `CommitSweep` | `PublicationReconciliationHandler`, `reconcile_publication_directory` |
| `AskMove`, `Move` | `StorageService.move_output`, `build_migration` |
| `AskResume`, `CopyFile`, `Switch`, `RemoveOld`, `CommitCursor`, `Complete`, `ResumeFails` | `maintain_storage`, `resume_storage_migration` |
| `Withdraw`, `Unlink` | the two transactions of a removal |
| `Describe`, `Clear`, `Lose`, `Crash` | the media server, an operator, faults |

### SourceLifecycle

A source is named by the hash of inode, size and mtime, so a file and its source
are one value; a file can be at several paths (hard links) and a path can come to
hold another file.  State: `disk` is the world, `root` the configuration and
mounts, `source`, `location`, `job`, `published` the rows, `work` the imports
that are being executed, `scan` what a scan has read and how far its walk is.

| Action | Code |
|---|---|
| `FileChanges`, `FileMoves`, `MountChanges` | whoever writes into the roots |
| `ScanReads`, `ScanVisits`, `ScanApplies` | `snapshot_reconciliation`, the walk, `apply_reconciliation`: plan and every row it writes |
| `ScanClashes`, `ScanFails` | a plan that meets a unique key or a running job; a lost scan |
| `ImportSuperseded`, `ImportRefused`, `ImportFindsChange`, `ImportBegins`, `ImportSettles`, `ImportRejects`, `ImportFails`, `ClaimFails` | the claim fences, `requeue_changed_source`, and the outcomes of an import |
| `Publish` | a publication of an imported source |
| `RootSwitches`, `RootRemoved`, `RootCreated` | the source roots endpoints |
| `Reprocess`, `Associate`, `Cleanup` | operators: `api/routers/recovery.py`, a new record, `current_state_cleanup` |

The walk is one path at a time and the apply one transaction that uses what was
read before the walk: everything in between may have changed.

### FolderSelection

State: `rows` counts the committed queued or running jobs of each (kind,
target); `work` is what the execution of a job has read and not yet committed;
`run` and `found` are the latest candidate runs and the releases in them that
reach the threshold; `judged` and `release` are what passes have left; `asked`,
`joined`, `gaveUp` remember what the properties speak about.

| Action | Code |
|---|---|
| `Arrive` | a source and its `filesystem_scan`, applied by a reconciliation |
| `RetryProvider` | `requeue_source`, `requeue_provider` |
| `ReadImport`, `CommitImport` | the end of `InitialHandler.handle` |
| `ReadAcoustId`, `CommitAcoustId`, `ReadMusicBrainz`, `CommitMusicBrainz`, `GiveUp` | `AnalysisHandler.handle` |
| `CheckFolder`, `LookUpPass`, `CommitCandidate` | `candidate_selection` and its enqueue |
| `ReadMembers`, `CheckMembers`, `CommitPass` | `folder_release_selection` |

Each job is split into the reads it decides by and its commit, because other
jobs see it as active until then and join it.

### CandidateScoring and ProviderLookup

`CandidateScoring` is the arithmetic: weights per component, families whose
unknown members are left out, an explicit pair at 100, the score of a release
over the members of a folder and the choice with its threshold.  Texts are
compared outside of it: `Agreement` says how well each component of a release
agrees with the file.

`ProviderLookup` follows one source.  State: `queued`, `refresh`, `job` are its
jobs; `ask`, `step`, `ids`, `task`, `got`, `replies`, `result` the lookup that
is being executed; `heard`, `latest`, `stored` the candidates; `decisions`,
`override`, `identity`, `matched`, `final` the record and what reviewers made of
it, which a lookup reads once and does not lock; `tagged`, `miscounted` what a
behaviour is given: whether the file has tags, and for which recordings the server
promises one release more than its pages hold.

A browse takes one page after the other until it has as many releases as the server
counts; an empty page before that ends it as a malformed answer.  A request for
one release may be answered with another that it has been merged into.

| Action | Code |
|---|---|
| `Listen` | the AcoustID stage |
| `StartMusicBrainz`, `Search`, `Begin`, `Browse`, `Expand`, `Detail`, `Resolve`, `CaptureAnalysis` | the MusicBrainz stage: query, search, fan-out of paged browses, fan-out of details, candidate run |
| `StartRefresh`, `PairReply`, `CaptureRefresh` | the refresh of a confirmed pair, up to its final revision, which is refused when the answer is about another release |
| `Crash` | a lost process: the row stays queued |
| `Select` | the folder pass, for this source |
| `ApplyEncoding` | the choice of a tag encoding: queued analyses are superseded, candidates go, the analysis begins again |
| `LoadCandidates` | `load_musicbrainz_release_candidates`: candidates a reviewer asks for, outside of any run |
| `ConfirmCandidate`, `ConfirmRecording`, `Override`, `UpdateIdentity`, `RequestRefresh`, `Reanalyse` | the other reviewer endpoints |

### RequestPacing

Two services pace requests: `metadata` (MusicBrainz, AcoustID) reserves slots in
a row of the database, `lyrics` (LRCLIB) admits one lookup at a time under a lock,
with a pacer in memory and a retry budget.  They share only the settings, so a
behaviour exercises one of them, chosen by `Init`.  State: `now` and `late` the
clock, `call` where each thread is, `nextStart` the next free slot, `lock` and
`lastEnd` of the LRCLIB transport, `saved`, `live`, `save` the settings on disk,
in memory and in the requests that change them.

| Action | Code |
|---|---|
| `StartMetadataGet`, `CheckSwitch`, `ReadInterval`, `ReserveRow` | `DatabaseRequestRateLimiter.wait`, `reserve_next_start` |
| `StartLyricsGet`, `Acquire`, `Begin`, `TakeTurn` | `LiveLrclibTransport.get`, `_RequestPacer.wait_for_turn` |
| `Send`, `Answered`, `RetryLater`, `TryAgain`, `OutOfBudget` | one request and the retries of both transports |
| `StartSave`, `StartMatchingSave`, `LoadRow`, `Commit`, `Apply` | the settings endpoints, which commit and then tell the process |
| `Restart`, `Tick` | the process, the clock |

Time passes only while a call may wait for it, except for `MaxLate` ticks in
all: a late thread is what makes budgets and stale settings interesting.

### QualityPolicy and LibraryRecord

`QualityPolicy` is `evaluate` and its helpers.  The hash over all candidates
that the code stores is the constant operator `SetKey`.

`LibraryRecord` follows a change (an edit, a manual choice, a source that moves
to another record, is imported again or vanishes, a remap, an output that is lost)
until it is published.  State: `owner`, `usable`, `onDisk` are the sources; `decision` the stored effective source
decisions, `revisions` the final revisions in the order of their ids, `current`
and `attempts` the publications and the journal, seen from the record;
`refresh`, `publish` the job rows by record and by source; `waits`, `request`,
`import`, `scan` and the `view` of a publish row are what a transaction has read and
not yet written.  `slips` is history: the records that lost a change in one of the
ways listed below.

| Action | Code |
|---|---|
| `RefreshRun`, `RefreshWaits`, `RefreshResumes` | `selection_refresh`, and its wait for the publish row another record's job is executing |
| `PublishReads`, then one of `PublishStale`, `PublishFails`, `PublishReviewed`, `PublishQuarantines`, `PublishUnchanged`, `PublishConflicts`, `PublishPrepares`, `PublishAborted` | `PublicationHandler.handle`, up to the record's lock and from it to the commit |
| `Expose`, `Finalize`, `FinalizeFails` | `_reconcile_step` as the record sees it |
| `ImportBegins`, then one of `ImportPrepares`, `ImportDefers`, `ImportJudges` with `ImportRejects`, or `ImportEnds` | `InitialHandler.handle` as the record sees it: its own final revision and attempt, written without asking which source is effective; a file whose tags name no recording; the quarantine of a refused one, decided before the record's lock is held; every ending that leaves the record alone |
| `Withdraw`, `Sweep` | `withdraw_current_publication` for an operator; the directory reconciliation, which finds outputs missing and asks for refreshes |
| `Associate`, `Attach` | `SourceAssociationService._associate`, `attach_source` |
| `AssociateFolder` | `associate_automatic_batch` and the final revisions of the folder pass, in its one transaction |
| `RemapReads`, `RemapLists`, `RemapConflicts`, `RemapWrites` | `AlbumRemapService.apply`: the context, the listing of the album, the token checked again under the locks, the association of all tracks in one transaction |
| `EditReads`, `EditWrites`, `SelectReads`, `SelectWrites`, `RequestFails` | the reviewer endpoints for metadata and for the effective source |
| `FileVanishes`, `ScanPlans`, `ScanApplies`, `ScanAborts` | the reconciliation scan, for sources that are gone |
| `Disappear`, `Cleanup` | `mark_disappeared_source`, called by the recovery endpoints for missing files; `current_state_cleanup`, for sources without a location |

The mapped decision row is flushed attribute by attribute (`Flush`): a
transaction that read an old decision overwrites only what it changed.
`EligibleKept` says what that is worth: an effective source that could stay is
left for a strictly better one, or, by a publish or a refused import, for the best
one.  The exceptions it names are the three steps that write what they decided
before they held the lock, a publish and a refused import that changed the decision
themselves and a refresh that waited, when the candidates changed in between
(section 5).

`QuietServed` says that an idle record publishes the latest revision of its
effective source unless it is in `slips` since its last refresh.  The slips are
all the ways the model has to lose a change:

- a refresh that found nothing to do while another attempt was pending, or resumed
  on a row that had ended;
- a request that fell on an executing publish row, or overwrote another record's;
- a publish whose flush leaves another source behind as the effective one, that
  prepares a source that is not effective, an older revision than the journal or the
  publication already has, or nothing because what it read looked published, or that
  was quarantined, conflicted or given up, after which nobody asks for a refresh;
- an attempt that failed, or was overtaken by a later one;
- an import that publishes a source that is not the effective one, or that refuses
  or defers and so leaves another source effective;
- a source that a publish or an import made usable again, in a record it was not
  asked for;
- an attached source; a publication an operator withdrew;
- a source that the cleanup, a recovery endpoint or a scan deleted without a
  refresh of its record.

The first contradicts what the code means to do (section 5); for the others no text
of the repository promises more.  A sweep that finds an output missing and a
published source that disappears are none of them: both ask for a refresh.

### LyricsFetch

State: `record` and `evidence` are the lyric columns of the record, `file` the
sidecars, `pub` the current publication, `publisher` what the finalizing pass has
read of the settings, `job`, `tries` the `lrclib_fetch` row, `fetch` the fetch
under way, `live` and `identity` what others change meanwhile; `swept`, `missed` are
history, what the sweeps of the directory took.

| Action | Code |
|---|---|
| `ReadSwitch`, `Finalize` | `finalize_attempt` with `enqueue_lrclib_fetch`; the switch is read before the record lock |
| `Withdraw`, `ChangeIdentity`, `ChangeSettings`, `DayPasses` | removal, association, settings, the age of an absence |
| `Sweep` | `reconcile_publication_directory`: it unlinks every sidecar (section 5) and makes a publication whose audio is missing inactive, and leaves the lyric columns |
| `SkipDisabled`, `Unusable`, `Start` | the claim and the fences of `LrclibHandler` |
| `Reuse`, `SettleAbsence` | an earlier answer to the same question |
| `Ask`, `AnswerText`, `AnswerNone`, `AnswerError` | the lookup and its validation |
| `Store`, `Raise`, `CommitFailure`, `Crash` | the sidecar and the settlement; a failure rolls back, frees the record, then commits |

## 3. Runs

Every run passes.  Each module with state but `ProviderLookup` has a type
invariant, `TypeOK`; it is proved for `JobQueue`, `PublicationJournal`,
`OutputTree`, `SourceLifecycle`, `FolderSelection` and `LibraryRecord`, and for the
others TLC finds it to hold on the instances below when it is added to their
configuration.

| Run | What it shows |
|---|---|
| `queue_publish` | Rows, attempts, locks and unique indexes stay consistent when two workers, two clients and a takeover interleave on a guarded kind that enqueues an unguarded one. |
| `queue_ledger` | With superseding kinds, a takeover, operator requeues, a move of the output and a crash, committed rows change as `JobLedger` says, the invariant of the proof is one, and every active job is settled. |
| `publication_journal` | Published files, destinations, staged outputs and superseded files stay right with three attempts, two records, two paths, two revisions and two faults. |
| `publication_settles` | Every prepared attempt is settled and cleaned, with revisions of one source that follow each other at one path; or else an attempt is jammed for good, which is divergence 1 and the only way. |
| `output_move` | The library stays served, every writer writes in the right tree, and only a sweep takes a sidecar, when the output is moved twice under workers, orphan sweeps, removals, a crash or a failing copy. |
| `output_move_ends` | A move ends, whoever waits for the gate gets it, and a lost file is published again, with orphan sweeps about. |
| `source_lifecycle` | What a scan may do however stale its plan is; that an undisturbed scan is exact; that a file that changed keeps its record; and that scans and imports end with every file owned by a source that was imported or refused. |
| `folder_selection` | The members of a folder end on one release, nobody is overlooked except by joining a job that has read, in every order of arrivals, analyses, failures, retries and passes. |
| `provider_lookup` | The outcome of a lookup does not depend on the order of answers, every listed release of every page is found and nothing else, a refresh writes the pair it was queued for although releases are merged, and every lookup ends, whatever faults come, however the server counts and whatever reviewers change or load meanwhile. |
| `request_pacing` | Requests never outrun the least delay in force; one LRCLIB lookup is bounded; every call returns; what is saved is in force on disk and in memory, and a disagreement that overlapping saves left ends with the next save alone or restart. |
| `library_record` | An idle record is served after any interleaving of moves, remaps, edits, choices, imports, scans, sweeps, withdrawals, cleanups, stale publishes and late attempts, except through the slips; an effective source that could stay is left only for a better one, or by a step that decided on other candidates; an attempt carries a revision of its own record. |
| `lyrics_fetch` | Promised lyrics have a fetch and are settled; served lyrics are on disk, byte for byte, and belong to the current publication, unless a sweep took the sidecar or the publication; reused answers answer the same question. |

`CHECK_DEADLOCK FALSE` is stated because the systems may stop: the queue when
every job is settled and `MaxJobs` rows are used, the journal when every
attempt is cleaned, the others when nobody asks for anything and nothing is
queued, or when the bound on events is used.

### Bounds and why they are enough

- **One enqueue per transaction.**  Handlers that enqueue several jobs do so
  for different keys, and the interactions are per key.
- `MaxJobs` is 3 in `queue_publish`: a job, the one that replaces it, and one
  more of the same key or of the follow-up kind; it is 2 in `queue_ledger`, whose
  temporal property needs the whole state graph.  All
  races of the queue are between two rows of one key and the row of a claim.
- `MaxAttempts` 2 gives a first, a last and, after a takeover, an over-limit
  attempt; `MaxLog` only bounds operator requeues.  `MaxCrashes` 1 puts one lost
  session at every point of every interleaving.
- Publication: three attempts are one that is exposed, one that is queued
  behind it and one that belongs to another record or revision; two paths are
  needed for a move; two faults cover "crash, then crash during recovery".
- Output: one record is an album with an audio file, a sidecar and an `.nfo`,
  hence one managed, one unmanaged and one foreign file in every manifest;
  records meet only in the gate, which two workers and the maintenance loop
  contend for.  Two roots and two moves take the output away and back, so that a
  stale root becomes a valid one again; two versions are a republication.
- Sources: two files at two paths below two roots let a file replace another,
  be linked twice, move between roots and be seen through one root only; three
  events (`MaxEvents`; a request counts for two, one to reprocess a replaced
  source for one) put a change of the world and a request, or three changes of
  the world, at any points of a scan and an import.  `Generation` 3 leaves a fresh
  record for every request.
- Folder: two members are what a barrier can defer between and what a pass can
  see apart; two releases let the choice of one pass differ from that of another.
  Two requests (`MaxRequests`) re-analyse a member that has been through the
  pipeline, or both members, at any point of it.
- Lookup: two recordings and three releases, one of them unofficial and one with
  a data track; a page of two makes one recording fit its page exactly and the
  other need a second; either may be counted one too many, so that an empty page
  comes first or last; two requests at once are a fan-out that has to wait for
  three details.  Two events are two faults, or a fault and a reviewer, or a merged
  release and a reviewer.
- Pacing: delays 0 and 1 of a tick, one the default; the hints 0 and 3 lie inside and
  beyond the retry budget of 2 (timeout 1, two attempts); one late tick;
  `MaxEvents` 8 are two calls (3 each) and a save or restart (2), one call and
  two of them, or four of them.
- Library: two sources of different quality and two records, one published and
  one a provider's, let a source join, leave, empty and fill a record.  Three changes
  (`MaxChanges`: moves, imports, vanishing files, withdrawals, sweeps, cleanups,
  reviewer requests; a remap and a folder's association, which move several sources,
  a cleanup, a lost or withdrawn output, and an import that refuses or publishes its
  file count for two) are what every slip needs at most; with three revisions no further
  association, remap, edit or import begins to write one, but those begun and the
  recovered revisions still come.  Three attempts leave room for one to overtake
  another; refreshes and publishes are not bounded.  Both sources start at one path,
  edits put the output at the other and imports at either, so that it moves or
  collides; one pair of record and path does not fit, so that a publish is sent to
  review and flushes its decision without preparing anything, which is the way to
  the exception of `EligibleKept`.
- Lyrics: two stems are a publication that moves; three inputs are two durations,
  which the texts fit or not, and an untagged file; two identities and two
  configurations can change and change back; two tries are a retry and the last;
  four events and two faults are two publications, a removal or a sweep and a change,
  with a crash or failed write in two of their fetches.
- Liveness runs bound crashes and faults: the properties hold only if faults
  stop, and a bounded number of them says exactly that.

### Fairness

- Queue: strong fairness of `Claim`, since a slot polls for ever and
  `SKIP LOCKED` only makes it skip rows that are locked now; weak fairness of a
  worker's own steps (a handler's external calls have timeouts); strong fairness
  of statements that wait for a lock (PostgreSQL queues waiters); weak fairness
  of the clock and of the end of an output move.  Requests, operators, crashes
  and the beginning of a move have none.
- Journal: `reconcile_attempts` visits every uncleaned attempt on each pass and
  tries again what was deferred because a lock was busy, hence strong fairness
  of a step's beginning and weak fairness of its continuation.  Reservations,
  removals and faults have none.
- Output: weak fairness of a handler's own steps; strong fairness of the steps
  that meet other holders of the gate and were seen by the maintenance loop,
  which polls for ever; weak fairness of `Move` and of the resume step, because
  a waiter for the exclusive gate keeps newcomers out and is therefore enabled
  until served; strong fairness of the publication of a record that a sweep put
  into `refresh` (a queued job is claimed, see `queue_ledger`).  Failing copies
  are bounded by `MaxFaults`: a move ends only if its disk recovers.
- Sources: weak fairness of the scan's own steps, since scans are scheduled
  periodically and a walk goes on; strong fairness of `ScanApplies`, as a scan that
  clashed is repeated; strong fairness of the claim of each import and of its end,
  which other sessions' locks and failed attempts interrupt.  Changes of files,
  operators, failures and lost scans have none.
- Lookup, lyrics: weak fairness of the worker as a whole: a queued job is claimed
  and every request of a transport ends (`EveryGetReturns`).  Reviewers, crashes
  and changes of settings have none.
- Pacing: weak fairness of the clock and of each call's next step.  A thread is
  scheduled, and `requests` ends with an answer or its timeout.  The lock needs no
  strong fairness here because calls are bounded; nobody has to call or save.

## 4. Proofs

### The job queue

`JobQueueProofs`, from the assumptions of `JobQueue` (`BoundsAssumption`,
`KindAssumption`, `SessionAssumption`), for all sets of sessions and keys and all
bounds:

- `TypeCorrect`, `IndInvHolds`, `RowsAreExclusive`,
  `GuardedKeysAreUnique`.  `OneActivePerGuardedKey` is about committed rows and
  is not inductive: a transaction that has passed the index check may commit next
  to another.  `IndexInv` therefore counts uncommitted entries as well and allows
  exactly one exception, a session that has retired one row and inserted its
  replacement.  That exception is harmless only while that session holds the
  lock of the row it retired (`ExclusiveRows`), knows which row it read
  (`SeenInv`), and its claim still is an active row of another key (`ClaimInv`);
  `PhaseInv` and `RowInv` say what a session may hold at each point and that a
  row number is taken once.  The proof reduces the actions to three shapes: a
  session gains or changes holdings without a new entry (`QuietStep`), rolls
  back (`UndoStep`), commits (`CommitStep`), and treats `Insert` apart.
  `KindAssumption` asks that no handler enqueues its own guarded key;
  `MCJobQueue`'s instances and the handlers' enqueue calls satisfy it.
- `RecordsAgree` and `BudgetRespected`, from `IndInv` and
  `LogInv`: a row that is not committed has no attempts (`Unrecorded`), an
  operator's open transaction only reopens a settled row (`Reopened`), and a
  handler that rejects its source enqueues nothing (`Rejected`).  Without the
  second a commit could append an attempt to a row that is being reopened.
- `LedgerImplemented`.  Every step but a commit changes no
  committed row and is a stutter of the ledger; each kind of commit is one step
  of it, for which `IndInv` shows that the retired and the inserted row are the
  only ones of their key.

### The publication journal

`PublicationJournalProofs`, from `JournalAssumption`: `PublishedSafe`,
`PreparedKept`, `ExposedAlone`, `JournalTyped`, by `JournalInv`.  That a published
file is safe depends on what lies at every path and who may touch it next:
`FilesInv` (an output is at its own destination or in a workspace of an attempt
for that destination), `RowsInv` (the rows of one attempt), `ExposedInv` (under an
exposed attempt lies its own output, or what it displaced), `OwnerInv` (a path has
one current publication, and a prepared attempt displaces only one of its own
record), `SafeInv` (what a pending attempt displaced is safe with it), and `OpInv`
with `Takes`: the destination taken by a step whose rows are not committed stays
its own until the commit or the crash, after which recovery finds the same files.
`SupersededGone` adds `SupersededInv`: the file of a superseded publication is
only where some attempt is still to remove it, and a restore puts it back only
together with its row.

### The output tree

`OutputTreeProofs`, from `TreeAssumption`, for any records, workers, roots, kinds of
job and bounds: `PublicationsServed` (`PublishedServed`), `OldOutputRemoved`
(`OldOutputGone`), `TreeTypes` and `SidecarsStay` (`SidecarsKept`): whatever else
happens, the only step that takes a sidecar whose record is synced is the sweep's
walk (divergence 2).  That a
file is where its row says is not inductive: a session that has read the root, or
exposed a file and not committed, must find everything as it left it.  `TaskInv`
says what each session knows while it holds the gate (the root in use is the one
it read, its record has no other session, its attempt is in place) and that an
exclusive holder is alone; `PubInv` that every row, open attempts included, names
the root in use; `MoveInv` what lies under both roots while the output moves:
before the rows switch (`Copying`) the old root is what its manifest recorded,
because nobody shares the gate and no attempt is open; after (`Cleaning`) the new
root has all of it and the old one has lost the managed files that were passed,
so that at the end none is left.  An orphan is never a file of a row (`NoOrphan`).

### Sources and scans

`SourceLifecycleProofs`, from `SourceAssumption` and `RowAssumption` (a row is not
the value that stands for no row), for any files, paths, roots and bounds:
`OtherRootsKept`, `SteadyFilesKept`, `UndisturbedScanIsExact`, `NobodyIsForgotten`,
`RecordsContinue` and `SourceTypes`.  The invariant says that rows belong together
(`RowsInv`: no jobs of a source that is gone, imports only of sources that exist)
and what a scan has read is of one moment (`ReadInv`) and, path by path, what its
walk saw there then or now (`WalkInv`): a steady path still is what was found, and
an undisturbed scan's view is the present.  The rest is about one step, the
apply, and says for each file what the plan makes of its row and its location.
`RecordsContinue` needs that among the candidates for a file's predecessor one
can be chosen, which is where finitely many files are used.

### The selection of a folder's release

`ProviderProofs`, from `FolderAssumption`, for any members, releases,
configured providers and number of requests: `AlbumIsNotSplit` (`OneRelease`),
`MembersLostOnlyByJoining` (`LostOnlyByJoining`), `JobTypes`.  `WorkInv` says for each
kind of job what its execution may have read and what it will leave behind,
`RowsInv` which jobs can exist, `PassInv` that a pass that has loaded the folder has
loaded every placed member and nobody overtakes it, from which the release it
chooses is the one already there.  That nobody is overlooked is `Progress`: a member
that is being analysed has a job that is bound to continue (`FlowInv`), and a
member whose latest run no pass has judged is waited for (`Coming`) by jobs that
collect, by a `candidate_selection` that will still check, by a pass that has yet to
read, or by one that has read every such run (`Covers`).  The proof showed that
`gaveUp` has one more way to come about than the first version of the model said:
an AcoustID stage that is retried where AcoustID is not configured counts as
collection and ends without a follow-up.

### The lookup of one source

`ProviderProofs`, from `ProviderLookupAssumption` (what the servers list is well
formed, and an identifier names a recording or a release, not both), for any
lists, counts, answers and bounds: `ResultIsInOrder` (`ResultInOrder`),
`FanOutFindsAll` (`AllIsFound`), `RefreshIsConfirmed` (`RefreshWritesConfirmed`),
by `LookupInv`.  `PagesInv` says that a recording whose browse ended well has got
all the server lists, which neither a wrong count nor an empty page can cut short.
`ReplyInv` says that a request is answered once (`Apart`), by whichever of the two
fan-outs it belongs to, so that the second cannot change what the first one said,
and that the details are only asked for when every recording has answered well;
`AskInv` that a refresh still is for the pair in its row and that only an
overtaken one can be for another than the record's; that what it writes is this
pair, and not a release the server answered with instead, is the refusal in
`CaptureRefresh`.  The order of the request survives the dropping of repetitions
because every place is taken by one first occurrence (`PlacesTaken`,
`DedupeType`).

### Lyrics

`LyricsFetchProofs`, from the assumptions of `LyricsFetch`: `SyncedOnDisk`,
`SyncedIsCurrent`, `EvidenceIsTrue`, `PromiseKept`, by `LyricsInv`: while a fetch
holds the record, its publication is the current one and its job is open
(`HeldInv`); the settings it read are those in force, or have changed, or have
changed twice (`AskedInv`, which is why `EvidenceAnswers` excludes `slipped`); what
it wrote is on disk, valid, and answers for that publication (`TextInv`); stored
evidence is about its key's input (`EvidenceInv`); and no fetch is open once lyrics
are bound (`SyncedInv`), without which a fetch could overwrite the sidecar of
synced lyrics.  The sweep is a step like the others: what it unlinked is in `swept`
until a fetch writes there again, and lyrics whose publication it made inactive are
those of the last one made (`missed`).

### Pacing and settings

`RequestPacingProofs`, from `DelayAssumption`, `NoneAssumption`,
`TimeoutAssumption` and `BoundAssumption`: `SettingsApplied`, by `SettingsInv`
(while a save is alone, the row is what it loaded, and memory is what the row is if it
will not tell the process); `LookupBounded`, by `ClockInv`: the call that holds the lock is at
most as late as its place allows (`OnTime`): it waits for a moment known since
the place was entered, and every tick beyond it is one of `late`, which never
exceeds `MaxLate`; and `RequestsPaced` (`RateHeld`), by `PaceInv`: slots given out
have moved the next free one by the least delay each, and by any moment to come no
more of them fall due than delays have passed, and one.  Counting the requests that
have left is not inductive, since a late thread leaves after later slots.

### The quality policy and the library records

`LibraryRecordProofs`, for every finite set of candidates and every stored decision:
`OnlyBetterReplaces`: a source that stays eligible is replaced only by one whose
tuple is strictly greater than the one it was chosen for; `ManualChoiceHolds`: a
manual choice survives re-evaluation over the same candidates;
`EvaluationSettles`: a decision under the current policy version is a fixed point,
so the evaluations that every refresh, publish and association makes cannot
alternate.  They rest on the comparison being a strict total order of tuples
(`GreaterAsymmetric`, `GreaterTransitive`, `GreaterTotal`) and on measured facts
being counts, which `_positive` checks; that `min` over the eligible candidates
exists (`BestExists`) is proved by the candidate that the fewest others precede.

For the chain of jobs, from `LibraryRecordAssumption` (finitely many sources with
measured counts) and `KeyAssumption` (the hash of the candidates is as good as the
candidates): `AttemptsOwn` (`AttemptsOwnTheirRevision`) and `EligibleSourceKept`
(`EligibleKept`), by `Inv` and `ImportInv`.  `LogInv`: a publish row names a revision
of its source, perhaps one written for another record, which is why the publish
compares once it holds the lock; a waiting refresh has a revision to publish whatever
is appended meanwhile (`Grows`); a deletion takes the mentions of a source from all
rows at once.  `DecisionInv` and `ImportInv`: what an executing publish, a waiting
refresh or a refusing import decided, it decided by the policy for some candidates of
its record (`DecidedFor`), from whose key it follows whether they are today's.  While
a refresh waits nobody else decides for its record, but sources may join, leave or
lose their eligibility, by an import too: hence the exception for it.  Each deciding
step is then one of four: it evaluates what the record has now
(`DecidedAgainJustified`), resumes (`RefreshJustified`), flushes
(`PublishFlushesJustified`, `PublishPreparesJustified`) or refuses
(`ImportJustified`).

`QuietIsServed` (`QuietServed`) is the longest argument of the project.  That an idle
record is served is far from inductive, so `ServeInv` (`ChainInvariant`) says where a
change is before the chain is idle.  `Carried`: a record that no refresh is to decide
again has an eligible source, and the latest revision of it is in one of four places
(`OnItsWay`): the queued publish row (`InQueue`); an executing publish that read the
record when it had that source and that revision (`InHand`, so that it is neither
superseded nor foreign when it holds the lock); an attempt that comes after every
other pending one of the record (`InJournal`, since the journal's passes finalize in
order); or the publication, with everything still pending already overtaken
(`InPlace`).  That an attempt carries the latest revision is not taken for granted: an
import puts a newer one past a queued row, and the publish of that row is then a slip
(`Outdated`), of which the proof needs exactly this case.  `Waiting`: what a waiting
refresh decided is a sound decision for the source it waits for.  `Sound`: decisions
are of the current policy and name sources that are in the database, which the
foreign key guards.  `OwnCurrent` ties a publication to its revision, so that a refresh
that finds nothing to do is right.  Each action has its lemma; most rest on a frame:
`GrowthServes` for what appends revisions and asks for refreshes, `RowStepServes` and
`GoneServes` for what ends a publish row, `JournalKept` for a pass of the journal,
`DeletesServe` for the scan, the recovery endpoints and the cleanup, `ImportDecided`
for the endings of an import, `AsideServes` for the rest.  The proof needs
`PublishedAssumption`: what an installation has published at the start it published
from an eligible source, as every publish does.  `TypesHold` follows from both
invariants.

### Only model-checked

Liveness (fairness and `ENABLED` are out of the prover's reach).

## 5. Known divergences

What the models and the reading of the code showed to differ from what a
comment, a test or a document says.  Each property that meets one of them names
the exception in its comment.

1. **A half-moved attempt can block maintenance for ever**
   (`services/publication/attempts.py:142`).  A crash between the two renames,
   followed by an older preparation for the same record and path, leaves an
   attempt whose backup and target both exist; each pass raises `ValueError`
   there, the later attempts of the pass are not visited and every operation that
   waits for cleaned attempts stays refused, although the comment at
   `attempts.py:327` and `src/tests/publication/test_publication_pool_races.py`
   take recovery for certain.  No published file is lost.  The run
   `publication_settles` meets it: with revisions of one source that follow each
   other at one path `AttemptsSettle` is false without its second disjunct, which
   names such an attempt (`Jammed`), and that is the only way an attempt is not
   settled.  It also holds with the larger `MixedIntents` of the safety run, which
   takes longer than a run of this project should.
2. **Orphan removal deletes lyrics** (`services/publication/reconciliation.py:118`).
   The sidecar's path is stored relative to the output root and is made absolute
   from the working directory of the process, so no sidecar is recognised: a
   sweep unlinks the `.lrc` files of current publications while their records
   still say `synced`.  The test
   (`src/tests/publication/test_publication_reconciliation.py:112`) stores an
   absolute path, which no code does.  `SidecarsKept` says, and `SidecarsStay`
   proves, that the sweep is the only step that does so.  The same sweep makes a
   publication whose audio is missing inactive and leaves its lyric columns
   (`reconciliation.py:85`): `SyncedMatchesFile` and `LyricsOfCurrent` name both
   (`swept`, `missed`).
3. **A folder pass can overlook a member** (`workers/handlers/selection.py:236`).
   The pass loads the members' candidates before it checks that nobody is still
   being analysed, and a later request for a pass joins one that is being
   executed.  An analysis that commits after the load, or after the pass has
   decided to return early, is seen by no pass, although `selection.py:353` and
   `src/tests/workers/test_processing_worker.py:160` expect the last member to
   bring one about.  `LostOnlyByJoining` holds: no other order of the barrier's
   steps loses a member.
4. **A refresh overlooks the attempt that is on its way**
   (`workers/handlers/selection.py:170`).  `selection_refresh` compares the new
   decision with the current publication only.  A reviewer selects source B, its
   attempt is prepared, the reviewer selects source A again: A is still what is
   published, the refresh records "no change", and then the attempt for B is
   finalized, which does not look at the decision.  B stays published and no job
   is left that would notice.  One of the slips of `QuietServed`.
5. **A source can stay without an import** (`services/reconciliation.py:350`,
   `workers/support/outcomes.py:170`).  A published source that disappeared and is
   seen again becomes `needs_review` with its import settled, and no scan queues
   one; a replaced source whose file is put back is claimed by nobody, since its
   row stays `replaced`; a blocked import is overlooked when another settled job
   of the source sorts after it.  `src/tests/runtime/test_reconciliation.py:218`
   describes the return of a file as the return of its source.  `NobodyForgotten`
   and `FilesSettle` name these exceptions.
6. **Automatic association ignores an override of the recording**
   (`services/association/service.py:125`).  Neither the batch nor the single
   association reads `association_override`: the next folder pass moves the source
   away from the record a reviewer put it in.  The test that says otherwise
   (`src/tests/library/test_recording_association.py:617`) passes because its request
   names no release, which is refused before anything is compared.
7. **Overlapping saves of settings** (`api/routers/settings.py:272`).  Each save
   commits and then applies what it committed; two that overlap may apply in the
   other order, and `PUT /api/settings/matching` writes back the other values as
   it read them.  Disk and memory then differ until the next save or restart,
   while `adapters/external/lrclib.py:150` says that a saved change applies
   without a restart.  `SavedIsLive` says how long: until a `PUT /api/settings` that
   has no other save beside it, or a restart, whatever came before.

Smaller facts that the models contain:

- Queue: `enqueue` (`repositories/jobs.py:401`) says it creates or coalesces one
  queued job of a kind for a source, but two concurrent transactions both insert
  one of a kind without a partial unique index (the handlers tolerate the
  duplicate); `workers/README.md` says `run_once` does not commit, it does
  (`worker.py:190`); it also says a selection refresh publishes synchronously in
  its own attempt, while `handlers/selection.py:185` enqueues a `final_publish`;
  `requeue_source` (`repositories/jobs.py:102`) promises both provider stages, but
  without AcoustID the job it queues returns before it queues MusicBrainz.
- Sources: a stale plan enters a changed file under the record its predecessor had
  at the snapshot; a path that only `source_path` claims gets no location row, so
  that `current_state_cleanup` takes its source for vanished;
  `mark_disappeared` looks at `source_path` only; `os.walk` ignores an unmount in
  the middle of a walk.
- Lookup: a re-analysis during an outage captures a newer empty run, which hides
  the candidates of the older one (`services/candidates.py:169`); an answer 200
  that cannot be parsed counts as "found nothing" (`musicbrainz.py:79` of
  `services/matching`); without release details the artist of a candidate is
  compared with itself (`musicbrainz_mapping.py:20`); a search rank of at most 1
  is taken for a fraction (`musicbrainz_mapping.py:82`); an untagged file that
  AcoustID knows is searched with an empty query (`evidence.py:155`);
  `musicbrainz_lookup_ids` pairs a confirmed release with the last AcoustID
  candidate (`services/candidates.py:382`); a refresh reads the identity once, so
  a reviewer's change during its requests is overwritten by the older pair
  (`handlers/analysis.py:217`, `overtaken`).
- Pacing: an unreachable LRCLIB "cannot pin a worker slot" (`lrclib.py:299`) holds
  for the lookup that has the lock, those behind it wait for it without bound; a
  response that trickles in is not bounded by the timeout; the `Retry-After` of
  `LiveTransport` is unbounded and is not shared between callers; a lowered delay
  leaves slots reserved under the longer one.
- Lyrics: the rollback of a failed fetch frees the record before the failure is
  committed, so that a publication may join a fetch that is then blocked, and
  stays `pending` until the next one (`recover_blocked_lrclib_fetches` has no
  caller); the switch is read before the record lock, so that `none` may be
  written although the provider was switched on; settings that change and change
  back during a lookup let evidence of other settings be stored (`slipped`);
  reuse does not move the evidence to the new path; the sidecar of a withdrawn
  publication stays; two records whose audio differs in its suffix only would
  share a sidecar.
- Decisions: a publish evaluates its record before it holds the lock
  (`workers/handlers/publication.py:66`) and flushes the result afterwards.  If a
  better source is attached meanwhile, the flush takes the record away from it, and
  no refresh follows when the publish is sent to review (`EligibleKept`, `slips`).
  The quarantine of a refused import decides before it holds the lock, too
  (`workers/support/outcomes.py:126`).  An accepted import publishes the file's own
  tags whichever source is effective (`workers/handlers/initial.py:207`), so that a worse source can
  replace what its record publishes until something asks for a refresh.
- Remap: an album shows one source per record (`services/library/service.py:917`)
  and is listed before the locks are taken; the token, checked under them, covers
  what is listed.

## 6. Not modelled

- Normalization of tags, decoding of tag encodings, comparison of texts: data of
  one source, deterministic, without state.  What the choice of an encoding does to
  jobs and candidates is `ApplyEncoding` of `ProviderLookup`.
- Copying, naming and verifying one output inside the handler: the journal sees a
  staged file or a failed attempt.  Artwork: one file per release, written under
  the shared gate by one writer.
- Media tools and the wire side of provider adapters: subprocesses, file formats,
  HTTP headers, size limits.  The models see a success or a classified failure.
- Groups of sources and their webhooks, uploads of single paths, the listing of
  nested roots; the evidence rows an import writes; original and provider layers
  of revisions, consolidation of records and the catalog views; the recovery of an
  older revision (`api/library_access.py`); the preview of a remap.
- The deletion of journal rows by a scan that finds a source gone
  (`services/reconciliation.py:614`): `LibraryRecord` marks the attempt, the
  journal's module has no scan, so what remains on disk is not modelled.
- Of the records: sources that intake adds later (`Init` has all there are); a second
  import at the same time; the rows of an empty record that the cleanup deletes, which
  stay here as an empty record; a candidate that a reviewer confirms, which decides
  again and, for a release, asks for a refresh as an edit does.  Every source is
  confirmed: a record's recording is never taken away once it has one.  Quarantined
  and disappeared sources are one flag, `usable`, because the policy treats them
  alike; the quarantine by an analysis job is that of an import.  The return of a
  vanished file is in `SourceLifecycle` only: the scan makes its source eligible again
  (`services/reconciliation.py:507`) and decides nothing, which is one more way to
  leave a record as it is until something else asks.
- A release that is merged into another between the page that lists it and its
  details: `PairReply` and `LoadCandidates` are where the code tells them apart.
- Bootstrap wiring, schema, contracts, web UI, test stand: presentation, or no
  state that several actors change.
- Loss of power (fsync order): a crash is the loss of a process.

## 7. Plan

Done, in the order of importance: the queue with its ledger and proofs, the
journal with its proofs, the output tree, folder selection, the quality policy and
library records with album remaps, the life cycle of sources, provider lookup and
scoring, pacing and settings, lyrics.

Left:

1. The recovery of an older revision and the consolidation of records as further
   actions of `LibraryRecord`.
2. A scan in `PublicationJournal`, for the journal rows it deletes.
3. Groups and webhooks of sources.
