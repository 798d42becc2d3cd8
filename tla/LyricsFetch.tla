---------------------------- MODULE LyricsFetch ----------------------------
(***************************************************************************)
(* The lyrics of one library record: the fetch job that a publication      *)
(* queues, the LRCLIB lookup, the .lrc file beside the published audio,    *)
(* and the evidence by which a later publication reuses the answer.        *)
(*                                                                         *)
(* A fetch is one transaction: the claim, the record lock, the lookup and  *)
(* what it settles become visible together; only the file is written       *)
(* before.  A failure first rolls the savepoint back, which frees the      *)
(* record, and then commits a retry or gives the job up.                   *)
(*                                                                         *)
(* The sweep of the output directory is here as it meets a record; how it  *)
(* comes to take sidecars, and moves of the output, are in OutputTree; the *)
(* space between requests is in RequestPacing.  Bounds: MaxEvents          *)
(* publications, withdrawals, sweeps, changes of settings or identity and  *)
(* days; MaxFaults crashes and failed writes.                              *)
(***************************************************************************)
EXTENDS Integers, Sequences, FiniteSets

CONSTANTS
    Stem,       \* where audio is published, without its suffix; no other record uses them
    Input,      \* what a published file is looked up by: its tags and its duration
    DurationOf, \* the duration of an input; None if it, the title or the artist is unknown
    Identity,   \* the verified identity of the record, or the hash of its source
    Config,     \* settings of the provider that a lookup depends on
    FirstIdentity, FirstConfig,
    Lines,      \* synced texts of the provider, as sequences of lines
    MaxTries,   \* processing.max_attempts
    MaxEvents, MaxFaults,
    None

\* A line that carries text is the sequence of its time stamps.
ASSUME InputAssumption == DurationOf \in [Input -> Nat \union {None}] /\ None \notin Nat
ASSUME FirstAssumption == FirstIdentity \in Identity /\ FirstConfig \in Config
ASSUME LinesAssumption == \A text \in Lines : \A i \in DOMAIN text : text[i] # <<>>
ASSUME BoundAssumption == MaxTries \in Nat \ {0} /\ {MaxEvents, MaxFaults} \subseteq Nat

VARIABLES
    live,       \* the settings in force in the process
    identity,   \* the identity of the record
    pub,        \* the current publication, or None
    made,       \* how many publications there were
    publisher,  \* the pass that finalizes publications: the switch it has read, or None
    record,     \* the lyric columns of the record
    evidence,   \* lyrics_evidence_json, or None
    file,       \* the sidecars on disk
    job,        \* the fetch job of the record
    tries,      \* attempts of that job that are committed
    fetch,      \* the fetch under way
    gaveUp,     \* history: a fetch of the current publication is blocked
    turned,     \* history: how often the settings changed during the fetch, up to 2
    slipped,    \* history: they changed twice in a fetch that then stored evidence
    swept,      \* history: where the sweep took the sidecar and none was written since
    missed,     \* history: the sweep found the audio of the newest publication missing
    events, faults

rows == <<pub, made, record, evidence, job, tries, gaveUp>>
sweeps == <<swept, missed>>
vars == <<live, identity, publisher, rows, file, fetch, turned, slipped, sweeps, events, faults>>

NoLyrics(status) == [status |-> status, pub |-> 0, stem |-> None, text |-> None]
NoFetch == [at |-> "idle", pub |-> None, key |-> None, asked |-> None, text |-> None, reused |-> FALSE]

Spend == events < MaxEvents /\ events' = events + 1
Fail == faults < MaxFaults /\ faults' = faults + 1

\* A fetch holds the record from its first statement to its commit or rollback.
RecordFree == fetch.at \in {"idle", "failed"}

Init ==
    /\ live = [enabled |-> TRUE, config |-> FirstConfig]
    /\ identity = FirstIdentity
    /\ pub = None /\ made = 0
    /\ publisher = None
    /\ record = NoLyrics("none")
    /\ evidence = None
    /\ file = [s \in Stem |-> None]
    /\ job = "none" /\ tries = 0
    /\ fetch = NoFetch
    /\ gaveUp = FALSE /\ turned = 0 /\ slipped = FALSE
    /\ swept = {} /\ missed = FALSE
    /\ events = 0 /\ faults = 0

-----------------------------------------------------------------------------
(* Everybody else: publications, reviewers, settings, time.                *)

\* The switch is read when the pass over the journal starts, before any lock.
ReadSwitch ==
    /\ publisher = None
    /\ publisher' = [enabled |-> live.enabled]
    /\ Spend
    /\ UNCHANGED <<live, identity, rows, file, fetch, turned, slipped, sweeps, faults>>

\* Fault: a fetch that was given up counts as one that will still run.
JobCovers == job \in {"queued", "blocked"}
\* A queued fetch covers the new publication too; one that is settled does not.
JobActive == job = "queued"

\* Fault: a publication becomes current while a fetch holds the record.
FinalizeUnlocked(stem, input) ==
    /\ publisher # None
    /\ pub' = [id |-> made + 1, stem |-> stem, input |-> input]
    /\ made' = made + 1
    /\ record' = NoLyrics(IF publisher.enabled THEN "pending" ELSE "none")
    /\ IF publisher.enabled /\ ~JobActive THEN job' = "queued" /\ tries' = 0 ELSE UNCHANGED <<job, tries>>
    /\ gaveUp' = FALSE
    /\ publisher' = None /\ missed' = FALSE
    /\ UNCHANGED <<live, identity, evidence, file, fetch, turned, slipped, swept, events, faults>>
\* A publication becomes current: no lyrics are bound to it, and a fetch is queued with it.
Finalize(stem, input) ==
    /\ publisher # None /\ RecordFree
    /\ pub' = [id |-> made + 1, stem |-> stem, input |-> input]
    /\ made' = made + 1
    /\ record' = NoLyrics(IF publisher.enabled THEN "pending" ELSE "none")
    /\ IF publisher.enabled /\ ~JobActive THEN job' = "queued" /\ tries' = 0 ELSE UNCHANGED <<job, tries>>
    /\ gaveUp' = FALSE
    /\ publisher' = None /\ missed' = FALSE
    /\ UNCHANGED <<live, identity, evidence, file, fetch, turned, slipped, swept, events, faults>>

\* Withdrawal clears what is bound to the publication; the sidecar stays.
Withdraw ==
    /\ Spend
    /\ pub # None /\ RecordFree
    /\ pub' = None
    /\ record' = IF record.pub = pub.id THEN NoLyrics("none") ELSE record
    /\ UNCHANGED <<live, identity, publisher, made, evidence, file, job, tries, fetch, gaveUp, turned,
                   slipped, sweeps, faults>>

\* The sweep of the output directory, which waits until no job runs.  It takes every sidecar for an
\* orphan (OutputTree), makes a current publication inactive when its audio is missing, and leaves
\* the lyric columns; what was unlinked stays unlinked when the sweep is lost before its commit.
Sweep(missing) ==
    /\ Spend /\ fetch.at = "idle"
    /\ file' = [s \in Stem |-> None]
    /\ swept' = swept \union {s \in Stem : file[s] # None}
    /\ missing => pub # None
    /\ pub' = IF missing THEN None ELSE pub
    /\ missed' = (missed \/ missing)
    /\ UNCHANGED <<live, identity, publisher, made, record, evidence, job, tries, fetch, gaveUp, turned,
                   slipped, faults>>

\* A reviewer or a provider identifies the record anew, or its encoding is no longer verified.
ChangeIdentity ==
    /\ Spend /\ RecordFree
    /\ \E i \in Identity \ {identity} : identity' = i
    /\ UNCHANGED <<live, publisher, rows, file, fetch, turned, slipped, sweeps, faults>>

\* The settings are replaced as a whole, at any time.
ChangeSettings ==
    /\ Spend
    /\ \E new \in [enabled : BOOLEAN, config : Config] \ {live} : live' = new
    /\ turned' = IF fetch.at \in {"idle", "failed"} THEN 0 ELSE IF turned < 2 THEN turned + 1 ELSE 2
    /\ UNCHANGED <<identity, publisher, rows, file, fetch, slipped, sweeps, faults>>

\* A day passes: what was found absent may be there now.
DayPasses ==
    /\ Spend
    /\ evidence # None /\ evidence.outcome = "no_candidate" /\ ~evidence.expired
    /\ evidence' = [evidence EXCEPT !.expired = TRUE]
    /\ UNCHANGED <<live, identity, publisher, pub, made, record, file, job, tries, fetch, gaveUp, turned,
                   slipped, sweeps, faults>>

-----------------------------------------------------------------------------
(* A fetch.                                                                *)

\* The key of an answer: identity, lookup and all settings.
ReuseKey == [identity |-> identity, input |-> pub.input, settings |-> live]

\* Text that may be served for a published file: two lines at least, every stamp inside the
\* duration, and no line that starts before the line above it.
Valid(text, duration) ==
    /\ Len(text) >= 2
    /\ \A i \in DOMAIN text : \A j \in DOMAIN text[i] : text[i][j] \in 0 .. duration
    /\ \A i \in 2 .. Len(text) : text[i][1] >= text[i - 1][1]

\* The job is done: its transaction commits with what the fetch has settled.
Settled(outcome) ==
    /\ record' = NoLyrics(outcome)
    /\ job' = "none" /\ tries' = 0
    /\ fetch' = NoFetch
    /\ turned' = 0
    /\ UNCHANGED <<live, identity, publisher, pub, made, file, gaveUp, sweeps, events, faults>>

Claims == job = "queued" /\ fetch = NoFetch

\* Fault: a fetch waits for its provider to be switched on.
SkipForLater ==
    /\ Claims /\ ~live.enabled /\ record.status = "synced"
    /\ job' = "none" /\ tries' = 0
    /\ UNCHANGED <<live, identity, publisher, pub, made, record, evidence, file, fetch, gaveUp, turned,
                   slipped, sweeps, events, faults>>
\* A provider that is switched off settles the fetch without traffic; validated lyrics stay.
SkipDisabled ==
    /\ Claims /\ ~live.enabled
    /\ Settled(IF record.status = "synced" THEN "synced" ELSE "none")
    /\ UNCHANGED <<evidence, slipped>>

\* No current publication, or one without title, artist or duration.
Unusable ==
    /\ Claims /\ live.enabled
    /\ pub # None => DurationOf[pub.input] = None
    /\ Settled("error")
    /\ UNCHANGED <<evidence, slipped>>

\* The record is locked, its current publication and the settings are read.
Start ==
    /\ Claims /\ live.enabled
    /\ pub # None /\ DurationOf[pub.input] # None
    /\ fetch' = [NoFetch EXCEPT !.at = "keyed", !.pub = pub, !.key = ReuseKey]
    /\ turned' = 0
    /\ UNCHANGED <<live, identity, publisher, rows, file, slipped, sweeps, events, faults>>

Matches(outcome) == evidence # None /\ evidence.key = fetch.key /\ evidence.outcome = outcome

\* The sidecar of the evidence is there, unchanged and valid.
Reusable ==
    /\ Matches("synced")
    /\ file[evidence.stem] = evidence.text
    /\ Valid(evidence.text.lines, DurationOf[fetch.pub.input])
CachedAbsence == Matches("no_candidate") /\ evidence.pub # fetch.pub.id /\ ~evidence.expired

Writes(text, reused) ==
    /\ file' = [file EXCEPT ![fetch.pub.stem] = text]
    /\ fetch' = [fetch EXCEPT !.at = "written", !.text = text, !.reused = reused]
    /\ swept' = swept \ {fetch.pub.stem} /\ UNCHANGED missed

\* Fault: the sidecar of the earlier publication is taken for the one of this.
RebindOnly ==
    /\ fetch.at = "keyed" /\ Reusable
    /\ fetch' = [fetch EXCEPT !.at = "written", !.text = evidence.text, !.reused = TRUE]
    /\ UNCHANGED <<live, identity, publisher, rows, file, turned, slipped, sweeps, events, faults>>
\* The text of an earlier publication is written beside this one.
Reuse ==
    /\ fetch.at = "keyed" /\ Reusable
    /\ Writes(evidence.text, TRUE)
    /\ UNCHANGED <<live, identity, publisher, rows, turned, slipped, events, faults>>

\* Another publication has found nothing less than a day ago.
SettleAbsence ==
    /\ fetch.at = "keyed" /\ ~Reusable /\ CachedAbsence
    /\ evidence' = [evidence EXCEPT !.pub = fetch.pub.id]
    /\ Settled("no_candidate")
    /\ UNCHANGED slipped

\* The lookup reads the settings again.
Ask ==
    /\ fetch.at = "keyed" /\ ~Reusable /\ ~CachedAbsence
    /\ fetch' = [fetch EXCEPT !.at = "asked", !.asked = [fetch.key EXCEPT !.settings = live]]
    /\ UNCHANGED <<live, identity, publisher, rows, file, turned, slipped, sweeps, events, faults>>

\* Text that is valid is written; what is not is rejected.
AnswerText(lines) ==
    /\ fetch.at = "asked"
    /\ IF Valid(lines, DurationOf[fetch.pub.input])
       THEN /\ Writes([asked |-> fetch.asked, lines |-> lines], FALSE)
            /\ UNCHANGED <<live, identity, publisher, rows, turned, slipped, events, faults>>
       ELSE Settled("validation_rejected") /\ UNCHANGED <<evidence, slipped>>

\* Evidence is kept only if the settings are those that the key was made of.
SettingsHeld == live = fetch.key.settings
Slips == slipped' = (slipped \/ (SettingsHeld /\ turned = 2))

AnswerNone ==
    /\ fetch.at = "asked"
    /\ evidence' = IF SettingsHeld
                   THEN [outcome |-> "no_candidate", key |-> fetch.key, pub |-> fetch.pub.id, stem |-> None,
                         text |-> [asked |-> fetch.asked, lines |-> <<>>], expired |-> FALSE]
                   ELSE evidence
    /\ Slips
    /\ Settled("no_candidate")

\* Outages and refusals leave the evidence alone.
AnswerError ==
    /\ fetch.at = "asked"
    /\ Settled("error")
    /\ UNCHANGED <<evidence, slipped>>

\* Fault: evidence is kept whatever happened to the settings during the lookup.
StoreAlways ==
    /\ fetch.at = "written"
    /\ record' = [status |-> "synced", pub |-> fetch.pub.id, stem |-> fetch.pub.stem, text |-> fetch.text]
    /\ evidence' = IF fetch.reused THEN evidence
                   ELSE [outcome |-> "synced", key |-> fetch.key, pub |-> fetch.pub.id, stem |-> fetch.pub.stem,
                         text |-> fetch.text, expired |-> FALSE]
    /\ slipped' = (slipped \/ turned = 2)
    /\ job' = "none" /\ tries' = 0 /\ fetch' = NoFetch /\ turned' = 0
    /\ UNCHANGED <<live, identity, publisher, pub, made, file, gaveUp, sweeps, events, faults>>
\* The lyrics that were written are bound to the publication, the evidence to the lyrics.
Store ==
    /\ fetch.at = "written"
    /\ record' = [status |-> "synced", pub |-> fetch.pub.id, stem |-> fetch.pub.stem, text |-> fetch.text]
    /\ IF fetch.reused \/ ~SettingsHeld THEN UNCHANGED <<evidence, slipped>>
       ELSE /\ evidence' = [outcome |-> "synced", key |-> fetch.key, pub |-> fetch.pub.id, stem |-> fetch.pub.stem,
                            text |-> fetch.text, expired |-> FALSE]
            /\ Slips
    /\ job' = "none" /\ tries' = 0 /\ fetch' = NoFetch /\ turned' = 0
    /\ UNCHANGED <<live, identity, publisher, pub, made, file, gaveUp, sweeps, events, faults>>

\* The file cannot be written, or anything else raises: the savepoint is rolled back.
Raise ==
    /\ Fail
    /\ fetch.at \in {"keyed", "asked", "written"}
    /\ fetch' = [NoFetch EXCEPT !.at = "failed"]
    /\ turned' = 0
    /\ UNCHANGED <<live, identity, publisher, rows, file, slipped, sweeps, events>>

\* Then the failure is committed: a retry, or the end of the job.
CommitFailure ==
    /\ fetch.at = "failed"
    /\ tries' = tries + 1
    /\ job' = IF tries + 1 >= MaxTries THEN "blocked" ELSE "queued"
    /\ gaveUp' = (tries + 1 >= MaxTries)
    /\ fetch' = NoFetch
    /\ UNCHANGED <<live, identity, publisher, pub, made, record, evidence, file, turned, slipped, sweeps, events, faults>>

\* The process stops: what is not committed is gone, a file that was written stays.
Crash ==
    /\ Fail
    /\ fetch' = NoFetch /\ publisher' = None /\ turned' = 0
    /\ UNCHANGED <<live, identity, rows, file, slipped, sweeps, events>>

-----------------------------------------------------------------------------
FetchStep ==
    \/ SkipDisabled \/ Unusable \/ Start
    \/ Reuse \/ SettleAbsence \/ Ask
    \/ (\E lines \in Lines : AnswerText(lines)) \/ AnswerNone \/ AnswerError
    \/ Store \/ CommitFailure

Next ==
    \/ ReadSwitch
    \/ \E stem \in Stem, input \in Input : Finalize(stem, input)
    \/ Withdraw \/ (\E missing \in BOOLEAN : Sweep(missing)) \/ ChangeIdentity \/ ChangeSettings \/ DayPasses
    \/ FetchStep
    \/ Raise \/ Crash

Spec == Init /\ [][Next]_vars

\* A queued fetch is claimed and runs, its lookup ends; nobody else has to do anything.
Fairness == WF_vars(FetchStep)
FairSpec == Spec /\ Fairness

-----------------------------------------------------------------------------
TypeOK ==
    /\ live \in [enabled : BOOLEAN, config : Config]
    /\ identity \in Identity
    /\ pub = None \/ (pub.id \in 1 .. made /\ pub.stem \in Stem /\ pub.input \in Input)
    /\ record.status \in {"none", "pending", "synced", "no_candidate", "validation_rejected", "error"}
    /\ DOMAIN file = Stem
    /\ job \in {"none", "queued", "blocked"} /\ tries \in 0 .. MaxTries
    /\ fetch.at \in {"idle", "keyed", "asked", "written", "failed"}
    /\ fetch.at # "idle" => job = "queued"
    /\ turned \in 0 .. 2
    /\ swept \subseteq Stem /\ missed \in BOOLEAN

\* Lyrics that are promised for a publication are on their way: some fetch of it is still to run,
\* or has been given up since.  (finalize_attempt, enqueue_lrclib_fetch, a fetch that is joined while
\* it runs or while its failure is not yet committed.)
PendingHasFetch == record.status = "pending" => job = "queued" \/ gaveUp

\* Lyrics shown as synced are in the file that the record names, byte for byte, whatever was
\* written, lost or rolled back before; unless a sweep of the directory has taken that file since
\* it was written, and then there is none, never another text.
SyncedMatchesFile ==
    record.status = "synced" =>
        file[record.stem] = IF record.stem \in swept THEN None ELSE record.text

\* They belong to the newest publication: written beside it, asked for its tags and duration, and
\* valid for its duration; never those of a superseded or withdrawn one.  That publication is the
\* current one, unless a sweep has found its audio missing, which leaves the lyrics bound to it.
LyricsOfCurrent ==
    record.status = "synced" =>
        /\ record.pub = made
        /\ Valid(record.text.lines, DurationOf[record.text.asked.input])
        /\ IF pub = None THEN missed
           ELSE /\ pub.id = made /\ record.stem = pub.stem
                /\ record.text.asked.input = pub.input

\* An answer is only ever reused for the question it answers: the same identity, lookup and
\* settings, unless the settings were changed and changed back while it was asked.
EvidenceAnswers == evidence # None /\ ~slipped => evidence.text.asked = evidence.key

\* Promised lyrics are settled, one way or another, or the fetch is given up.
PendingSettles == record.status = "pending" ~> record.status # "pending" \/ gaveUp
=============================================================================
