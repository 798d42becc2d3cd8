------------------------- MODULE LyricsFetchProofs -------------------------
(* Proofs about the lyrics of a record, for any stems, inputs, settings,   *)
(* texts and bounds.                                                       *)
EXTENDS LyricsFetch, TLAPS

Holding == fetch.at \in {"keyed", "asked", "written"}

(* The shape of the values that are changed field by field.                *)
ShapeInv ==
    /\ fetch = [at |-> fetch.at, pub |-> fetch.pub, key |-> fetch.key, asked |-> fetch.asked,
                text |-> fetch.text, reused |-> fetch.reused]
    /\ evidence # None =>
         evidence = [outcome |-> evidence.outcome, key |-> evidence.key, pub |-> evidence.pub,
                     stem |-> evidence.stem, text |-> evidence.text, expired |-> evidence.expired]
    /\ file = [s \in Stem |-> file[s]]
    /\ pub # None => pub.stem \in Stem /\ pub.id = made
    /\ turned \in {0, 1, 2} /\ fetch.reused \in BOOLEAN

(* The job of a fetch is open until its commit; the publication that was   *)
(* read under the record lock is still the current one.                    *)
HeldInv ==
    /\ fetch.at # "idle" => job = "queued"
    /\ Holding => /\ pub # None /\ fetch.pub = pub
                  /\ fetch.key = [identity |-> fetch.key.identity, input |-> pub.input,
                                  settings |-> fetch.key.settings]
                  /\ fetch.at # "written" => ~fetch.reused

(* The settings are not locked.  As long as they did not change, they are  *)
(* those of the key, and after one change they are not.                    *)
AskedInv ==
    Holding =>
      /\ turned = 0 => live = fetch.key.settings
      /\ turned = 1 => live # fetch.key.settings
      /\ fetch.at # "keyed" /\ ~fetch.reused =>
           /\ turned = 0 => fetch.asked = fetch.key
           /\ fetch.asked.input = pub.input

(* What was written is on disk, valid, and answers for the publication.    *)
TextInv ==
    fetch.at = "written" =>
      /\ file[pub.stem] = fetch.text /\ pub.stem \notin swept
      /\ Valid(fetch.text.lines, DurationOf[pub.input])
      /\ fetch.text.asked.input = pub.input
      /\ ~fetch.reused => fetch.text.asked = fetch.asked

EvidenceInv == evidence # None => evidence.text.asked.input = evidence.key.input

(* Once lyrics are bound, no fetch of the record is open.                  *)
SyncedInv == record.status = "synced" => job = "none" /\ record.stem \in Stem

LyricsInv ==
    /\ ShapeInv /\ HeldInv /\ AskedInv /\ TextInv /\ EvidenceInv /\ SyncedInv
    /\ PendingHasFetch /\ SyncedMatchesFile /\ LyricsOfCurrent /\ EvidenceAnswers

-----------------------------------------------------------------------------
(* The initial state.                                                      *)
LEMMA InitLyrics == Init => LyricsInv
BY DEF Init, LyricsInv, ShapeInv, HeldInv, AskedInv, TextInv, EvidenceInv, SyncedInv, Holding,
       PendingHasFetch, SyncedMatchesFile, LyricsOfCurrent, EvidenceAnswers, NoLyrics, NoFetch

(* What others do while no fetch holds the record.                         *)
LEMMA OthersKeep ==
    ASSUME LyricsInv,
           \/ ReadSwitch \/ Withdraw \/ (\E missing \in BOOLEAN : Sweep(missing)) \/ ChangeIdentity \/ DayPasses
           \/ \E stem \in Stem, input \in Input : Finalize(stem, input)
    PROVE  LyricsInv'
<1> USE DEF LyricsInv, rows, sweeps, NoLyrics
<1>1. CASE ReadSwitch \/ ChangeIdentity
  BY <1>1 DEF ReadSwitch, ChangeIdentity, ShapeInv, HeldInv, AskedInv, TextInv, EvidenceInv, SyncedInv,
         Holding, PendingHasFetch, SyncedMatchesFile, LyricsOfCurrent, EvidenceAnswers
<1>2. CASE Withdraw
  <2>1. ~Holding /\ fetch.at # "written"
    BY <1>2 DEF Withdraw, RecordFree, Holding
  <2>2. ShapeInv' /\ HeldInv' /\ AskedInv' /\ TextInv' /\ EvidenceInv'
    BY <1>2, <2>1 DEF Withdraw, ShapeInv, HeldInv, AskedInv, TextInv, EvidenceInv, Holding
  <2>3. SyncedInv' /\ PendingHasFetch' /\ SyncedMatchesFile' /\ LyricsOfCurrent' /\ EvidenceAnswers'
    BY <1>2 DEF Withdraw, SyncedInv, PendingHasFetch, SyncedMatchesFile, LyricsOfCurrent,
                EvidenceAnswers
  <2>4. QED
    BY <2>2, <2>3
<1>3. CASE DayPasses
  <2>1. evidence' = [outcome |-> evidence.outcome, key |-> evidence.key, pub |-> evidence.pub,
                     stem |-> evidence.stem, text |-> evidence.text, expired |-> TRUE]
    BY <1>3 DEF DayPasses, ShapeInv
  <2>2. QED
    BY <1>3, <2>1 DEF DayPasses, ShapeInv, HeldInv, AskedInv, TextInv, EvidenceInv, SyncedInv,
         Holding, PendingHasFetch, SyncedMatchesFile, LyricsOfCurrent, EvidenceAnswers
<1>4. ASSUME NEW stem \in Stem, NEW input \in Input, Finalize(stem, input) PROVE LyricsInv'
  <2>1. ~Holding /\ fetch.at # "written"
    BY <1>4 DEF Finalize, RecordFree, Holding
  <2>2. ShapeInv' /\ HeldInv' /\ AskedInv' /\ TextInv' /\ EvidenceInv'
    BY <1>4, <2>1 DEF Finalize, ShapeInv, HeldInv, AskedInv, TextInv, EvidenceInv, Holding
  <2>3. SyncedInv' /\ PendingHasFetch' /\ SyncedMatchesFile' /\ LyricsOfCurrent' /\ EvidenceAnswers'
    BY <1>4 DEF Finalize, JobActive, SyncedInv, PendingHasFetch, SyncedMatchesFile, LyricsOfCurrent,
                EvidenceAnswers
  <2>4. QED
    BY <2>2, <2>3
<1>5. ASSUME NEW missing \in BOOLEAN, Sweep(missing) PROVE LyricsInv'
  <2>1. ~Holding /\ fetch.at # "written" /\ ~Holding' /\ fetch' = fetch
    BY <1>5 DEF Sweep, Holding
  <2>2. /\ file' = [s \in Stem |-> None] /\ record' = record /\ job' = job
        /\ swept' = swept \union {s \in Stem : file[s] # None}
    BY <1>5 DEF Sweep
  <2>3. ShapeInv'
    <3>1. file' = [s \in Stem |-> file'[s]]
      BY <2>2
    <3>2. QED
      BY <1>5, <2>1, <3>1 DEF Sweep, ShapeInv
  <2>4. HeldInv' /\ AskedInv' /\ TextInv' /\ EvidenceInv' /\ SyncedInv'
    BY <1>5, <2>1 DEF Sweep, HeldInv, AskedInv, TextInv, EvidenceInv, SyncedInv
  <2>5. SyncedMatchesFile'
    <3>1. ASSUME record.status = "synced"
          PROVE  file'[record.stem] = IF record.stem \in swept' THEN None ELSE record.text
      <4>1. record.stem \in Stem /\ file'[record.stem] = None
        BY <2>2, <3>1 DEF SyncedInv
      <4>2. CASE record.stem \in swept'
        BY <4>1, <4>2
      <4>3. CASE record.stem \notin swept'
        <5>1. record.stem \notin swept /\ file[record.stem] = None
          BY <2>2, <4>1, <4>3
        <5>2. QED
          BY <3>1, <4>1, <4>3, <5>1 DEF SyncedMatchesFile
      <4>4. QED
        BY <4>2, <4>3
    <3>2. QED
      BY <2>2, <3>1 DEF SyncedMatchesFile
  <2>6. LyricsOfCurrent'
    BY <1>5 DEF Sweep, LyricsOfCurrent
  <2>7. PendingHasFetch' /\ EvidenceAnswers'
    BY <1>5 DEF Sweep, PendingHasFetch, EvidenceAnswers
  <2>8. QED
    BY <2>3, <2>4, <2>5, <2>6, <2>7
<1>6. QED
  BY <1>1, <1>2, <1>3, <1>4, <1>5

(* The settings change at any time, also during a fetch.                   *)
LEMMA SettingsKeep ==
    ASSUME LyricsInv, ChangeSettings
    PROVE  LyricsInv'
<1> USE DEF LyricsInv, ChangeSettings, rows, sweeps
<1>1. AskedInv'
  <2>1. live' # live
    OBVIOUS
  <2>2. Holding => turned' = IF turned < 2 THEN turned + 1 ELSE 2
    BY DEF Holding
  <2>3. QED
    BY <2>1, <2>2 DEF AskedInv, Holding, ShapeInv
<1>2. ShapeInv'
  BY DEF ShapeInv
<1>3. HeldInv' /\ TextInv' /\ EvidenceInv' /\ SyncedInv'
  BY DEF HeldInv, TextInv, EvidenceInv, SyncedInv, Holding
<1>4. PendingHasFetch' /\ SyncedMatchesFile' /\ LyricsOfCurrent' /\ EvidenceAnswers'
  BY DEF PendingHasFetch, SyncedMatchesFile, LyricsOfCurrent, EvidenceAnswers
<1>5. QED
  BY <1>1, <1>2, <1>3, <1>4

-----------------------------------------------------------------------------
(* A fetch that settles frees the record; its status is not "pending", and *)
(* it is "synced" only if it was.                                          *)
LEMMA SettledKeeps ==
    ASSUME LyricsInv, NEW outcome, Settled(outcome), outcome # "pending", outcome # "synced",
           evidence' # None =>
             /\ evidence' = [outcome |-> evidence'.outcome, key |-> evidence'.key,
                             pub |-> evidence'.pub, stem |-> evidence'.stem,
                             text |-> evidence'.text, expired |-> evidence'.expired]
             /\ evidence'.text.asked.input = evidence'.key.input
             /\ ~slipped' => evidence'.text.asked = evidence'.key
    PROVE  LyricsInv'
<1> USE DEF LyricsInv, Settled, NoLyrics, NoFetch, sweeps
<1>1. ShapeInv' /\ HeldInv' /\ AskedInv' /\ TextInv' /\ EvidenceInv'
  BY DEF ShapeInv, HeldInv, AskedInv, TextInv, EvidenceInv, Holding
<1>2. SyncedInv' /\ PendingHasFetch' /\ SyncedMatchesFile' /\ LyricsOfCurrent' /\ EvidenceAnswers'
  BY DEF SyncedInv, PendingHasFetch, SyncedMatchesFile, LyricsOfCurrent, EvidenceAnswers
<1>3. QED
  BY <1>1, <1>2

(* The outcomes that leave the evidence alone.                             *)
LEMMA EvidenceStays ==
    ASSUME LyricsInv, UNCHANGED <<evidence, slipped>>
    PROVE  evidence' # None =>
             /\ evidence' = [outcome |-> evidence'.outcome, key |-> evidence'.key,
                             pub |-> evidence'.pub, stem |-> evidence'.stem,
                             text |-> evidence'.text, expired |-> evidence'.expired]
             /\ evidence'.text.asked.input = evidence'.key.input
             /\ ~slipped' => evidence'.text.asked = evidence'.key
BY DEF LyricsInv, ShapeInv, EvidenceInv, EvidenceAnswers

(* A fetch that ends without text.                                         *)
LEMMA SettleKeeps ==
    ASSUME LyricsInv,
           SkipDisabled \/ Unusable \/ SettleAbsence \/ AnswerNone \/ AnswerError
    PROVE  LyricsInv'
<1>1. CASE SkipDisabled
  <2>1. record.status # "synced"
    BY <1>1 DEF SkipDisabled, Claims, LyricsInv, SyncedInv
  <2>2. Settled("none") /\ UNCHANGED <<evidence, slipped>>
    BY <1>1, <2>1 DEF SkipDisabled
  <2>3. QED
    BY <2>2, SettledKeeps, EvidenceStays
<1>2. CASE Unusable \/ AnswerError
  <2>1. Settled("error") /\ UNCHANGED <<evidence, slipped>>
    BY <1>2 DEF Unusable, AnswerError
  <2>2. QED
    BY <2>1, SettledKeeps, EvidenceStays
<1>3. CASE SettleAbsence
  <2>1. /\ Settled("no_candidate") /\ slipped' = slipped /\ evidence # None
        /\ evidence' = [evidence EXCEPT !.pub = fetch.pub.id]
    BY <1>3 DEF SettleAbsence, CachedAbsence, Matches
  <2>2. evidence' = [outcome |-> evidence.outcome, key |-> evidence.key, pub |-> fetch.pub.id,
                     stem |-> evidence.stem, text |-> evidence.text, expired |-> evidence.expired]
    BY <2>1 DEF LyricsInv, ShapeInv
  <2>3. /\ evidence.text.asked.input = evidence.key.input
        /\ ~slipped => evidence.text.asked = evidence.key
    BY <2>1 DEF LyricsInv, EvidenceInv, EvidenceAnswers
  <2>4. QED
    BY <2>1, <2>2, <2>3, SettledKeeps
<1>4. CASE AnswerNone
  <2>1. Settled("no_candidate") /\ Slips /\ Holding
    BY <1>4 DEF AnswerNone, Holding
  <2>2. CASE SettingsHeld
    <3>1. /\ evidence'.text.asked = fetch.asked /\ evidence'.key = fetch.key
          /\ evidence' = [outcome |-> evidence'.outcome, key |-> evidence'.key,
                          pub |-> evidence'.pub, stem |-> evidence'.stem,
                          text |-> evidence'.text, expired |-> evidence'.expired]
      BY <1>4, <2>2 DEF AnswerNone
    <3>2. ~fetch.reused
      BY <1>4, <2>1 DEF AnswerNone, LyricsInv, HeldInv
    <3>3. fetch.asked.input = fetch.key.input
      BY <1>4, <2>1, <3>2 DEF AnswerNone, LyricsInv, AskedInv, HeldInv
    <3>4. ~slipped' => fetch.asked = fetch.key
      BY <1>4, <2>1, <2>2, <3>2 DEF AnswerNone, Slips, SettingsHeld, LyricsInv, AskedInv, ShapeInv
    <3>5. QED
      BY <2>1, <3>1, <3>3, <3>4, SettledKeeps
  <2>3. CASE ~SettingsHeld
    <3>1. evidence' = evidence /\ (~slipped' => ~slipped)
      BY <1>4, <2>1, <2>3 DEF AnswerNone, Slips
    <3>2. evidence # None =>
            /\ evidence = [outcome |-> evidence.outcome, key |-> evidence.key, pub |-> evidence.pub,
                           stem |-> evidence.stem, text |-> evidence.text, expired |-> evidence.expired]
            /\ evidence.text.asked.input = evidence.key.input
            /\ ~slipped => evidence.text.asked = evidence.key
      BY DEF LyricsInv, ShapeInv, EvidenceInv, EvidenceAnswers
    <3>3. QED
      BY <2>1, <3>1, <3>2, SettledKeeps
  <2>4. QED
    BY <2>2, <2>3
<1>5. QED
  BY <1>1, <1>2, <1>3, <1>4

(* A fetch begins.                                                         *)
LEMMA StartKeeps ==
    ASSUME LyricsInv, Start
    PROVE  LyricsInv'
<1> USE DEF LyricsInv, Start, rows, sweeps, ReuseKey, NoFetch
<1>1. fetch' = [at |-> "keyed", pub |-> pub, key |-> ReuseKey, asked |-> None, text |-> None,
                reused |-> FALSE]
  OBVIOUS
<1>2. ShapeInv' /\ HeldInv' /\ AskedInv'
  <2>1. ShapeInv'
    BY <1>1 DEF ShapeInv
  <2>2. HeldInv'
    BY <1>1 DEF HeldInv, Claims
  <2>3. AskedInv'
    BY <1>1 DEF AskedInv
  <2>4. QED
    BY <2>1, <2>2, <2>3
<1>3. TextInv' /\ EvidenceInv' /\ SyncedInv' /\ PendingHasFetch'
  BY <1>1 DEF TextInv, EvidenceInv, SyncedInv, PendingHasFetch
<1>4. SyncedMatchesFile' /\ LyricsOfCurrent' /\ EvidenceAnswers'
  BY DEF SyncedMatchesFile, LyricsOfCurrent, EvidenceAnswers
<1>5. QED
  BY <1>2, <1>3, <1>4

(* The lookup is asked with the settings that are in force then.           *)
LEMMA AskKeeps ==
    ASSUME LyricsInv, Ask
    PROVE  LyricsInv'
<1> USE DEF LyricsInv, Ask, rows, sweeps
<1>1. Holding /\ ~fetch.reused
  BY DEF Holding, HeldInv
<1>2. [fetch.key EXCEPT !.settings = live] =
        [identity |-> fetch.key.identity, input |-> fetch.key.input, settings |-> live]
  BY <1>1 DEF HeldInv
<1>3. fetch' = [at |-> "asked", pub |-> fetch.pub, key |-> fetch.key,
                asked |-> [fetch.key EXCEPT !.settings = live],
                text |-> fetch.text, reused |-> fetch.reused]
  BY DEF ShapeInv
<1>4. ShapeInv' /\ HeldInv'
  BY <1>1, <1>3 DEF ShapeInv, HeldInv
<1>5. AskedInv'
  <2>1. turned = 0 => [fetch.key EXCEPT !.settings = live] = fetch.key
    BY <1>1, <1>2 DEF AskedInv, HeldInv
  <2>2. [fetch.key EXCEPT !.settings = live].input = pub.input
    BY <1>1, <1>2 DEF HeldInv
  <2>3. QED
    BY <1>1, <1>3, <2>1, <2>2 DEF AskedInv
<1>6. TextInv' /\ EvidenceInv' /\ SyncedInv' /\ PendingHasFetch'
  BY <1>3 DEF TextInv, EvidenceInv, SyncedInv, PendingHasFetch
<1>7. SyncedMatchesFile' /\ LyricsOfCurrent' /\ EvidenceAnswers'
  BY DEF SyncedMatchesFile, LyricsOfCurrent, EvidenceAnswers
<1>8. QED
  BY <1>4, <1>5, <1>6, <1>7

(* The sidecar is written while no lyrics are bound to the record.         *)
LEMMA WritesKeeps ==
    ASSUME LyricsInv, Holding, fetch.at # "written", NEW text, NEW reused \in BOOLEAN,
           Writes(text, reused),
           Valid(text.lines, DurationOf[pub.input]), text.asked.input = pub.input,
           ~reused => fetch.at = "asked" /\ text.asked = fetch.asked,
           UNCHANGED <<live, identity, publisher, rows, turned, slipped, events, faults>>
    PROVE  LyricsInv'
<1> USE DEF LyricsInv, Writes, rows
<1>1. /\ fetch.pub = pub /\ pub # None /\ job = "queued" /\ pub.stem \in Stem
      /\ record.status # "synced"
  BY DEF HeldInv, Holding, ShapeInv, SyncedInv
<1>2. fetch' = [at |-> "written", pub |-> fetch.pub, key |-> fetch.key, asked |-> fetch.asked,
                text |-> text, reused |-> reused]
  BY DEF ShapeInv
<1>3. file'[pub.stem] = text
  BY <1>1 DEF ShapeInv
<1>4. ShapeInv'
  <2>1. file' = [s \in Stem |-> file'[s]]
    BY DEF ShapeInv
  <2>2. fetch'.reused \in BOOLEAN
    BY <1>2
  <2>3. QED
    BY <1>2, <2>1, <2>2 DEF ShapeInv
<1>5. HeldInv'
  BY <1>1, <1>2 DEF HeldInv, Holding
<1>6. AskedInv'
  BY <1>2 DEF AskedInv, Holding, HeldInv
<1>7. TextInv'
  BY <1>1, <1>2, <1>3 DEF TextInv
<1>8. EvidenceInv' /\ SyncedInv' /\ PendingHasFetch'
  BY DEF EvidenceInv, SyncedInv, PendingHasFetch
<1>9. SyncedMatchesFile' /\ LyricsOfCurrent' /\ EvidenceAnswers'
  BY <1>1 DEF SyncedMatchesFile, LyricsOfCurrent, EvidenceAnswers
<1>10. QED
  BY <1>4, <1>5, <1>6, <1>7, <1>8, <1>9

(* Text of an earlier publication, or of the provider.                     *)
LEMMA TextKeeps ==
    ASSUME LyricsInv, Reuse \/ \E lines \in Lines : AnswerText(lines)
    PROVE  LyricsInv'
<1>1. CASE Reuse
  <2>1. /\ Holding /\ fetch.at = "keyed" /\ Writes(evidence.text, TRUE)
        /\ UNCHANGED <<live, identity, publisher, rows, turned, slipped, events, faults>>
    BY <1>1 DEF Reuse, Holding
  <2>2. /\ evidence # None /\ evidence.key = fetch.key
        /\ Valid(evidence.text.lines, DurationOf[fetch.pub.input])
    BY <1>1 DEF Reuse, Reusable, Matches
  <2>3. fetch.pub = pub /\ evidence.text.asked.input = pub.input
    BY <2>1, <2>2 DEF LyricsInv, HeldInv, EvidenceInv
  <2>4. QED
    BY <2>1, <2>2, <2>3, WritesKeeps
<1>2. ASSUME NEW lines \in Lines, AnswerText(lines) PROVE LyricsInv'
  <2> DEFINE text == [asked |-> fetch.asked, lines |-> lines]
  <2>1. fetch.at = "asked" /\ Holding /\ fetch.pub = pub /\ fetch.asked.input = pub.input
    BY <1>2 DEF AnswerText, Holding, LyricsInv, HeldInv, AskedInv
  <2>2. CASE Valid(lines, DurationOf[fetch.pub.input])
    <3>1. /\ Writes(text, FALSE)
          /\ UNCHANGED <<live, identity, publisher, rows, turned, slipped, events, faults>>
      BY <1>2, <2>2 DEF AnswerText
    <3>2. text.lines = lines /\ text.asked = fetch.asked
      OBVIOUS
    <3> HIDE DEF text
    <3>3. QED
      BY <2>1, <2>2, <3>1, <3>2, WritesKeeps
  <2>3. CASE ~Valid(lines, DurationOf[fetch.pub.input])
    <3>1. Settled("validation_rejected") /\ UNCHANGED <<evidence, slipped>>
      BY <1>2, <2>3 DEF AnswerText
    <3>2. QED
      BY <3>1, SettledKeeps, EvidenceStays
  <2>4. QED
    BY <2>2, <2>3
<1>3. QED
  BY <1>1, <1>2

(* The text that is on disk is bound to the publication, and kept as       *)
(* evidence only if the settings are those of the key.                     *)
LEMMA StoreKeeps ==
    ASSUME LyricsInv, Store
    PROVE  LyricsInv'
<1> USE DEF LyricsInv, Store, NoFetch, sweeps
<1>1. Holding /\ fetch.at = "written" /\ fetch.pub = pub /\ pub # None
  BY DEF Holding, HeldInv
<1>2. /\ record'.status = "synced" /\ record'.pub = pub.id /\ record'.stem = pub.stem
      /\ record'.text = fetch.text /\ job' = "none" /\ pub.stem \in Stem /\ pub.id = made /\ ~Holding'
      /\ fetch' = NoFetch /\ turned' = 0 /\ pub' = pub /\ file' = file /\ live' = live
      /\ made' = made /\ swept' = swept /\ missed' = missed
  BY <1>1 DEF Holding, ShapeInv
<1>3. SyncedInv' /\ PendingHasFetch' /\ SyncedMatchesFile' /\ LyricsOfCurrent'
  BY <1>1, <1>2 DEF SyncedInv, PendingHasFetch, SyncedMatchesFile, LyricsOfCurrent, TextInv
<1>4. HeldInv' /\ AskedInv' /\ TextInv'
  BY <1>2 DEF HeldInv, AskedInv, TextInv, Holding
<1>5. CASE UNCHANGED <<evidence, slipped>>
  <2>1. ShapeInv'
    BY <1>2, <1>5 DEF ShapeInv
  <2>2. EvidenceInv' /\ EvidenceAnswers'
    BY <1>5 DEF EvidenceInv, EvidenceAnswers
  <2>3. QED
    BY <1>3, <1>4, <2>1, <2>2
<1>6. CASE ~(fetch.reused \/ ~SettingsHeld)
  <2>1. /\ evidence' = [outcome |-> "synced", key |-> fetch.key, pub |-> fetch.pub.id,
                        stem |-> fetch.pub.stem, text |-> fetch.text, expired |-> FALSE]
        /\ Slips
    BY <1>6
  <2>2. ShapeInv'
    BY <1>2, <2>1 DEF ShapeInv
  <2>3. fetch.text.asked = fetch.asked /\ fetch.asked.input = fetch.key.input
    BY <1>1, <1>6 DEF TextInv, AskedInv, HeldInv
  <2>4. ~slipped' => fetch.asked = fetch.key
    BY <1>1, <1>6, <2>1 DEF Slips, SettingsHeld, AskedInv, ShapeInv
  <2>5. EvidenceInv' /\ EvidenceAnswers'
    BY <2>1, <2>3, <2>4 DEF EvidenceInv, EvidenceAnswers
  <2>6. QED
    BY <1>3, <1>4, <2>2, <2>5
<1>7. QED
  BY <1>5, <1>6

(* A failure rolls everything back but the file; a crash too.              *)
LEMMA FailureKeeps ==
    ASSUME LyricsInv, Raise \/ CommitFailure \/ Crash
    PROVE  LyricsInv'
<1> USE DEF LyricsInv, Raise, CommitFailure, Crash, rows, sweeps, NoFetch
<1>1. ~Holding' /\ fetch'.at # "written" /\ live' = live /\ pub' = pub /\ file' = file
  BY DEF Holding
<1>2. ShapeInv' /\ EvidenceInv'
  <2>1. fetch' = [at |-> fetch'.at, pub |-> fetch'.pub, key |-> fetch'.key, asked |-> fetch'.asked,
                  text |-> fetch'.text, reused |-> fetch'.reused] /\ fetch'.reused = FALSE
    OBVIOUS
  <2>2. turned' \in {0, 1, 2}
    BY DEF ShapeInv
  <2>3. ShapeInv'
    BY <1>1, <2>1, <2>2 DEF ShapeInv
  <2>4. EvidenceInv'
    BY DEF EvidenceInv
  <2>5. QED
    BY <2>3, <2>4
<1>3. HeldInv' /\ AskedInv' /\ TextInv'
  BY <1>1 DEF HeldInv, AskedInv, TextInv, Holding
<1>4. PendingHasFetch'
  BY DEF PendingHasFetch
<1>5. SyncedInv' /\ SyncedMatchesFile' /\ LyricsOfCurrent' /\ EvidenceAnswers'
  BY DEF SyncedInv, HeldInv, SyncedMatchesFile, LyricsOfCurrent, EvidenceAnswers
<1>6. QED
  BY <1>2, <1>3, <1>4, <1>5

-----------------------------------------------------------------------------
(* Every step keeps the invariant.                                         *)
LEMMA NextLyrics == LyricsInv /\ [Next]_vars => LyricsInv'
<1> SUFFICES ASSUME LyricsInv, [Next]_vars PROVE LyricsInv'
  OBVIOUS
<1>1. CASE UNCHANGED vars
  BY <1>1 DEF vars, rows, sweeps, LyricsInv, ShapeInv, HeldInv, AskedInv, TextInv, EvidenceInv, SyncedInv,
         Holding, PendingHasFetch, SyncedMatchesFile, LyricsOfCurrent, EvidenceAnswers
<1>2. CASE FetchStep
  BY <1>2, SettleKeeps, StartKeeps, AskKeeps, TextKeeps, StoreKeeps, FailureKeeps DEF FetchStep
<1>3. CASE Raise \/ Crash
  BY <1>3, FailureKeeps
<1>4. CASE ChangeSettings
  BY <1>4, SettingsKeep
<1>5. QED
  BY <1>1, <1>2, <1>3, <1>4, OthersKeep DEF Next

(* The inductive invariant of the lyrics of a record.                      *)
THEOREM LyricsInvariant == Spec => []LyricsInv
  BY InitLyrics, NextLyrics, PTL DEF Spec

(* Lyrics that are shown are in the file that the record names, unless a   *)
(* sweep took it, which leaves no file and no other text: a fetch never    *)
(* overwrites a sidecar while lyrics are bound to it.                      *)
THEOREM SyncedOnDisk == Spec => []SyncedMatchesFile
<1>1. LyricsInv => SyncedMatchesFile
  BY DEF LyricsInv
<1>2. QED
  BY <1>1, LyricsInvariant, PTL

(* They belong to the newest publication, whatever publications, removals, *)
(* sweeps and changes of settings came in between, and that one is current *)
(* unless a sweep found its audio missing.                                 *)
THEOREM SyncedIsCurrent == Spec => []LyricsOfCurrent
<1>1. LyricsInv => LyricsOfCurrent
  BY DEF LyricsInv
<1>2. QED
  BY <1>1, LyricsInvariant, PTL

(* Stored evidence answers the question it is kept under.                  *)
THEOREM EvidenceIsTrue == Spec => []EvidenceAnswers
<1>1. LyricsInv => EvidenceAnswers
  BY DEF LyricsInv
<1>2. QED
  BY <1>1, LyricsInvariant, PTL

(* Lyrics that are promised have a fetch to come, or one was given up.     *)
THEOREM PromiseKept == Spec => []PendingHasFetch
<1>1. LyricsInv => PendingHasFetch
  BY DEF LyricsInv
<1>2. QED
  BY <1>1, LyricsInvariant, PTL
=============================================================================
