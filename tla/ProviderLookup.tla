--------------------------- MODULE ProviderLookup ---------------------------
(***************************************************************************)
(* What the providers are asked about one source and what becomes of the   *)
(* answers.  An acoustic analysis names recordings; a MusicBrainz analysis *)
(* searches by the tags, browses the releases of every recording found, a  *)
(* page at a time and Concurrency at once, fetches the details of those    *)
(* releases, and stores one candidate run; a refresh asks for the release  *)
(* of a confirmed pair only.  The folder pass moves the source to the best *)
(* pair of its latest run.  Reviewers act on the record in between: only   *)
(* the source row is locked while the network is asked.                    *)
(*                                                                         *)
(* The server is external: a reply is what it lists, or a fault.  A job is *)
(* one transaction, so a crash leaves its row queued and nothing else.     *)
(* Bound: MaxEvents faults, crashes, folder passes and reviewer requests.  *)
(***************************************************************************)
EXTENDS CandidateScoring, Sequences, SequencesExt

CONSTANTS RecordingId, ReleaseId,   \* sets of numbers, in the order of the identifiers
          Lists,                \* the releases of each recording, in browse order
          Unofficial,           \* the releases whose status is given, neither official nor promotional
          Tracks, DataTracks,   \* the recordings on the tracks of each release
          Agreement,            \* how well each component of a release agrees with the file
          Known,                \* the pairs the record may carry already
          Heard,                \* the answers of AcoustID: sequences of [id, score]
          Found,                \* the answers of the search: sequences of [id, score]
          Threshold, PageSize, Concurrency, MaxEvents

None == 0
NoPair == <<None, None>>
Fault == {"limited", "down", "garbled"}

Pair == ReleaseId \X RecordingId
Answers == Seq([id : RecordingId, score : Int])

(* An identifier names one entity: a recording or a release.               *)
ASSUME ProviderLookupAssumption ==
    /\ RecordingId \subseteq Nat \ {None} /\ ReleaseId \subseteq Nat \ {None}
    /\ RecordingId \intersect ReleaseId = {}
    /\ Known \subseteq Pair /\ Heard \subseteq Answers /\ Found \subseteq Answers
    /\ Lists \in [RecordingId -> Seq(ReleaseId)]
    /\ Tracks \in [ReleaseId -> SUBSET RecordingId] /\ DataTracks \in [ReleaseId -> SUBSET RecordingId]
    /\ PageSize \in Nat \ {0} /\ Concurrency \in Nat \ {0}

VARIABLES
    tagged,     \* whether the file has tags to search by
    miscounted, \* the recordings whose count promises one release more than the pages hold
    queued,     \* the analysis jobs whose row is active
    refresh,    \* the pair an active refresh job expects, NoPair without one
    job,        \* the job being executed, "none" between jobs
    ask,        \* what it read before it asked
    step,       \* where the MusicBrainz lookup stands
    ids,        \* the recordings to browse, in the order of the request
    ranks,      \* the score the search gave each recording
    task,       \* the requests of a fan-out: waiting, asking, done
    got,        \* how many releases of each recording have been received
    replies,    \* the finished requests of the fan-outs, in the order they finished
    result,     \* the outcome of the lookup
    heard,      \* the recordings AcoustID named, the newest candidate first
    acoustic,   \* the score of the newest AcoustID candidate of each recording
    latest,     \* the candidates of the latest MusicBrainz run
    stored,     \* the pairs of all candidates, of any run or none
    decisions,  \* the kinds of reviewer decision on the source
    override,   \* the recording a reviewer overrode the association with
    identity,   \* the pair of the record the source belongs to
    matched,    \* whether that record is matched
    final,      \* the pair in the tags of the latest final revision
    overtaken,  \* history: the identity changed after the executing job had read it
    events      \* bound

given == <<tagged, miscounted>>
lookup == <<ask, step, ids, ranks, task, got, replies, result>>
source == <<heard, acoustic, latest, stored>>
record == <<decisions, override, identity, matched, final, overtaken>>
lookupVars == <<given, queued, refresh, job, lookup, source, record, events>>

(* Each identifier once, where it comes first.                             *)
Dedupe(s) ==
    LET firsts == {i \in DOMAIN s : \A j \in DOMAIN s : s[j] = s[i] => i <= j}
        place(i) == Cardinality({j \in firsts : j <= i})
    IN  [k \in 1..Cardinality(firsts) |-> s[CHOOSE i \in firsts : place(i) = k]]

Ids(answers) == [i \in DOMAIN answers |-> answers[i].id]

ScoreIn(answers, old) ==
    [r \in RecordingId |-> IF \E i \in DOMAIN answers : answers[i].id = r
                         THEN answers[CHOOSE i \in DOMAIN answers : answers[i].id = r].score
                         ELSE old[r]]

NoScores == [r \in RecordingId |-> Unknown]
NoAsk == [release |-> None, recording |-> None, recordings |-> <<>>, identity |-> NoPair,
          decisions |-> {}]
NoResult == [outcome |-> "none", pairs |-> {}, detailed |-> {}]
NoTasks == [t \in RecordingId \union ReleaseId |-> "none"]

LookupInit ==
    /\ tagged \in BOOLEAN /\ miscounted \in SUBSET RecordingId
    /\ queued = {"acoustid"} /\ refresh = NoPair /\ job = "none"
    /\ ask = NoAsk /\ step = "idle" /\ ids = <<>> /\ ranks = NoScores /\ task = NoTasks
    /\ got = [r \in RecordingId |-> 0] /\ replies = <<>> /\ result = NoResult
    /\ heard = <<>> /\ acoustic = NoScores /\ latest = {} /\ stored = {}
    /\ decisions = {} /\ override = None /\ identity \in Known \union {NoPair}
    /\ matched = (identity # NoPair)
    /\ final = NoPair /\ overtaken = FALSE
    /\ events = 0

Happens == events < MaxEvents /\ events' = events + 1

(* A reply is a fault the bound still allows, or goes well.                *)
Replies(a) == IF a \in Fault THEN Happens ELSE UNCHANGED events

(* _response_outcome and its AcoustID counterpart.                         *)
Outcome(a) ==
    CASE a = "limited" -> "ratelimited"
      [] a = "down" -> "unavailable"
      [] a \in {"refused", "garbled"} -> "malformed"
      [] OTHER -> "ok"

Outage == {"ratelimited", "unavailable", "malformed"}

-----------------------------------------------------------------------------
(* The acoustic analysis.  It never touches the record, and whatever came  *)
(* back, MusicBrainz is asked next.  Earlier recordings are kept.          *)

Listen(a, names) ==
    /\ job = "none" /\ "acoustid" \in queued
    /\ Replies(a)
    /\ heard' = Dedupe(Reverse(Ids(names)) \o heard)
    /\ acoustic' = ScoreIn(names, acoustic)
    /\ queued' = (queued \ {"acoustid"}) \union {"musicbrainz"}
    /\ UNCHANGED <<given, refresh, job, lookup, latest, stored, record>>

-----------------------------------------------------------------------------
(* What MusicBrainz is asked.                                              *)

(* musicbrainz_lookup_ids.                                                 *)
LookupRecording ==
    CASE override # None -> override
      [] override = None /\ decisions \intersect {"acoustid_confirmed", "recording_confirmed"} # {}
           -> identity[2]
      [] OTHER -> IF heard = <<>> THEN None ELSE Head(heard)

LookupRelease == IF "confirmed" \in decisions THEN identity[1] ELSE None

Asking(release, recording, recordings) ==
    [release |-> release, recording |-> recording, recordings |-> recordings,
     identity |-> identity, decisions |-> decisions]

(* A confirmed release is asked for as a pair, everything else through the *)
(* search; without tags and identifiers there is no lookup and no run.     *)
StartMusicBrainz ==
    LET recording == LookupRecording
        release == LookupRelease
        known == IF recording = None THEN heard ELSE Append(heard, recording)
        pair == release # None /\ recording # None
    IN
    /\ job = "none" /\ "musicbrainz" \in queued
    /\ IF ~tagged /\ recording = None /\ release = None
       THEN /\ queued' = queued \ {"musicbrainz"}
            /\ UNCHANGED <<job, ask, step, overtaken>>
       ELSE /\ job' = "musicbrainz" /\ step' = IF pair THEN "pair" ELSE "search"
            /\ ask' = Asking(release, recording, IF release = None THEN Dedupe(known) ELSE <<>>)
            /\ overtaken' = FALSE
            /\ UNCHANGED queued
    /\ UNCHANGED <<given, refresh, ids, ranks, task, got, replies, result, source, decisions,
                   override, identity, matched, final, events>>

StillConfirmed(pair) == identity = pair /\ matched

(* refresh_confirmed_identity up to the lookup.                            *)
StartRefresh ==
    /\ job = "none" /\ refresh # NoPair
    /\ IF StillConfirmed(refresh)
       THEN /\ job' = "refresh" /\ step' = "pair" /\ overtaken' = FALSE
            /\ ask' = Asking(refresh[1], refresh[2], <<>>)
            /\ UNCHANGED refresh
       ELSE /\ refresh' = NoPair
            /\ UNCHANGED <<job, step, ask, overtaken>>
    /\ UNCHANGED <<given, queued, ids, ranks, task, got, replies, result, source, decisions,
                   override, identity, matched, final, events>>

Answered(outcome, pairs, detailed) ==
    /\ step' = "answered"
    /\ result' = [outcome |-> outcome, pairs |-> pairs, detailed |-> detailed]

-----------------------------------------------------------------------------
(* The search, and the fan-outs.                                           *)

Awaiting(ts) == [t \in RecordingId \union ReleaseId |-> IF t \in ts THEN "waiting" ELSE "none"]

(* An empty query is refused, if it is read at all.  A page that cannot be *)
(* parsed counts as one that found nothing: only the status decides.       *)
Search(a, results) ==
    LET named == Dedupe(ask.recordings \o Ids(results)) IN
    /\ step = "search"
    /\ IF tagged THEN a # "refused" ELSE a \in {"refused", "limited", "down"}
    /\ Replies(a)
    /\ IF a \in {"limited", "down", "refused"} THEN Answered(Outcome(a), {}, {}) /\ UNCHANGED <<ids, ranks, task>>
       ELSE /\ ids' = named /\ ranks' = ScoreIn(results, NoScores)
            /\ IF named = <<>> THEN Answered("nomatch", {}, {}) /\ UNCHANGED task
               ELSE step' = "browse" /\ task' = Awaiting(ToSet(named)) /\ UNCHANGED result
    /\ UNCHANGED <<given, queued, refresh, job, ask, got, replies, source, record>>

(* _bounded_fan_out starts all tasks; a limiter admits Concurrency.        *)
Begin(t) ==
    /\ task[t] = "waiting"
    /\ Cardinality({u \in DOMAIN task : task[u] = "asking"}) < Concurrency
    /\ task' = [task EXCEPT ![t] = "asking"]
    /\ UNCHANGED <<given, queued, refresh, job, ask, step, ids, ranks, got, replies, result,
                   source, record, events>>

Finished(t, a) ==
    /\ task' = [task EXCEPT ![t] = "done"]
    /\ replies' = Append(replies, [id |-> t, outcome |-> Outcome(a)])

(* Fault: the page after this one is taken for the last, and not asked for. *)
AlmostReceived(received, count) == received + PageSize >= count

AllReceived(received, count) == received >= count

(* Fault: an empty page is followed by another request for it.             *)
NeverEmptyPage(page) == FALSE

EmptyPage(page) == page = <<>>

Page(r) == LET last == got[r] + PageSize IN
           SubSeq(Lists[r], got[r] + 1, IF last < Len(Lists[r]) THEN last ELSE Len(Lists[r]))

Count(r) == Len(Lists[r]) + (IF r \in miscounted THEN 1 ELSE 0)

(* recording_detail: the next page.  Pages are asked for until the count   *)
(* is reached; an empty one before that is an answer that makes no sense.  *)
Browse(r, a) ==
    /\ step = "browse" /\ task[r] = "asking"
    /\ Replies(a)
    /\ got' = [got EXCEPT ![r] = IF a = "ok" THEN @ + Len(Page(r)) ELSE @]
    /\ CASE a # "ok" -> Finished(r, a)
         [] a = "ok" /\ AllReceived(got'[r], Count(r)) -> Finished(r, "ok")
         [] a = "ok" /\ ~AllReceived(got'[r], Count(r)) /\ EmptyPage(Page(r)) -> Finished(r, "garbled")
         [] OTHER -> UNCHANGED <<task, replies>>
    /\ UNCHANGED <<given, queued, refresh, job, ask, step, ids, ranks, result, source, record>>

ReplyOf(t) == replies[CHOOSE i \in DOMAIN replies : replies[i].id = t].outcome

(* Fault: the details are read in the order in which they came.            *)
InCompletionOrder == [i \in DOMAIN replies |-> replies[i].id]

(* recording_details puts what came in any order back into the request's.  *)
InRequestOrder == ids

(* Where the outcome of a lookup is taken from, 0 if nothing failed.       *)
FirstFailing(order) == SelectInSeq(order, LAMBDA r : ReplyOf(r) # "ok")

(* Of the pages received; a release without a status counts as official.   *)
Usable(r) == ToSet(SubSeq(Lists[r], 1, got[r])) \ Unofficial

Listed == {r \in ToSet(ids) : ReplyOf(r) = "ok"}

(* _resolve_recordings up to the second fan-out: one failing recording     *)
(* fails the lookup.                                                       *)
Expand ==
    LET failing == FirstFailing(InRequestOrder)
        releases == UNION {Usable(r) : r \in Listed}
    IN
    /\ step = "browse" /\ \A r \in ToSet(ids) : task[r] = "done"
    /\ IF failing # 0 THEN Answered(ReplyOf(InRequestOrder[failing]), {}, {}) /\ UNCHANGED task
       ELSE IF releases = {} THEN Answered("nomatch", {}, {}) /\ UNCHANGED task
       ELSE step' = "detail" /\ task' = Awaiting(releases) /\ UNCHANGED result
    /\ UNCHANGED <<given, queued, refresh, job, ask, ids, ranks, got, replies, source, record,
                   events>>

(* A release is merged into another before or after this, not between the  *)
(* page that lists it and its details.                                     *)
Detail(r, a) ==
    /\ step = "detail" /\ task[r] = "asking"
    /\ Replies(a)
    /\ Finished(r, a)
    /\ UNCHANGED <<given, queued, refresh, job, ask, step, ids, ranks, got, result, source,
                   record>>

(* candidate_for_release: a recording the details do not list stays a      *)
(* candidate, with nothing but its release, unless it is a data track.     *)
IsCandidate(release, recording, detailed) ==
    ~(release \in detailed /\ recording \in DataTracks[release] \ Tracks[release])

(* The rest of _resolve_recordings.  A release whose details failed counts *)
(* with what the browse said of it.                                        *)
Resolve ==
    LET releases == UNION {Usable(r) : r \in Listed}
        detailed == {r \in releases : ReplyOf(r) = "ok"}
        pairs == {p \in ReleaseId \X Listed :
                     p[1] \in Usable(p[2]) /\ IsCandidate(p[1], p[2], detailed)}
    IN
    /\ step = "detail" /\ \A r \in releases : task[r] = "done"
    /\ Answered(IF pairs = {} THEN "nomatch" ELSE "match", pairs, detailed)
    /\ UNCHANGED <<given, queued, refresh, job, ask, ids, ranks, task, got, replies, source,
                   record, events>>

(* A confirmed pair: one release, one request.  A release that was merged  *)
(* into another is answered with the other one.                            *)
PairReply(a, release) ==
    /\ step = "pair"
    /\ IF release = ask.release THEN Replies(a) ELSE a = "ok" /\ Happens
    /\ CASE a \in Fault -> Answered(Outcome(a), {}, {})
         [] a = "ok" /\ IsCandidate(release, ask.recording, ReleaseId)
              -> Answered("match", {<<release, ask.recording>>}, {release})
         [] OTHER -> Answered("nomatch", {}, {})
    /\ UNCHANGED <<given, queued, refresh, job, ask, ids, ranks, task, got, replies, source,
                   record>>

-----------------------------------------------------------------------------
(* What is stored.                                                         *)

(* What candidate_for_release leaves the scoring to compare.  Without the  *)
(* details the artist asked for stands in for the artist of the release,   *)
(* and agrees with itself.                                                 *)
Fact(c, release, recording, detailed) ==
    LET listed == release \in detailed /\ recording \in Tracks[release] IN
    CASE c = "musicbrainz" -> SearchRank(ranks[recording])
      [] c = "acoustid" -> acoustic[recording]
      [] c # "duration" /\ c \notin {"musicbrainz", "acoustid"} /\ ~tagged -> Unknown
      [] c \in {"recording_artist", "release_artist"} /\ release \notin detailed -> 100
      [] c = "recording_artist" /\ release \in detailed /\ ~listed -> Agreement[release]["release_artist"]
      [] c = "disc_total" /\ release \notin detailed -> Unknown
      [] c \in {"title", "duration", "track_number", "track_total", "disc_number"} /\ ~listed -> Unknown
      [] OTHER -> Agreement[release][c]

(* _matching_request reads the decisions when a refresh has its answer,    *)
(* the record as it was loaded.                                            *)
Explicit(release, recording) ==
    LET decided == IF job = "refresh" THEN decisions ELSE ask.decisions IN
    \/ "confirmed" \in decided /\ release = ask.identity[1]
    \/ decided \intersect {"acoustid_confirmed", "recording_confirmed"} # {} /\ recording = ask.identity[2]

Scored(p) ==
    [pair |-> p,
     score |-> PairScore([c \in Component |-> Fact(c, p[1], p[2], result.detailed)],
                         Explicit(p[1], p[2]))]

(* The lookup leaves the stage.                                            *)
Leaves ==
    /\ job' = "none" /\ ask' = NoAsk /\ step' = "idle" /\ ids' = <<>> /\ ranks' = NoScores
    /\ task' = NoTasks /\ got' = [r \in RecordingId |-> 0] /\ replies' = <<>> /\ result' = NoResult

(* capture_provider_attempt: whatever came back, an outage included, is    *)
(* the latest run of the source from now on.                               *)
Captures ==
    /\ latest' = {Scored(p) : p \in result.pairs}
    /\ stored' = stored \union result.pairs

CaptureAnalysis ==
    /\ step = "answered" /\ job = "musicbrainz"
    /\ Captures /\ Leaves
    /\ queued' = queued \ {"musicbrainz"}
    /\ UNCHANGED <<given, refresh, heard, acoustic, record, events>>

(* Fault: a candidate on another release confirms the recording.           *)
RecordingConfirmed(p) == p[2] = ask.recording

(* musicbrainz_pair_tags.                                                  *)
PairConfirmed(p) == p = <<ask.release, ask.recording>>

(* The end of refresh_confirmed_identity: an outage raises, and the job    *)
(* with its run is undone and retried; a pair that is not confirmed any    *)
(* more, or that came back with another release, is left for review with   *)
(* its run stored; the tags of the pair become a final revision.           *)
CaptureRefresh ==
    /\ step = "answered" /\ job = "refresh"
    /\ Leaves
    /\ \/ /\ result.outcome \in Outage
          /\ UNCHANGED <<refresh, latest, stored, final>>
       \/ /\ result.outcome \notin Outage
          /\ Captures /\ refresh' = NoPair
          /\ \/ \E p \in result.pairs : PairConfirmed(p) /\ final' = p
             \/ (\A p \in result.pairs : ~PairConfirmed(p)) /\ UNCHANGED final
    /\ UNCHANGED <<given, queued, heard, acoustic, decisions, override, identity, matched,
                   overtaken, events>>

(* The transaction is lost, the row is claimed again.                      *)
Crash ==
    /\ job # "none" /\ Happens /\ Leaves
    /\ UNCHANGED <<given, queued, refresh, source, record>>

-----------------------------------------------------------------------------
(* The folder pass and the reviewers.                                      *)

(* folder_release_selection for this member, on whatever request: without  *)
(* a release above the threshold the record is left for review; otherwise  *)
(* the source is moved to the record of its best pair.                     *)
Select ==
    LET release == SelectFolderRelease([g \in {"own"} |-> ReleaseScores(latest)], Threshold, None) IN
    /\ queued = {} /\ job = "none" /\ Happens
    /\ IF release = None
       THEN matched' = FALSE /\ UNCHANGED <<identity, final>>
       ELSE \E c \in StoredCandidates(latest, release) :
                /\ identity' = c.pair /\ final' = c.pair
                /\ matched' = (matched \/ identity # c.pair)
    /\ UNCHANGED <<given, queued, refresh, job, lookup, source, decisions, override, overtaken>>

(* select_provider_candidate for a release: if another record carries the  *)
(* pair, the source moves there, and the move is an override.              *)
ConfirmCandidate(pair) ==
    /\ Happens /\ pair \in stored
    /\ identity' = pair /\ matched' = TRUE /\ final' = pair
    /\ decisions' = decisions \union {"confirmed"}
    /\ \/ UNCHANGED override
       \/ identity # pair /\ job = "none" /\ override' = pair[2]
    /\ overtaken' = (overtaken \/ identity # pair)
    /\ UNCHANGED <<given, queued, refresh, job, lookup, source>>

(* ... for a recording: MusicBrainz is asked again.                        *)
ConfirmRecording(kind) ==
    /\ Happens /\ (heard # <<>> \/ stored # {})
    /\ decisions' = decisions \union {kind}
    /\ queued' = queued \union {"musicbrainz"}
    /\ UNCHANGED <<given, refresh, job, lookup, source, override, identity, matched, final,
                   overtaken>>

(* load_musicbrainz_release_candidates: a reviewer asks for a release of a  *)
(* recording, or for all of them.  What comes back belongs to no run, and  *)
(* a release that answers with another identifier is refused.              *)
LoadCandidates(recording, release, detailed) ==
    LET listed == IF release = None THEN ToSet(Lists[recording]) \ Unofficial ELSE {release}
        pairs == {p \in listed \X {recording} : IsCandidate(p[1], p[2], detailed)}
    IN
    /\ Happens /\ release \in detailed \union {None} /\ pairs # {}
    /\ stored' = stored \union pairs
    /\ UNCHANGED <<given, queued, refresh, job, lookup, heard, acoustic, latest, record>>

(* override_musicbrainz_recording waits for the source row and gives no    *)
(* release, so the record is left for review.                              *)
Override(recording) ==
    /\ Happens /\ job = "none"
    /\ override' = recording /\ matched' = FALSE
    /\ UNCHANGED <<given, queued, refresh, job, lookup, source, decisions, identity, final,
                   overtaken>>

(* update_library_identity takes no lock that an analysis holds.           *)
UpdateIdentity(pair) ==
    /\ Happens /\ identity' = pair /\ matched' = TRUE
    /\ overtaken' = (overtaken \/ identity # pair)
    /\ UNCHANGED <<given, queued, refresh, job, lookup, source, decisions, override, final>>

(* A refresh of all confirmed pairs; retries of the analyses.              *)
RequestRefresh ==
    /\ Happens /\ identity # NoPair /\ matched /\ job # "refresh"
    /\ refresh' = identity
    /\ UNCHANGED <<given, queued, job, lookup, source, record>>

Reanalyse(kind) ==
    /\ Happens /\ kind \notin queued
    /\ queued' = queued \union {kind}
    /\ UNCHANGED <<given, refresh, job, lookup, source, record>>

(* A job that runs, and the row lock it holds, refuse the choice of an     *)
(* encoding: nothing is waited for.                                        *)
EncodingFree == job = "none"

(* apply_encoding, for texts that come out different: what was stored in   *)
(* their favour is retired by an empty run, every job that waits for the   *)
(* source is superseded, a refresh included, and MusicBrainz is asked      *)
(* again.  The recordings AcoustID heard stay.  (A choice that changes no  *)
(* text carries jobs and runs over to the new revision: a stutter here.)   *)
ApplyEncoding ==
    /\ Happens /\ EncodingFree
    /\ queued' = {"musicbrainz"} /\ refresh' = NoPair /\ latest' = {}
    /\ UNCHANGED <<given, job, lookup, heard, acoustic, stored, record>>

-----------------------------------------------------------------------------
Works ==
    \/ \E names \in Heard : Listen("ok", names)
    \/ \E names \in Found : Search("ok", names)
    \/ \E a \in Fault : Listen(a, <<>>)
    \/ \E a \in Fault \union {"refused"} : Search(a, <<>>)
    \/ StartMusicBrainz \/ StartRefresh
    \/ \E t \in RecordingId \union ReleaseId : Begin(t)
    \/ \E r \in RecordingId, a \in {"ok"} \union Fault : Browse(r, a)
    \/ Expand
    \/ \E r \in ReleaseId, a \in {"ok"} \union Fault : Detail(r, a)
    \/ Resolve
    \/ \E a \in {"ok"} \union Fault, r \in ReleaseId : PairReply(a, r)
    \/ CaptureAnalysis \/ CaptureRefresh

Reviewed ==
    \/ \E p \in stored : ConfirmCandidate(p)
    \/ \E k \in {"acoustid_confirmed", "recording_confirmed"} : ConfirmRecording(k)
    \/ \E r \in RecordingId, l \in ReleaseId \union {None}, d \in SUBSET ReleaseId :
           LoadCandidates(r, l, d)
    \/ \E r \in RecordingId : Override(r)
    \/ \E p \in Pair : UpdateIdentity(p)
    \/ RequestRefresh
    \/ \E k \in {"acoustid", "musicbrainz"} : Reanalyse(k)
    \/ ApplyEncoding

LookupNext == Works \/ Crash \/ Select \/ Reviewed

LookupSpec == LookupInit /\ [][LookupNext]_lookupVars

(* The worker goes on working: every claimed job runs, every request of a  *)
(* transport ends in a reply or a failure.                                 *)
LookupFairSpec == LookupSpec /\ WF_lookupVars(Works)

-----------------------------------------------------------------------------
(* Safety.                                                                 *)

(* The order in which the answers of a fan-out come in decides nothing: a  *)
(* lookup fails as its first failing recording does, in the order of the   *)
(* request, and otherwise finds what was listed.                           *)
ResultInOrder ==
    step = "answered" /\ ids # <<>> =>
        LET failed == {i \in DOMAIN ids : ReplyOf(ids[i]) # "ok"} IN
        IF failed = {} THEN result.outcome \notin Outage
        ELSE result.outcome = ReplyOf(ids[Min(failed)])

(* A fan-out finds all there is or fails: every release the server lists   *)
(* for a recording asked about, on whatever page, is a candidate with it,  *)
(* and nothing else is.  Left out are the releases with a status that is   *)
(* neither official nor promotional, and those whose details show the      *)
(* recording as a data track only; where the details could not be had, the *)
(* browse vouches.                                                         *)
AllIsFound ==
    step = "answered" /\ ids # <<>> /\ result.outcome \notin Outage =>
        \A release \in ReleaseId, recording \in RecordingId :
            <<release, recording>> \in result.pairs <=>
                /\ recording \in ToSet(ids) /\ release \in ToSet(Lists[recording]) \ Unofficial
                /\ release \in result.detailed =>
                       recording \in Tracks[release] \/ recording \notin DataTracks[release]

(* A refresh writes the pair it was queued for, while this is the record's *)
(* confirmed identity: one that changed before the job began is noticed,   *)
(* one that changes during the requests (overtaken) is not.  A release     *)
(* that has been merged into another answers with that one, and the tags   *)
(* of the other are not written.                                           *)
RefreshWritesConfirmed ==
    [][job = "refresh" /\ job' = "none" /\ final' # final =>
         final' = refresh /\ (identity = final' \/ overtaken)]_lookupVars

(* Everything that is asked for comes to an end, whatever the servers do.  *)
LookupsEnd == <>[](queued = {} /\ refresh = NoPair /\ job = "none")
=============================================================================
