-------------------------- MODULE FolderSelection --------------------------
(***************************************************************************)
(* One folder of sources on its way through the enrichment pipeline:       *)
(* import, AcoustID, MusicBrainz, candidate selection, and the folder pass *)
(* that selects one release for all of its members.  (handlers/initial.py, *)
(* analysis.py, selection.py; services/candidates.py.)                     *)
(*                                                                         *)
(* The stages hand over through the job queue.  An enqueue that finds an   *)
(* active job of its kind joins it, and a job that is being executed still *)
(* looks queued to everybody else; therefore every job is modelled by the  *)
(* statements it reads with and the commit in which it settles, inserts    *)
(* and writes.  JobQueue has the locks below this view: here a retry is a  *)
(* commit that did not happen, and of several jobs of one kind for one     *)
(* source one is executed at a time, since they lock the source.           *)
(*                                                                         *)
(* Scores are abstracted to the set of releases that reach the confidence  *)
(* threshold; sources do not leave the folder or change their files.       *)
(*                                                                         *)
(* Bounds: MaxRequests retries asked for by operators.                     *)
(***************************************************************************)
EXTENDS Integers, FiniteSets

CONSTANTS Member, Release,
          Provider,      \* the configured ones
          MayGiveUp,     \* whether provider jobs may end without evidence
          MaxRequests

ASSUME FolderAssumption ==
    /\ Provider \subseteq {"acoustid", "musicbrainz"} /\ Provider # {}
    /\ MayGiveUp \in BOOLEAN /\ MaxRequests \in Nat

Scan(m) == <<"filesystem_scan", m>>
AcoustId(m) == <<"acoustid_analysis", m>>
MusicBrainz(m) == <<"musicbrainz_analysis", m>>
Candidate(m) == <<"candidate_selection", m>>
Folder == <<"folder_release_selection", "folder">>

Collection(m) == {Scan(m), AcoustId(m), MusicBrainz(m)}
Key == (UNION {Collection(m) \union {Candidate(m)} : m \in Member}) \union {Folder}

VARIABLES
    member,    \* sources of the folder that have a library record
    imported,  \* those with a stored fingerprint
    rows,      \* number of committed queued or running jobs of each key
    work,      \* what the execution of an active job has read
    run,       \* number of the latest candidate run of each provider
    found,     \* releases of the latest MusicBrainz run that qualify
    judged,    \* the MusicBrainz run the last pass over a member was based on
    release,   \* the release last selected for a member
    joined,    \* whether work was left to a job that had already read
    gaveUp,    \* whether a provider job ended without evidence
    requests

vars == <<member, imported, rows, work, run, found, judged, release, joined,
          gaveUp, requests>>

NoRelease == "none"
NoView == [m \in {} |-> 0]
Idle == [at |-> "idle", follow |-> {}, joins |-> {}, found |-> NoView, run |-> NoView]

TypeOK ==
    /\ imported \subseteq member /\ member \subseteq Member
    /\ rows \in [Key -> Nat]
    /\ \A k \in Key :
         /\ work[k].at \in {"idle", "checked", "read", "decided", "ending"}
         /\ work[k].follow \subseteq Key /\ work[k].joins \subseteq Key
         /\ DOMAIN work[k].run = DOMAIN work[k].found /\ DOMAIN work[k].run \subseteq member
         /\ work[k].at # "idle" => rows[k] > 0
    /\ run \in [Member -> [{"acoustid", "musicbrainz"} -> Nat]]
    /\ found \in [Member -> SUBSET Release]
    /\ judged \in [Member -> Nat]
    /\ release \in [Member -> Release \union {NoRelease}]
    /\ joined \in BOOLEAN /\ gaveUp \in BOOLEAN /\ requests \in Nat

Init ==
    /\ member = {} /\ imported = {}
    /\ rows = [k \in Key |-> 0]
    /\ work = [k \in Key |-> Idle]
    /\ run = [m \in Member |-> [p \in {"acoustid", "musicbrainz"} |-> 0]]
    /\ found = [m \in Member |-> {}]
    /\ judged = [m \in Member |-> 0]
    /\ release = [m \in Member |-> NoRelease]
    /\ joined = FALSE /\ gaveUp = FALSE /\ requests = 0

-----------------------------------------------------------------------------
(* The queue as the handlers see it.                                       *)

Active == {k \in Key : rows[k] > 0}
Started(k) == work[k].at # "idle"
Waiting(k) == rows[k] > IF Started(k) THEN 1 ELSE 0
Ready(k) == Waiting(k) /\ ~Started(k)

(* A handler's enqueue: insert the job, or join the active one.            *)
Wanting(keys) == [Idle EXCEPT !.at = "decided", !.follow = keys \ Active,
                              !.joins = keys \intersect Active]
Ending == [Idle EXCEPT !.at = "ending"]

Read(k, w) == work' = [work EXCEPT ![k] = w]

(* The commit of job k.  What k left to a job that has meanwhile read its  *)
(* inputs, or is gone, is seen by nobody.                                  *)
Settle(k) ==
    /\ rows' = [j \in Key |-> rows[j] + (IF j \in work[k].follow THEN 1 ELSE 0)
                                      - (IF j = k THEN 1 ELSE 0)]
    /\ work' = [work EXCEPT ![k] = Idle]
    /\ joined' = (joined \/ \E j \in work[k].joins : ~Waiting(j))

-----------------------------------------------------------------------------
(* Intake and operators.                                                   *)

(* A source appears with a record of its own and its import queued.        *)
Arrive(m) ==
    /\ m \notin member
    /\ member' = member \union {m}
    /\ rows' = [rows EXCEPT ![Scan(m)] = 1]
    /\ UNCHANGED <<imported, work, run, found, judged, release, joined, gaveUp, requests>>

Request(k) ==
    /\ requests < MaxRequests /\ requests' = requests + 1
    /\ k \notin Active /\ rows' = [rows EXCEPT ![k] = 1]
    /\ UNCHANGED <<member, imported, work, run, found, judged, release, joined, gaveUp>>

(* Retrying all stages begins with AcoustID, as retrying that one does.    *)
RetryProvider(m) == m \in member /\ (Request(MusicBrainz(m)) \/ Request(AcoustId(m)))

-----------------------------------------------------------------------------
(* Import: the fingerprint is stored and the first provider job queued.    *)

FirstAnalysis(m) == IF "acoustid" \in Provider THEN AcoustId(m) ELSE MusicBrainz(m)

ReadImport(m) ==
    /\ Ready(Scan(m)) /\ Read(Scan(m), Wanting({FirstAnalysis(m)}))
    /\ UNCHANGED <<member, imported, rows, run, found, judged, release, joined,
                   gaveUp, requests>>

CommitImport(m) ==
    /\ work[Scan(m)].at = "decided" /\ Settle(Scan(m))
    /\ imported' = imported \union {m}
    /\ UNCHANGED <<member, run, found, judged, release, gaveUp, requests>>

-----------------------------------------------------------------------------
(* Provider analysis.  The source stays locked from the first read on.     *)

SourceFree(m) == ~Started(AcoustId(m)) /\ ~Started(MusicBrainz(m))

(* Fault: the job counts itself as collection that is still going on.      *)
EverythingCollected(m, k, p) ==
    /\ Collection(m) \intersect Active = {}
    /\ \A q \in Provider : q = p \/ run[m][q] > 0

(* enqueue_candidate_selection_if_ready, in job k that has just captured a *)
(* run of provider p.                                                      *)
Collected(m, k, p) ==
    /\ (Collection(m) \ {k}) \intersect Active = {} /\ rows[k] = 1
    /\ \A q \in Provider : q = p \/ run[m][q] > 0

Selection(m, k, p) == IF Collected(m, k, p) THEN {Candidate(m)} ELSE {}

AfterAcoustId(m) ==
    IF "musicbrainz" \in Provider THEN {MusicBrainz(m)}
    ELSE Selection(m, AcoustId(m), "acoustid")

(* lookup_providers has nothing to ask without a fingerprint, or when the  *)
(* provider of this stage is not configured: the job succeeds there.       *)
Askable(m, p) == m \in imported /\ p \in Provider

ReadAcoustId(m) ==
    /\ Ready(AcoustId(m)) /\ SourceFree(m)
    /\ Read(AcoustId(m), IF Askable(m, "acoustid") THEN Wanting(AfterAcoustId(m)) ELSE Ending)
    /\ UNCHANGED <<member, imported, rows, run, found, judged, release, joined,
                   gaveUp, requests>>

(* Retried where AcoustID is not configured, the stage was collection to   *)
(* everybody who looked, and nothing follows it.                           *)
CommitAcoustId(m) ==
    LET k == AcoustId(m) IN
    /\ work[k].at \in {"decided", "ending"} /\ Settle(k)
    /\ run' = IF work[k].at = "decided" THEN [run EXCEPT ![m]["acoustid"] = @ + 1] ELSE run
    /\ gaveUp' = (gaveUp \/ "acoustid" \notin Provider)
    /\ UNCHANGED <<member, imported, found, judged, release, requests>>

ReadMusicBrainz(m) ==
    LET k == MusicBrainz(m) IN
    /\ Ready(k) /\ SourceFree(m)
    /\ Read(k, IF Askable(m, "musicbrainz") THEN Wanting(Selection(m, k, "musicbrainz"))
               ELSE Ending)
    /\ UNCHANGED <<member, imported, rows, run, found, judged, release, joined,
                   gaveUp, requests>>

(* Whatever the provider answers, an outage included, becomes a run.       *)
CommitMusicBrainz(m) ==
    LET k == MusicBrainz(m) IN
    /\ work[k].at \in {"decided", "ending"} /\ Settle(k)
    /\ IF work[k].at = "ending" THEN UNCHANGED <<run, found>>
       ELSE /\ run' = [run EXCEPT ![m]["musicbrainz"] = @ + 1]
            /\ \E rs \in SUBSET Release : found' = [found EXCEPT ![m] = rs]
    /\ UNCHANGED <<member, imported, judged, release, gaveUp, requests>>

(* A collection job is blocked after its last attempt, quarantines its     *)
(* source, or succeeds without a query: nothing follows.                   *)
GiveUp(k) ==
    /\ MayGiveUp /\ Ready(k) /\ \E m \in Member : k \in Collection(m)
    /\ rows' = [rows EXCEPT ![k] = @ - 1] /\ gaveUp' = TRUE
    /\ UNCHANGED <<member, imported, work, run, found, judged, release, joined, requests>>

-----------------------------------------------------------------------------
(* Candidate selection: when no member is being collected, a folder pass.  *)

Collecting(ms) == (UNION {Collection(m) : m \in ms}) \intersect Active # {}

CheckFolder(m) ==
    /\ Ready(Candidate(m))
    /\ Read(Candidate(m), IF Collecting(member) THEN Ending ELSE [Idle EXCEPT !.at = "checked"])
    /\ UNCHANGED <<member, imported, rows, run, found, judged, release, joined,
                   gaveUp, requests>>

(* A pass that has yet to read will see everything committed so far.       *)
LookUpPass(m) ==
    /\ work[Candidate(m)].at = "checked"
    /\ Read(Candidate(m), [Idle EXCEPT !.at = "decided",
                                       !.follow = {Folder} \ Active,
                                       !.joins = IF Started(Folder) THEN {Folder} ELSE {}])
    /\ UNCHANGED <<member, imported, rows, run, found, judged, release, joined,
                   gaveUp, requests>>

(* The insert of a second pass breaks the unique index and is retried.     *)
CommitCandidate(m) ==
    LET k == Candidate(m) IN
    /\ work[k].at \in {"decided", "ending"}
    /\ IF work[k].follow \intersect Active # {}
       THEN Read(k, Idle) /\ UNCHANGED <<rows, joined>>
       ELSE Settle(k)
    /\ UNCHANGED <<member, imported, run, found, judged, release, gaveUp, requests>>

-----------------------------------------------------------------------------
(* The folder pass.                                                        *)

(* The members are loaded with their candidates, then ...                  *)
ReadMembers ==
    /\ Ready(Folder) /\ member # {}
    /\ Read(Folder, [Idle EXCEPT !.at = "read",
                                 !.found = [m \in member |-> found[m]],
                                 !.run = [m \in member |-> run[m]["musicbrainz"]]])
    /\ UNCHANGED <<member, imported, rows, run, found, judged, release, joined,
                   gaveUp, requests>>

(* ... the jobs that still collect for them are looked for.                *)
CheckMembers ==
    /\ work[Folder].at = "read"
    /\ Read(Folder, IF Collecting(DOMAIN work[Folder].run) THEN Ending
                    ELSE [work[Folder] EXCEPT !.at = "decided"])
    /\ UNCHANGED <<member, imported, rows, run, found, judged, release, joined,
                   gaveUp, requests>>

(* select_folder_release: those that every member has a candidate of.      *)
Shared(groups) == {r \in Release : \A m \in DOMAIN groups : r \in groups[m]}

(* Fault: members whose run has been judged before are left alone.         *)
AssociateNew(seen, r) ==
    [m \in Member |-> IF m \in DOMAIN seen /\ seen[m] # judged[m] THEN r ELSE release[m]]

Associate(seen, r) == [m \in Member |-> IF m \in DOMAIN seen THEN r ELSE release[m]]

(* Every member is associated with the selected release, or the folder is  *)
(* left for review.                                                        *)
CommitPass ==
    LET seen == work[Folder].run
        shared == Shared(work[Folder].found)
    IN
    /\ work[Folder].at \in {"decided", "ending"} /\ Settle(Folder)
    /\ IF work[Folder].at = "ending" THEN UNCHANGED <<judged, release>>
       ELSE /\ judged' = [m \in Member |-> IF m \in DOMAIN seen THEN seen[m] ELSE judged[m]]
            /\ IF shared = {} THEN UNCHANGED release
               ELSE \E r \in shared : release' = Associate(seen, r)
    /\ UNCHANGED <<member, imported, run, found, gaveUp, requests>>

Next ==
    \/ \E m \in Member : Arrive(m) \/ RetryProvider(m)
    \/ \E m \in Member : ReadImport(m) \/ CommitImport(m)
    \/ \E m \in Member : ReadAcoustId(m) \/ CommitAcoustId(m)
    \/ \E m \in Member : ReadMusicBrainz(m) \/ CommitMusicBrainz(m)
    \/ \E k \in Key : GiveUp(k)
    \/ \E m \in Member : CheckFolder(m) \/ LookUpPass(m) \/ CommitCandidate(m)
    \/ ReadMembers \/ CheckMembers \/ CommitPass

Spec == Init /\ [][Next]_vars

-----------------------------------------------------------------------------
(* Safety.                                                                 *)

(* An album is not split: all members that automatic selection has placed  *)
(* are on the same release, although each pass reads, decides and commits  *)
(* at different times and members keep arriving and being analysed.        *)
OneRelease ==
    \A m, n \in Member :
        release[m] # NoRelease /\ release[n] # NoRelease => release[m] = release[n]

Quiet == Active = {}
Complete(m) == m \in member /\ \A p \in Provider : run[m][p] > 0
UpToDate == \A m \in Member : Complete(m) => judged[m] = run[m]["musicbrainz"]

(* The ways to lose a member are two: a provider job ends without evidence,*)
(* or an enqueue joins a job that has read its inputs.  No order of the    *)
(* barrier's checks, deferrals, early returns and retried inserts does it. *)
LostOnlyByJoining == Quiet /\ ~gaveUp /\ ~joined => UpToDate

=============================================================================
