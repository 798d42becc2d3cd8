----------------------------- MODULE OutputTree -----------------------------
(***************************************************************************)
(* The output tree as a whole: moving it to another root while the library *)
(* keeps being served (services/storage.py, storage_migration.py), the     *)
(* relocation gate that keeps writers out, removing orphans from it        *)
(* (services/publication/reconciliation.py), and the lyrics sidecars that  *)
(* handlers/lrclib.py writes next to the audio.                            *)
(*                                                                         *)
(* The gate is PostgreSQL advisory lock 732014902, held until the session  *)
(* commits: shared by whoever runs a job or a publication step, exclusive  *)
(* for moving and sweeping.  A session that waits for it exclusively keeps *)
(* newcomers out.  Files change at once, rows at the commit; a lost        *)
(* process forgets its task and leaves the files as they are.              *)
(*                                                                         *)
(* A record keeps its file name; PublicationJournal has the steps of an    *)
(* exposure, which is one step here, and several attempts for one path.    *)
(*                                                                         *)
(* Bounds: MaxVersion contents of a file, MaxMoves moves, MaxFaults lost   *)
(* processes, failed copies and lost files.                                *)
(***************************************************************************)
EXTENDS Integers

CONSTANTS Record, Worker,
          Root,       \* directories the output may be in
          Home,       \* where it is first
          Job,        \* what workers do: "publish", "lyrics", "sweep"
          Losable,    \* records whose published file somebody may delete
          MaxVersion, MaxMoves, MaxFaults

Audio(r) == <<"audio", r>>
Lrc(r) == <<"lrc", r>>
Nfo == <<"nfo", "album">>      \* written by the media server, never by the service
Names == {Audio(r) : r \in Record} \union {Lrc(r) : r \in Record} \union {Nfo}

Cwd == "working_directory"     \* of the service's process
Maintenance == "maintenance"
Session == Worker \union {Maintenance}

None == 0
Content == 0 .. MaxVersion

ASSUME TreeAssumption ==
    /\ Home \in Root /\ Cwd \notin Root /\ Maintenance \notin Worker
    /\ MaxVersion \in Nat \ {0} /\ MaxMoves \in Nat /\ MaxFaults \in Nat
    /\ Job \subseteq {"publish", "lyrics", "sweep"} /\ Losable \subseteq Record

VARIABLES
    storage,   \* StorageConfigRecord: state, output_root
    journal,   \* its migration_json
    tree,      \* the files under each root
    pub,       \* the newest LibraryPublicationRecord of each record
    refresh,   \* records whose publication is to be made again
    lyrics,    \* lyrics_status and lyrics_evidence_json of each record
    attempt,   \* the uncleaned publication attempt of each record
    removing,  \* removals between their two transactions
    task,      \* what each session is doing
    mover,     \* the request that moves the output
    moves, faults

vars == <<storage, journal, tree, pub, refresh, lyrics, attempt, removing, task,
          mover, moves, faults>>
rows == <<storage, journal, pub, refresh, lyrics, attempt>>

NoAttempt == [root |-> Home, content |-> None]
NoMove == [phase |-> "complete", source |-> Home, destination |-> Home,
           files |-> {}, hash |-> [n \in Names |-> None], managed |-> {}, passed |-> {}]
Idle == [at |-> "idle", rec |-> "none", root |-> Home, content |-> None]

TypeOK ==
    /\ storage \in [state: {"ready", "migrating"}, root: Root]
    /\ journal \in [phase: {"copying", "cleanup", "complete"},
                    source: Root, destination: Root, files: SUBSET Names,
                    hash: [Names -> Content], managed: SUBSET Names, passed: SUBSET Names]
    /\ tree \in [Root -> [Names -> Content]]
    /\ pub \in [Record -> [state: {"none", "current", "withdrawn", "inactive"},
                           root: Root, content: Content]]
    /\ refresh \subseteq Record
    /\ lyrics \in [Record -> {"none", "evidence", "synced"}]
    /\ attempt \in [Record -> [root: Root, content: Content]]
    /\ removing \subseteq Record
    /\ task \in [Session -> [at: {"idle", "publish", "lyrics", "written", "saw", "exposed",
                                  "sweep", "upgrade", "swept", "wants", "moved"},
                             rec: Record \union {"none"}, root: Root, content: Content]]
    /\ mover \in Root \union {"none"}
    /\ moves \in Nat /\ faults \in Nat

Init ==
    /\ storage = [state |-> "ready", root |-> Home]
    /\ journal = NoMove
    /\ tree = [d \in Root |-> [n \in Names |-> None]]
    /\ pub = [r \in Record |-> [state |-> "none", root |-> Home, content |-> None]]
    /\ refresh = {}
    /\ lyrics = [r \in Record |-> "none"]
    /\ attempt = [r \in Record |-> NoAttempt]
    /\ removing = {}
    /\ task = [s \in Session |-> Idle]
    /\ mover = "none"
    /\ moves = 0 /\ faults = 0

-----------------------------------------------------------------------------
(* The gate and the locks below it.                                        *)

Shares(s) == task[s].at \in {"publish", "lyrics", "written", "exposed", "sweep", "upgrade"}
Excludes(s) == task[s].at \in {"swept", "moved"}
Waits(s) == task[s].at \in {"upgrade", "wants"}

MayShare ==
    /\ mover = "none"
    /\ \A s \in Session : ~Excludes(s) /\ ~Waits(s)

(* A session may hold the gate shared already, and then is let in first.   *)
MayExclude(s) == \A t \in Session \ {s} : ~Excludes(t) /\ ~Shares(t)
Granted == \A t \in Session : ~Excludes(t) /\ ~Shares(t)

Locked(r) == \E s \in Session : task[s].at # "saw" /\ task[s].rec = r
StorageLocked == \E s \in Session : task[s].at = "exposed" \/ Excludes(s)

Become(s, t) == task' = [task EXCEPT ![s] = t]
Put(d, n, c) == tree' = [tree EXCEPT ![d][n] = c]

Uncleaned(r) == attempt[r] # NoAttempt
Current(r) == pub[r].state = "current"

(* run_once: the gate, then the configuration as it is now.                *)
Runs(w, kind) ==
    /\ task[w].at = "idle" /\ kind \in Job
    /\ MayShare /\ storage.state = "ready"

-----------------------------------------------------------------------------
(* Jobs that publish.                                                      *)

(* A publication of the same revision at the same path needs no attempt.   *)
(* The record lock is waited for with the gate held.                       *)
Prepare(w, r) ==
    /\ Runs(w, "publish") /\ ~Locked(r) /\ ~Uncleaned(r)
    /\ \E c \in Content \ {None} :
         /\ Current(r) => c # pub[r].content
         /\ Become(w, [at |-> "publish", rec |-> r, root |-> storage.root, content |-> c])
    /\ UNCHANGED <<rows, tree, removing, mover, moves, faults>>

(* The commit leaves a prepared attempt and ends the gate; the worker goes *)
(* on to the steps of its source's attempts.                               *)
CommitPrepared(w) ==
    /\ task[w].at = "publish"
    /\ attempt' = [attempt EXCEPT ![task[w].rec] =
                     [root |-> task[w].root, content |-> task[w].content]]
    /\ refresh' = refresh \ {task[w].rec}
    /\ Become(w, [task[w] EXCEPT !.at = "saw"])
    /\ UNCHANGED <<storage, journal, tree, pub, lyrics, removing, mover, moves, faults>>

(* maintain_storage sees an attempt, holding nothing.                      *)
SeeAttempt(r) ==
    /\ task[Maintenance].at = "idle"
    /\ storage.state = "ready" /\ Uncleaned(r)
    /\ Become(Maintenance, [Idle EXCEPT !.at = "saw", !.rec = r, !.root = attempt[r].root,
                                        !.content = attempt[r].content])
    /\ UNCHANGED <<rows, tree, removing, mover, moves, faults>>

(* _reconcile_step reads the attempt again under its locks and exposes the *)
(* output; a busy lock ends the step until a later pass.                   *)
Expose(s) ==
    LET r == task[s].rec IN
    /\ task[s].at = "saw" /\ MayShare
    /\ IF ~Uncleaned(r) \/ Locked(r) \/ StorageLocked
       THEN Become(s, Idle) /\ UNCHANGED tree
       ELSE /\ Put(attempt[r].root, Audio(r), attempt[r].content)
            /\ Become(s, [at |-> "exposed", rec |-> r, root |-> attempt[r].root,
                          content |-> attempt[r].content])
    /\ UNCHANGED <<rows, removing, mover, moves, faults>>

(* The attempt is finalized and cleaned; the record's lyrics are to be     *)
(* fetched again, what was learnt of them is kept.                         *)
Finalize(s) ==
    LET r == task[s].rec IN
    /\ task[s].at = "exposed"
    /\ pub' = [pub EXCEPT ![r] = [state |-> "current", root |-> task[s].root,
                                  content |-> task[s].content]]
    /\ lyrics' = [lyrics EXCEPT ![r] = IF @ = "none" THEN "none" ELSE "evidence"]
    /\ attempt' = [attempt EXCEPT ![r] = NoAttempt]
    /\ Become(s, Idle)
    /\ UNCHANGED <<storage, journal, tree, refresh, removing, mover, moves, faults>>

-----------------------------------------------------------------------------
(* Lyrics: the record is locked throughout, the root is the worker's.      *)

FetchLyrics(w, r) ==
    /\ Runs(w, "lyrics") /\ ~Locked(r) /\ Current(r)
    /\ Become(w, [at |-> "lyrics", rec |-> r, root |-> storage.root, content |-> None])
    /\ UNCHANGED <<rows, tree, removing, mover, moves, faults>>

(* The sidecar goes next to the audio, which must be under the root.       *)
WriteSidecar(w) ==
    LET r == task[w].rec IN
    /\ task[w].at = "lyrics" /\ pub[r].root = task[w].root
    /\ Put(task[w].root, Lrc(r), pub[r].content)
    /\ Become(w, [task[w] EXCEPT !.at = "written"])
    /\ UNCHANGED <<rows, removing, mover, moves, faults>>

SettleLyrics(w) ==
    /\ task[w].at = "written"
    /\ lyrics' = [lyrics EXCEPT ![task[w].rec] = "synced"]
    /\ Become(w, Idle)
    /\ UNCHANGED <<storage, journal, tree, pub, refresh, attempt, removing, mover,
                   moves, faults>>

(* A job fails, or its session is lost; one without a fault is a fetch     *)
(* that brings no lyrics.                                                  *)
FailJob(w) ==
    /\ task[w].at \in {"publish", "lyrics", "written"}
    /\ \/ task[w].at = "lyrics" /\ UNCHANGED faults
       \/ faults < MaxFaults /\ faults' = faults + 1
    /\ Become(w, Idle)
    /\ UNCHANGED <<rows, tree, removing, mover, moves>>

-----------------------------------------------------------------------------
(* The publication_reconciliation job.                                     *)

(* The unique index on active jobs of the kind admits one at a time.       *)
ClaimSweep(w) ==
    /\ Runs(w, "sweep")
    /\ \A v \in Worker : task[v].at \notin {"sweep", "upgrade", "swept"}
    /\ Become(w, [Idle EXCEPT !.at = "sweep"])
    /\ UNCHANGED <<rows, tree, removing, mover, moves, faults>>

(* The handler asks for the gate exclusively while its worker shares it.   *)
Upgrade(w) ==
    /\ task[w].at = "sweep"
    /\ Become(w, [Idle EXCEPT !.at = "upgrade"])
    /\ UNCHANGED <<rows, tree, removing, mover, moves, faults>>

(* os.path.abspath: a relative path is taken from the working directory.   *)
File(d, n) == [dir |-> d, name |-> n]
Relative == "relative"
Absolute(f) == IF f.dir = Relative THEN [f EXCEPT !.dir = Cwd] ELSE f

HasFile(r) == pub[r].root = storage.root /\ tree[storage.root][Audio(r)] # None

(* Files that rows of any publication or unfinished attempt name, and the  *)
(* sidecars, stored relative to the output root, of directories with audio.*)
Represented ==
    LET audio == {File(pub[r].root, Audio(r)) : r \in {r \in Record : pub[r].state # "none"}}
                 \union {File(attempt[r].root, Audio(r)) : r \in {r \in Record : Uncleaned(r)}}
        sidecars == {Absolute(File(Relative, Lrc(r))) : r \in {r \in Record : lyrics[r] # "none"}}
        inUse == \E r \in Record : HasFile(r) \/ Uncleaned(r)
    IN  audio \union IF inUse THEN sidecars ELSE {}

(* What the walk over the tree unlinks: everything else but .nfo files.    *)
Orphans ==
    {n \in Names \ {Nfo} : File(storage.root, n) \notin Represented}

Sweep(w) ==
    /\ task[w].at = "upgrade" /\ MayExclude(w)
    /\ tree' = [tree EXCEPT ![storage.root] =
                  [n \in Names |-> IF n \in Orphans THEN None ELSE @[n]]]
    /\ Become(w, [Idle EXCEPT !.at = "swept"])
    /\ UNCHANGED <<rows, removing, mover, moves, faults>>

Missing(r) == Current(r) /\ ~HasFile(r) /\ ~Uncleaned(r)

(* Fault: a missing publication is marked and not queued.                  *)
MarkOnly(w) ==
    /\ task[w].at = "swept"
    /\ pub' = [r \in Record |-> IF Missing(r) THEN [pub[r] EXCEPT !.state = "inactive"]
                                ELSE pub[r]]
    /\ Become(w, Idle)
    /\ UNCHANGED <<storage, journal, tree, refresh, lyrics, attempt, removing, mover,
                   moves, faults>>

(* Publications without a file become inactive and are selected again.     *)
CommitSweep(w) ==
    /\ task[w].at = "swept"
    /\ pub' = [r \in Record |-> IF Missing(r) THEN [pub[r] EXCEPT !.state = "inactive"]
                                ELSE pub[r]]
    /\ refresh' = refresh \union {r \in Record : Missing(r)}
    /\ Become(w, Idle)
    /\ UNCHANGED <<storage, journal, tree, lyrics, attempt, removing, mover, moves, faults>>

-----------------------------------------------------------------------------
(* Moving the output.                                                      *)

(* An operator's request waits for the gate.                               *)
AskMove(d) ==
    /\ mover = "none" /\ moves < MaxMoves
    /\ mover' = d /\ moves' = moves + 1
    /\ UNCHANGED <<rows, tree, removing, task, faults>>

Empty(d) == \A n \in Names : tree[d][n] = None

(* move_output: an empty destination, no unfinished attempt, every current *)
(* publication intact.                                                     *)
Acceptable(d) ==
    /\ storage.state = "ready" /\ d # storage.root /\ Empty(d)
    /\ \A r \in Record : ~Uncleaned(r)
    /\ \A r \in Record : Current(r) => tree[pub[r].root][Audio(r)] = pub[r].content

(* Paths that rows of publications name; never an .nfo.                    *)
Managed(d) == {Audio(r) : r \in {r \in Record : pub[r].state # "none" /\ pub[r].root = d}}

(* Fault: only managed files are moved.                                    *)
ManifestOfManaged(d) == {n \in Managed(d) : tree[d][n] # None}

(* Every file below the root, managed or not.  The code sorts them and     *)
(* keeps a cursor; here the set of those it has passed, in some order.     *)
Manifest(d) == {n \in Names : tree[d][n] # None}

Move ==
    LET old == storage.root IN
    /\ mover # "none" /\ Granted
    /\ IF ~Acceptable(mover) THEN UNCHANGED <<storage, journal>>
       ELSE /\ storage' = [storage EXCEPT !.state = "migrating"]
            /\ journal' = [phase |-> "copying", source |-> old, destination |-> mover,
                           files |-> Manifest(old),
                           hash |-> tree[old], managed |-> Managed(old), passed |-> {}]
    /\ mover' = "none"
    /\ UNCHANGED <<tree, pub, refresh, lyrics, attempt, removing, task, moves, faults>>

(* maintain_storage sees the migration and waits for the gate.             *)
AskResume ==
    /\ task[Maintenance].at = "idle" /\ storage.state = "migrating"
    /\ Become(Maintenance, [Idle EXCEPT !.at = "wants"])
    /\ UNCHANGED <<rows, tree, removing, mover, moves, faults>>

Resuming == task[Maintenance].at = "wants" /\ MayExclude(Maintenance)
Rest == journal.files \ journal.passed
Item == CHOOSE n \in Rest : TRUE
Here == tree[journal.source][Item]
There == tree[journal.destination][Item]

(* One file is copied, or was before the process was lost.                 *)
CopyFile ==
    /\ Resuming /\ journal.phase = "copying" /\ Rest # {}
    /\ Here = journal.hash[Item] /\ There \in {None, journal.hash[Item]}
    /\ Put(journal.destination, Item, journal.hash[Item])
    /\ Become(Maintenance, [Idle EXCEPT !.at = "moved"])
    /\ UNCHANGED <<rows, removing, mover, moves, faults>>

(* One managed file is removed from the old root once the new one has been *)
(* verified; any other file is passed over.                                *)
RemoveOld ==
    /\ Resuming /\ journal.phase = "cleanup" /\ Rest # {}
    /\ IF Item \notin journal.managed THEN UNCHANGED tree
       ELSE /\ There = journal.hash[Item] /\ Here \in {None, journal.hash[Item]}
            /\ Put(journal.source, Item, None)
    /\ Become(Maintenance, [Idle EXCEPT !.at = "moved"])
    /\ UNCHANGED <<rows, removing, mover, moves, faults>>

CommitCursor ==
    /\ task[Maintenance].at = "moved"
    /\ journal' = [journal EXCEPT !.passed = @ \union {Item}]
    /\ Become(Maintenance, Idle)
    /\ UNCHANGED <<storage, tree, pub, refresh, lyrics, attempt, removing, mover, moves, faults>>

(* Fault: the rows keep naming the old root.                               *)
SwitchRoot ==
    /\ Resuming /\ journal.phase = "copying" /\ Rest = {}
    /\ storage' = [storage EXCEPT !.root = journal.destination]
    /\ journal' = [journal EXCEPT !.phase = "cleanup", !.passed = {}]
    /\ Become(Maintenance, Idle)
    /\ UNCHANGED <<tree, pub, refresh, lyrics, attempt, removing, mover, moves, faults>>

(* Fault: the cursor is not put back before the second pass.               *)
SwitchOnly ==
    /\ Resuming /\ journal.phase = "copying" /\ Rest = {}
    /\ storage' = [storage EXCEPT !.root = journal.destination]
    /\ journal' = [journal EXCEPT !.phase = "cleanup"]
    /\ pub' = [r \in Record |-> IF pub[r].root = journal.source
                                THEN [pub[r] EXCEPT !.root = journal.destination] ELSE pub[r]]
    /\ Become(Maintenance, Idle)
    /\ UNCHANGED <<tree, refresh, lyrics, attempt, removing, mover, moves, faults>>

(* Every copy is verified and all rows switch to the new root at once.     *)
Switch ==
    /\ Resuming /\ journal.phase = "copying" /\ Rest = {}
    /\ \A n \in journal.files : tree[journal.destination][n] = journal.hash[n]
    /\ storage' = [storage EXCEPT !.root = journal.destination]
    /\ journal' = [journal EXCEPT !.phase = "cleanup", !.passed = {}]
    /\ pub' = [r \in Record |-> IF pub[r].root = journal.source
                                THEN [pub[r] EXCEPT !.root = journal.destination] ELSE pub[r]]
    /\ Become(Maintenance, Idle)
    /\ UNCHANGED <<tree, refresh, lyrics, attempt, removing, mover, moves, faults>>

Complete ==
    /\ Resuming /\ journal.phase = "cleanup" /\ Rest = {}
    /\ storage' = [storage EXCEPT !.state = "ready"]
    /\ journal' = [journal EXCEPT !.phase = "complete"]
    /\ Become(Maintenance, Idle)
    /\ UNCHANGED <<tree, pub, refresh, lyrics, attempt, removing, mover, moves, faults>>

(* A copy, a verification or an unlink fails, now: the reason is committed *)
(* and the same step is tried again.                                       *)
ResumeFails ==
    /\ Resuming /\ faults < MaxFaults /\ faults' = faults + 1
    /\ Become(Maintenance, Idle)
    /\ UNCHANGED <<rows, tree, removing, mover, moves>>

-----------------------------------------------------------------------------
(* Removal of a publication: two transactions, both refused during a move. *)

Withdrawn(p) == [p EXCEPT !.state = "withdrawn"]

Withdraw(r) ==
    /\ MayShare /\ ~StorageLocked /\ ~Locked(r) /\ r \notin removing
    /\ storage.state = "ready" /\ \A q \in Record : ~Uncleaned(q)
    /\ pub[r].state \in {"current", "withdrawn"}
    /\ Current(r) => tree[pub[r].root][Audio(r)] \in {None, pub[r].content}
    /\ pub' = [pub EXCEPT ![r] = Withdrawn(@)]
    /\ lyrics' = [lyrics EXCEPT ![r] = IF @ = "none" THEN "none" ELSE "evidence"]
    /\ removing' = removing \union {r}
    /\ UNCHANGED <<storage, journal, tree, refresh, attempt, task, mover, moves, faults>>

(* Fault: the second transaction does not look at the storage state.       *)
UnlinkAnyway(r) ==
    /\ r \in removing /\ MayShare /\ ~StorageLocked
    /\ IF pub[r].state = "withdrawn" /\ ~Uncleaned(r)
       THEN Put(pub[r].root, Audio(r), None) ELSE UNCHANGED tree
    /\ removing' = removing \ {r}
    /\ UNCHANGED <<rows, task, mover, moves, faults>>

(* The file of a withdrawn publication is unlinked unless it is in use     *)
(* again; the request fails when a move has begun in between.              *)
Unlink(r) ==
    /\ r \in removing /\ MayShare /\ ~StorageLocked
    /\ IF /\ storage.state = "ready" /\ pub[r].state = "withdrawn" /\ ~Uncleaned(r)
          /\ tree[pub[r].root][Audio(r)] = pub[r].content
       THEN Put(pub[r].root, Audio(r), None) ELSE UNCHANGED tree
    /\ removing' = removing \ {r}
    /\ UNCHANGED <<rows, task, mover, moves, faults>>

-----------------------------------------------------------------------------
(* The rest of the world.                                                  *)

(* The media server describes an album, an operator clears a root that is  *)
(* not in use: neither touches a tree that is being moved.                 *)
Describe ==
    /\ storage.state = "ready" /\ tree[storage.root][Nfo] = None
    /\ Put(storage.root, Nfo, 1)
    /\ UNCHANGED <<rows, removing, task, mover, moves, faults>>

Clear(d) ==
    /\ storage.state = "ready" /\ d # storage.root /\ ~Empty(d)
    /\ tree' = [tree EXCEPT ![d] = [n \in Names |-> None]]
    /\ UNCHANGED <<rows, removing, task, mover, moves, faults>>

Lose(r) ==
    /\ r \in Losable /\ Current(r) /\ storage.state = "ready"
    /\ faults < MaxFaults /\ faults' = faults + 1
    /\ Put(pub[r].root, Audio(r), None)
    /\ UNCHANGED <<rows, removing, task, mover, moves>>

(* The process is lost, and with it every task and request.                *)
Crash ==
    /\ faults < MaxFaults /\ faults' = faults + 1
    /\ task' = [s \in Session |-> Idle] /\ mover' = "none" /\ removing' = {}
    /\ UNCHANGED <<rows, tree, moves>>

WorkerStep(w) == CommitPrepared(w) \/ WriteSidecar(w) \/ SettleLyrics(w) \/ FailJob(w)
                 \/ Upgrade(w) \/ Sweep(w) \/ CommitSweep(w)
Publish(s) == Expose(s) \/ Finalize(s)
Resume == CopyFile \/ RemoveOld \/ Switch \/ Complete \/ ResumeFails \/ CommitCursor

Next ==
    \/ \E w \in Worker, r \in Record : Prepare(w, r) \/ FetchLyrics(w, r)
    \/ \E w \in Worker : ClaimSweep(w) \/ WorkerStep(w)
    \/ \E s \in Session : Publish(s)
    \/ \E r \in Record : SeeAttempt(r) \/ Withdraw(r) \/ Unlink(r) \/ Lose(r)
    \/ \E d \in Root : AskMove(d) \/ Clear(d)
    \/ Move \/ AskResume \/ Resume
    \/ Describe \/ Crash

Spec == Init /\ [][Next]_vars

-----------------------------------------------------------------------------
(* Safety.                                                                 *)

(* In every committed state the library's current publications are on disk *)
(* where their rows say, while the output moves from root to root under    *)
(* crashes and failed copies; or an attempt is replacing the file.         *)
PublishedServed ==
    \A r \in Record \ Losable : Current(r) =>
        \/ tree[pub[r].root][Audio(r)] = pub[r].content
        \/ /\ Uncleaned(r) /\ attempt[r].root = pub[r].root
           /\ tree[pub[r].root][Audio(r)] = attempt[r].content

(* When a move is complete no managed file is left under the old root.     *)
OldOutputGone ==
    storage.state = "ready" => \A n \in journal.managed : tree[journal.source][n] = None

Sidecar(r) == tree[storage.root][Lrc(r)] # None

(* Lyrics that the library comes to say a track has are on disk then, and  *)
(* stay there through moves, republication and removal, for as long as it  *)
(* says so: the only step that takes them is the sweep's walk, which looks *)
(* for them in the wrong directory.                                        *)
SidecarsKept ==
    [][\A r \in Record :
         lyrics'[r] = "synced" /\ (lyrics[r] = "synced" => Sidecar(r))
           => Sidecar(r)' \/ \E w \in Worker : Sweep(w)]_vars

-----------------------------------------------------------------------------
(* Liveness.  Slots and the maintenance loop poll for ever, a handler      *)
(* ends, and PostgreSQL grants the gate in the order of the requests, so a *)
(* session that keeps asking for it is not passed over for ever.  Nothing  *)
(* obliges anyone to start a job that was not queued, to move or to remove.*)
Fairness ==
    /\ \A w \in Worker : WF_vars(WorkerStep(w))
    /\ \A s \in Session : WF_vars(Finalize(s)) /\ SF_vars(Expose(s))
    /\ \A r \in Record : SF_vars(SeeAttempt(r))
    /\ \A r \in Record : SF_vars(r \in refresh /\ \E w \in Worker : Prepare(w, r))
    /\ WF_vars(Move) /\ WF_vars(AskResume) /\ WF_vars(Resume)

FairSpec == Spec /\ Fairness

(* A move of the output ends: no job, removal or step between its steps    *)
(* makes the manifest wrong, which would stop every worker for ever.       *)
MoveEnds == storage.state = "migrating" ~> storage.state = "ready"

(* A publication whose file was found missing is made again.               *)
MissingMadeAgain ==
    \A r \in Record : pub[r].state = "inactive" ~> pub[r].state = "current"
=============================================================================
