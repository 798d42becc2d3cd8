-------------------------- MODULE SourceLifecycle --------------------------
(***************************************************************************)
(* The sources of the library: files below the configured roots, the rows  *)
(* that describe them, and the scan that brings the rows up to date.       *)
(* (services/reconciliation.py, services/intake, services/source_roots.py, *)
(* services/source_boundary.py, workers/handlers/initial.py, the           *)
(* ChangedSource outcome of the workers, api/routers/recovery.py.)         *)
(*                                                                         *)
(* A source is named by the hash of inode, size and mtime of its file, so  *)
(* a file and its source are one model value here.  A file can be at       *)
(* several paths (hard links), and a path can come to hold another file.   *)
(* The scan reads the rows, then walks the roots path by path, then        *)
(* applies a plan made from both, all in one transaction at READ           *)
(* COMMITTED: the files and the rows change under it, by imports, by the   *)
(* operators, and by whoever writes into the roots.  Its plan deletes      *)
(* location rows by their id, a row that an import has given to another    *)
(* source included.                                                        *)
(*                                                                         *)
(* Whether the rows of an import and of a scan wait for one another is     *)
(* modelled where it decides something: a scan does not delete a source    *)
(* whose job is being executed before that execution ends.  A deadlock of  *)
(* the two is a scan or an import that is undone.                          *)
(*                                                                         *)
(* Bounds: MaxEvents changes of files, lost scans and operators' requests  *)
(* (a request counts for two, one to reprocess a replaced source for one), *)
(* Generation record numbers for each file.                                *)
(***************************************************************************)
EXTENDS Integers, FiniteSets, FiniteSetsExt

CONSTANTS File, NumPaths, Root,
          RootOf,        \* the root each path is below
          Generation, MaxEvents,
          None           \* no file, no source

Path == 1 .. NumPaths    \* in the order of their names

ASSUME SourceAssumption ==
    /\ {NumPaths, Generation, MaxEvents} \subseteq Nat
    /\ RootOf \in [Path -> Root]
    /\ None \notin File /\ IsFiniteSet(File)

\* A library record made for a file; its numbers are told apart.
Record == File \X (1 .. Generation)

VARIABLES
    disk,        \* the file at each path
    root,        \* configuration and mount state of each root
    source,      \* row of each source
    location,    \* source of the location row of each path
    job,         \* import jobs of each source: who queued it, and its state
    published,   \* record |-> source of its current publication
    work,        \* sources whose import is being executed
    scan,        \* what the scan has read, and where it stands
    events

vars == <<disk, root, source, location, job, published, work, scan, events>>

SourceRow == [state : {"needs_review", "present", "quarantined", "disappeared", "replaced"},
              path : Path,
              historical : BOOLEAN,  \* whether its root has been removed
              record : Record,
              gone : BOOLEAN]        \* disappeared_at

ASSUME RowAssumption == None \notin SourceRow

\* The scan names its job after the source, an enqueue takes a random name that sorts after it.
\* Jobs of one origin and state count as one.
JobRow == {"scan", "asked"} \X {"queued", "settled", "quarantined"}

\* Every change around the scans costs a part of the bound MaxEvents.
Spend(cost) == events + cost <= MaxEvents /\ events' = events + cost

NoScan == [at |-> "idle"]

TypeOK ==
    /\ disk \in [Path -> File \union {None}]
    /\ root \in [Root -> [listed : BOOLEAN, enabled : BOOLEAN, mounted : BOOLEAN]]
    /\ source \in [File -> SourceRow \union {None}]
    /\ location \in [Path -> File \union {None}]
    /\ job \in [File -> SUBSET JobRow]
    /\ published \in SUBSET (Record \X (File \union {None}))
    /\ work \subseteq File
    /\ scan.at \in {"idle", "walk"}
    /\ \A p \in Path : location[p] # None => source[location[p]] # None

Init ==
    /\ disk = [p \in Path |-> None]
    /\ root = [r \in Root |-> [listed |-> TRUE, enabled |-> TRUE, mounted |-> TRUE]]
    /\ source = [f \in File |-> None]
    /\ location = [p \in Path |-> None]
    /\ job = [f \in File |-> {}]
    /\ published = {}
    /\ work = {}
    /\ scan = NoScan
    /\ events = 0

Known(f) == source[f] # None
HasJob(f, state) == \E row \in job[f] : row[2] = state
Turned(f, from, to) == {IF row[2] = from THEN <<row[1], to>> ELSE row : row \in job[f]}
Asked(f) == IF HasJob(f, "queued") THEN job[f] ELSE job[f] \union {<<"asked", "queued">>}
Visible(p) == IF root[RootOf[p]].mounted THEN disk[p] ELSE None
LocatedAt(rows, f) == {p \in Path : rows[p] = f}

\* A record nobody has heard of, for the row of a new source.
Taken == {source[f].record : f \in {g \in File : Known(g)}} \union {pair[1] : pair \in published}
         \union (IF scan = NoScan THEN {}
                 ELSE {scan.source[f].record : f \in {g \in File : scan.source[g] # None}})
Fresh(f) == {n \in 1 .. Generation : <<f, n>> \notin Taken}
NewRecord(f) == <<f, Min(Fresh(f))>>

\* What everybody else does to a scan under way: location rows are gone for good (a later row of
\* the path has another id), files do not stay where they were, and its view is not the current
\* one any more.
Disturb(gone, changed) ==
    scan' = IF scan = NoScan THEN NoScan
            ELSE [scan EXCEPT !.rows = @ \ gone, !.steady = @ \ changed, !.undisturbed = FALSE]

-----------------------------------------------------------------------------
(* The files and the mounts.                                               *)

\* A path is written, overwritten, linked to another file, or removed.
FileChanges(p) ==
    /\ Spend(1)
    /\ \E f \in (File \union {None}) \ {disk[p]} : disk' = [disk EXCEPT ![p] = f]
    /\ Disturb({}, {p})
    /\ UNCHANGED <<root, source, location, job, published, work>>

FileMoves(p, q) ==
    /\ Spend(1)
    /\ p # q /\ disk[p] # None
    /\ disk' = [disk EXCEPT ![p] = None, ![q] = disk[p]]
    /\ Disturb({}, {p, q})
    /\ UNCHANGED <<root, source, location, job, published, work>>

MountChanges(r) ==
    /\ Spend(1)
    /\ root' = [root EXCEPT ![r].mounted = ~@]
    /\ Disturb({}, {p \in Path : RootOf[p] = r})
    /\ UNCHANGED <<disk, source, location, job, published, work>>

-----------------------------------------------------------------------------
(* The plan of a scan: a function of what it has read.  s.owner has the    *)
(* location of each path, or else a source without location rows whose     *)
(* source_path it is; s.reached the roots that were there when the walk    *)
(* came to them; s.found what was seen at each path.                       *)

Walked(s) == {p \in Path : RootOf[p] \in s.reached}
Found(s) == {s.found[p] : p \in Walked(s)} \ {None}
FoundAt(s, f) == {p \in Walked(s) : s.found[p] = f}

NewFiles(s) == {f \in Found(s) : s.source[f] = None}

\* The source whose path a new file has taken, None when it is merely added.
Predecessor(s, f) ==
    LET claimed == {p \in FoundAt(s, f) : s.owner[p] # None}
    IN IF claimed = {} THEN None ELSE s.owner[Min(claimed)]

\* Fault: a changed file is entered under a record of its own.
RecordAlwaysNew(s, f) == NewRecord(f)
RecordFor(s, f) ==
    IF Predecessor(s, f) = None THEN NewRecord(f) ELSE s.source[Predecessor(s, f)].record

NewLocations(s) == {p \in Walked(s) : s.found[p] # None /\ s.owner[p] # s.found[p]}

\* Fault: the locations of a root that was not there are taken for empty ones.
StaleRowsEverywhere(s) == {p \in Path : s.location[p] # None /\ s.location[p] # s.found[p]}
\* Fault: a source keeps the row of one of its paths only.
OneRowEach(s) ==
    {p \in Walked(s) : /\ s.location[p] # None
                       /\ s.location[p] # s.found[p] \/ p # Min(FoundAt(s, s.found[p]))}
StaleRows(s) == {p \in Walked(s) : s.location[p] # None /\ s.location[p] # s.found[p]}

Live(s) == {s.location[p] : p \in Path \ StaleRows(s)} \union {s.found[p] : p \in NewLocations(s)}

\* Fault: a file found only at new paths is not noticed to be a known one.
VanishedUnlessLocated(s) ==
    {f \in File : s.source[f] # None} \ {s.location[p] : p \in Path \ StaleRows(s)}
\* Sources without a file.  The ones that were replaced are among them: their rows are marked
\* replaced and deleted by the same plan.
Vanished(s) == {f \in File : s.source[f] # None} \ (Live(s) \union Found(s))

Reappeared(s) == {f \in Found(s) : s.source[f] # None /\ s.source[f].state = "disappeared"}

-----------------------------------------------------------------------------
(* The scan.                                                               *)

\* The path of a source without location rows stands for one; of several such sources the
\* database returns one first.
Fallbacks(p) ==
    {f \in File : /\ Known(f) /\ LocatedAt(location, f) = {}
                  /\ source[f].path = p /\ ~source[f].historical}
Owners ==
    {owner \in [Path -> File \union {None}] :
        \A p \in Path :
            IF location[p] # None THEN owner[p] = location[p]
            ELSE IF Fallbacks(p) = {} THEN owner[p] = None
            ELSE owner[p] \in Fallbacks(p)}

\* load_reconciliation_snapshot.
ScanReads ==
    /\ scan = NoScan
    /\ \E owner \in Owners :
        scan' = [at |-> "walk",
                 source |-> source, location |-> location, job |-> job, owner |-> owner,
                 roots |-> {r \in Root : root[r].listed /\ root[r].enabled},
                 reached |-> {}, seen |-> {},
                 found |-> [p \in Path |-> None],
                 rows |-> {p \in Path : location[p] # None},  \* of these the row is still there
                 steady |-> {p \in Path : Visible(p) # None},  \* history: the file has stayed
                 undisturbed |-> TRUE]                         \* history: nobody else did anything
    /\ UNCHANGED <<disk, root, source, location, job, published, work, events>>

InRoot(r) == {p \in Path : RootOf[p] = r}
Pending(s) == {p \in Path : RootOf[p] \in s.roots} \ s.seen

Reaches(r) == root[r].mounted

\* The walk comes to the next path.  A root is skipped when it is not there at its first one;
\* later on what cannot be read is as if it did not exist.
ScanVisits ==
    /\ scan.at = "walk" /\ Pending(scan) # {}
    /\ LET p == Min(Pending(scan))
           r == RootOf[p]
           there == r \in scan.reached \/ Reaches(r)
       IN scan' = [scan EXCEPT !.seen = @ \union IF there THEN {p} ELSE InRoot(r),
                               !.reached = IF there THEN @ \union {r} ELSE @,
                               !.found[p] = Visible(p)]
    /\ UNCHANGED <<disk, root, source, location, job, published, work, events>>

\* The columns of a source row after the plan.
RowAfter(s, f) ==
    IF f \in Vanished(s) THEN None
    ELSE IF f \in NewFiles(s)
    THEN [state |-> "needs_review", path |-> Min(FoundAt(s, f)), historical |-> FALSE,
          record |-> RecordFor(s, f), gone |-> FALSE]
    ELSE IF f \notin Found(s) \/ ~Known(f) THEN source[f]
    ELSE LET moved == [source[f] EXCEPT !.path = Min(FoundAt(s, f)), !.historical = FALSE]
         IN IF f \in Reappeared(s)
            THEN [moved EXCEPT !.state = "needs_review", !.gone = FALSE] ELSE moved

LocationAfter(s, p) ==
    LET kept == IF p \in StaleRows(s) \intersect s.rows THEN None ELSE location[p]
        row == IF p \in NewLocations(s) THEN s.found[p] ELSE kept
    IN IF row \in Vanished(s) THEN None ELSE row

\* Of several jobs of a source the plan knows the state of the last one, by name.
LastRows(rows) ==
    LET asked == {row \in rows : row[1] = "asked"} IN IF asked = {} THEN rows ELSE asked
JobStates(s) ==
    {known \in [File -> {"none", "queued", "settled", "quarantined"}] :
        \A f \in File : IF s.job[f] = {} THEN known[f] = "none"
                      ELSE known[f] \in {row[2] : row \in LastRows(s.job[f])}}

\* Fault: a blocked import is not queued again.
JobsNotRevived(s, known, f) ==
    IF f \in Vanished(s) THEN {}
    ELSE IF f \in Found(s) /\ known[f] = "none" THEN job[f] \union {<<"scan", "queued">>}
    ELSE job[f]
JobsAfter(s, known, f) ==
    IF f \in Vanished(s) THEN {}
    ELSE IF f \notin Found(s) THEN job[f]
    ELSE IF known[f] = "none" THEN job[f] \union {<<"scan", "queued">>}
    ELSE IF known[f] = "quarantined" THEN Turned(f, "quarantined", "queued")
    ELSE job[f]

\* The constraints of the tables: a plan that meets them fails as a whole.
Applicable(s, known) ==
    /\ \A f \in NewFiles(s) : ~Known(f)
    /\ \A p \in NewLocations(s) :
        /\ location[p] = None \/ p \in StaleRows(s) \intersect s.rows
        /\ Known(s.found[p]) \/ s.found[p] \in NewFiles(s)
    /\ \A f \in Found(s) : known[f] = "none" => Known(f) \/ f \in NewFiles(s)

\* The publications of deleted sources stay, without their source.
PublicationsAfter(s) ==
    {IF pair[2] \in Vanished(s) THEN <<pair[1], None>> ELSE pair : pair \in published}

\* apply_reconciliation_plan.
Apply(s, known) ==
    /\ Applicable(s, known)
    /\ Vanished(s) \intersect work = {}
    /\ source' = [f \in File |-> RowAfter(s, f)]
    /\ location' = [p \in Path |-> LocationAfter(s, p)]
    /\ job' = [f \in File |-> JobsAfter(s, known, f)]
    /\ published' = PublicationsAfter(s)

ScanApplies ==
    /\ scan.at = "walk" /\ Pending(scan) = {}
    /\ \A f \in NewFiles(scan) : Fresh(f) # {}
    /\ \E known \in JobStates(scan) : Apply(scan, known)
    /\ scan' = NoScan
    /\ UNCHANGED <<disk, root, work, events>>

\* A plan that meets a constraint is undone; the job of the scan is retried.
ScanClashes ==
    /\ scan.at = "walk" /\ Pending(scan) = {}
    /\ \E known \in JobStates(scan) : ~Applicable(scan, known)
    /\ scan' = NoScan
    /\ UNCHANGED <<disk, root, source, location, job, published, work, events>>

\* So is the scan of a lost process, or of one that is given up for another reason.
ScanFails ==
    /\ scan # NoScan
    /\ Spend(1)
    /\ scan' = NoScan
    /\ UNCHANGED <<disk, root, source, location, job, published, work>>

-----------------------------------------------------------------------------
(* Imports.  A claimed job looks queued to everybody else until it ends.   *)

Claimable(f) == HasJob(f, "queued") /\ f \notin work
SettledJob(f) == Turned(f, "queued", "settled")
RefusedJob(f) == Turned(f, "queued", "quarantined")

\* resolve_owned_source: the file a source claims, None when its root or the file is not there.
OwnedFile(f) ==
    IF source[f].historical \/ ~root[RootOf[source[f].path]].enabled THEN None
    ELSE Visible(source[f].path)

\* The fence: no job works on a replaced source.
ImportSuperseded(f) ==
    /\ Claimable(f) /\ source[f].state = "replaced"
    /\ job' = [job EXCEPT ![f] = SettledJob(f)]
    /\ UNCHANGED <<disk, root, source, location, published, work, scan, events>>

ImportRefused(f) ==
    /\ Claimable(f) /\ source[f].state # "replaced"
    /\ OwnedFile(f) = None
    /\ source' = [source EXCEPT ![f].state = "quarantined"]
    /\ job' = [job EXCEPT ![f] = RefusedJob(f)]
    /\ UNCHANGED <<disk, root, location, published, work, scan, events>>

\* _select_canonical_location: the source_path is the first location, and stays when there is none.
Canonical(row, f, rows) ==
    IF LocatedAt(rows, f) = {} THEN row
    ELSE [row EXCEPT !.path = Min(LocatedAt(rows, f)), !.historical = FALSE]

\* The rows once source g has claimed the path of source f (intake_source, attach_source): a new
\* source continues the record of f, and f is replaced when that was its last location.
Claimed(f, g, rows) ==
    [h \in File |->
        LET row == IF h = g /\ ~Known(g)
                   THEN [state |-> "needs_review", path |-> source[f].path, historical |-> FALSE,
                         record |-> source[f].record, gone |-> FALSE]
                   ELSE source[h]
        IN IF h = f /\ LocatedAt(rows, f) = {} THEN [row EXCEPT !.state = "replaced"]
           ELSE IF h \in {f, g, location[source[f].path]} /\ row # None THEN Canonical(row, h, rows)
           ELSE row]

\* Fault: a source that keeps a location is not imported again.
JobsOfNewOnly(f, g, rows) ==
    [job EXCEPT ![f] = SettledJob(f), ![g] = IF Known(g) THEN @ ELSE Asked(g)]
JobsClaimed(f, g, rows) ==
    [job EXCEPT ![f] = IF LocatedAt(rows, f) = {} THEN SettledJob(f)
                       ELSE SettledJob(f) \union {<<"asked", "queued">>},
                ![g] = IF Known(g) THEN @ ELSE Asked(g)]

\* The path of the source holds another file: requeue_changed_source.  A row of that file that
\* is replaced or disappeared is not found by intake_source and its key is taken: a retry.
ImportFindsChange(f) ==
    /\ Claimable(f) /\ source[f].state # "replaced"
    /\ LET path == source[f].path
           g == OwnedFile(f)
           rows == [location EXCEPT ![path] = g]
       IN /\ g \notin {None, f}
          /\ Known(g) => source[g].state \notin {"replaced", "disappeared"}
          /\ source' = Claimed(f, g, rows)
          /\ location' = rows
          /\ job' = JobsClaimed(f, g, rows)
    /\ Disturb({}, {})
    /\ UNCHANGED <<disk, root, published, work, events>>

\* InitialHandler.handle has compared the file and inspects it.
ImportBegins(f) ==
    /\ Claimable(f) /\ source[f].state # "replaced"
    /\ OwnedFile(f) = f
    /\ work' = work \union {f}
    /\ UNCHANGED <<disk, root, source, location, job, published, scan, events>>

\* Its commit: evidence, revisions, and perhaps a prepared output.  A source without a
\* fingerprint, or whose output path is taken, is left for review as it is.
ImportSettles(f) ==
    /\ f \in work
    /\ work' = work \ {f}
    /\ \/ source' = source
       \/ source[f].state # "replaced" /\ source' = [source EXCEPT ![f].state = "present"]
    /\ job' = [job EXCEPT ![f] = SettledJob(f)]
    /\ UNCHANGED <<disk, root, location, published, scan, events>>

\* The audio is not acceptable.
ImportRejects(f) ==
    /\ f \in work
    /\ work' = work \ {f}
    /\ source' = [source EXCEPT ![f].state = "quarantined"]
    /\ job' = [job EXCEPT ![f] = RefusedJob(f)]
    /\ UNCHANGED <<disk, root, location, published, scan, events>>

\* An error, or a lost process: the job is retried, or blocked after its last attempt.
ImportFails(f) ==
    /\ f \in work
    /\ work' = work \ {f}
    /\ job' \in {job, [job EXCEPT ![f] = RefusedJob(f)]}
    /\ UNCHANGED <<disk, root, source, location, published, scan, events>>

\* The same for a claim that ends before the inspection.
ClaimFails(f) ==
    /\ Claimable(f)
    /\ job' = [job EXCEPT ![f] = RefusedJob(f)]
    /\ UNCHANGED <<disk, root, source, location, published, work, scan, events>>

\* Later stages publish the record with the content of the source (module PublicationJournal).
Publish(f) ==
    /\ Known(f) /\ source[f].state = "present"
    /\ published' = {pair \in published : pair[1] # source[f].record}
                     \union {<<source[f].record, f>>}
    /\ published' # published
    /\ UNCHANGED <<disk, root, source, location, job, work, scan, events>>

-----------------------------------------------------------------------------
(* Requests of operators.                                                  *)

\* The exclusive gate: no worker is in a transaction.
Quiesced == scan = NoScan /\ work = {}

\* SourceRootService.update, which takes no gate.
RootSwitches(r) ==
    /\ Spend(2)
    /\ root[r].listed /\ root[r].mounted
    /\ root' = [root EXCEPT ![r].enabled = ~@]
    /\ Disturb({}, {})
    /\ UNCHANGED <<disk, source, location, job, published, work>>

\* SourceRootService.remove: sources keep a location below another root, or become historical.
RootRemoved(r) ==
    /\ Spend(2) /\ Quiesced
    /\ root[r].listed
    /\ root' = [root EXCEPT ![r].listed = FALSE, ![r].enabled = FALSE]
    /\ LET rows == [p \in Path |-> IF RootOf[p] = r THEN None ELSE location[p]]
           affected == {f \in File : Known(f) /\ (RootOf[source[f].path] = r
                                       \/ \E p \in InRoot(r) : location[p] = f)}
       IN /\ location' = rows
          /\ \E survivor \in [affected -> Path \union {0}] :
              /\ \A f \in affected : IF LocatedAt(rows, f) = {} THEN survivor[f] = 0
                                      ELSE survivor[f] \in LocatedAt(rows, f)
              /\ source' = [f \in File |->
                    IF f \notin affected THEN source[f]
                    ELSE IF survivor[f] # 0
                    THEN [source[f] EXCEPT !.path = survivor[f], !.historical = FALSE]
                    ELSE IF RootOf[source[f].path] = r THEN [source[f] EXCEPT !.historical = TRUE]
                    ELSE source[f]]
    /\ UNCHANGED <<disk, job, published, work, scan>>

\* SourceRootService.create.
RootCreated(r) ==
    /\ Spend(1)
    /\ ~root[r].listed /\ root[r].mounted
    /\ root' = [root EXCEPT ![r].listed = TRUE, ![r].enabled = TRUE]
    /\ Disturb({}, {})
    /\ UNCHANGED <<disk, source, location, job, published, work>>

\* mark_disappeared_source deletes a source without a current publication.
IsPublished(f) == \E pair \in published : pair[2] = f
MissingFile(f) == Known(f) /\ ~source[f].gone /\ Visible(source[f].path) = None

\* reprocess_all_library.
Reprocess ==
    LET missing == {f \in File : MissingFile(f)}
        deleted == {f \in missing : ~IsPublished(f)}
        queued == {f \in File \ missing : /\ Known(f) /\ ~source[f].gone /\ ~source[f].historical
                                          /\ root[RootOf[source[f].path]].enabled}
        rows == {p \in Path : location[p] \in deleted}
    IN /\ Spend(IF \E f \in File : Known(f) /\ source[f].state = "replaced" THEN 1 ELSE 2)
       /\ deleted \intersect work = {}
       /\ source' = [f \in File |->
             IF f \in deleted THEN None
             ELSE IF f \in missing
             THEN [source[f] EXCEPT !.state = "disappeared", !.gone = TRUE]
             ELSE source[f]]
       /\ location' = [p \in Path |-> IF p \in rows THEN None ELSE location[p]]
       /\ job' = [f \in File |-> IF f \in deleted THEN {}
                                ELSE IF f \in queued THEN Asked(f) ELSE job[f]]
       /\ Disturb(rows, {})
       /\ UNCHANGED <<disk, root, published, work>>

\* An operator moves a source to another record, or to one of its own.
Associate(f) ==
    /\ Spend(2)
    /\ Known(f) /\ f \notin work /\ Fresh(f) # {}
    /\ \E r \in {source[g].record : g \in {h \in File : Known(h)}} \union {NewRecord(f)} :
        /\ r # source[f].record
        /\ source' = [source EXCEPT ![f].record = r]
    /\ Disturb({}, {})
    /\ UNCHANGED <<disk, root, location, job, published, work>>

\* current_state_cleanup deletes the sources without a location.
Cleanup ==
    LET deleted == {f \in File : Known(f) /\ LocatedAt(location, f) = {}}
    IN /\ Spend(2) /\ Quiesced
       /\ source' = [f \in File |-> IF f \in deleted THEN None ELSE source[f]]
       /\ job' = [f \in File |-> IF f \in deleted THEN {} ELSE job[f]]
       /\ published' = {IF pair[2] \in deleted THEN <<pair[1], None>> ELSE pair :
                            pair \in published}
       /\ UNCHANGED <<disk, root, location, work, scan>>

-----------------------------------------------------------------------------
World == \/ \E p \in Path : FileChanges(p)
         \/ \E p, q \in Path : FileMoves(p, q)
         \/ \E r \in Root : MountChanges(r)

Scanning == ScanReads \/ ScanVisits \/ ScanApplies \/ ScanClashes \/ ScanFails

Importing(f) == \/ ImportSuperseded(f) \/ ImportRefused(f) \/ ImportFindsChange(f)
                \/ ImportBegins(f) \/ ImportSettles(f) \/ ImportRejects(f)
                \/ ImportFails(f) \/ ClaimFails(f)

Operating == \/ Reprocess \/ Cleanup
             \/ \E r \in Root : RootSwitches(r) \/ RootRemoved(r) \/ RootCreated(r)
             \/ \E f \in File : Associate(f)

Next == \/ World \/ Scanning \/ Operating
        \/ \E f \in File : Importing(f) \/ Publish(f)

Spec == Init /\ [][Next]_vars

-----------------------------------------------------------------------------
(* Properties.                                                             *)

\* A scan that nobody interferes with leaves the rows of the walked roots as their files are:
\* every file has its source, owning each of its paths, no path without a file has an owner, and
\* no source without a file or a location is left.  Left out is a path that only the source_path
\* of its source claims: it gets no location row.
Exact(s) ==
    /\ \A p \in Walked(s) :
        IF Visible(p) = None THEN location'[p] = None
        ELSE \/ location'[p] = Visible(p)
             \/ location'[p] = None /\ s.location[p] = None /\ s.owner[p] = Visible(p)
    /\ \A f \in File : Known(f)' =>
        \/ \E p \in Path : location'[p] = f
        \/ \E p \in Walked(s) : Visible(p) = f
ScanIsExact == [][ScanApplies /\ scan.undisturbed => Exact(scan)]_vars

\* A scan, however stale, deletes no source that has a location below a root it did not walk.
ScanKeepsOtherRoots ==
    [][ScanApplies => \A p \in Path \ Walked(scan) :
          scan.location[p] # None /\ location[p] = scan.location[p]
              => source'[location[p]] # None]_vars

\* A scan, however stale, takes no file from its source that has stayed in its place meanwhile.
ScanKeepsSteadyFiles ==
    [][ScanApplies => \A p \in scan.steady \intersect Walked(scan) :
          location[p] = disk[p] => location'[p] = disk[p]]_vars

\* A source waits for its import only with a job that runs, or that the next scan reactivates.
\* It is left without one by its import, for review; and when it was published, disappeared and
\* is seen again.
Waits(f) == /\ Known(f) /\ source[f].state = "needs_review"
            /\ ~HasJob(f, "queued") /\ ~HasJob(f, "quarantined")
NobodyForgotten ==
    [][\A f \in File : Waits(f)' /\ ~Waits(f) =>
          f \in work \/ (ScanApplies /\ f \in Reappeared(scan))]_vars

\* Whoever notices that a file has changed, the import or the scan, enters the new source under
\* the record of a source whose path it has taken.  (A scan goes by the rows as it has read them,
\* and the path of a source is one of its locations, or what its own row says.)
PathOf(owners, rows, p) == {f \in File : rows[f] # None /\ (owners[p] = f \/ rows[f].path = p)}
Takes(g, p) == location[p] \notin {None, g} /\ location'[p] = g
RecordContinues ==
    [][\A g \in File : ~Known(g) /\ Known(g)' /\ (\E p \in Path : Takes(g, p)) =>
          \E p \in Path :
              /\ location'[p] = g
              /\ \/ \E f \in PathOf(location, source, p) : source'[g].record = source[f].record
                 \/ /\ ScanApplies
                    /\ \E f \in PathOf(scan.location, scan.source, p) :
                          source'[g].record = scan.source[f].record]_vars

-----------------------------------------------------------------------------
(* Scans are repeated, walks and claims go on, and neither a plan nor an   *)
(* import fails for ever.                                                  *)

Ending(f) == ImportSettles(f) \/ ImportRejects(f)
Claiming(f) == ImportSuperseded(f) \/ ImportRefused(f) \/ ImportFindsChange(f) \/ ImportBegins(f)

FairSpec == /\ Spec
            /\ WF_vars(ScanReads \/ ScanVisits \/ ScanClashes) /\ SF_vars(ScanApplies)
            /\ \A f \in File : SF_vars(Claiming(f)) /\ SF_vars(Ending(f))

\* Every file below an enabled root ends with a source that has been imported, or refused, and
\* whose path it is; replaced sources and reappeared ones are the exceptions named above, and so
\* is a source whose blocked job the scan overlooks for another one that has settled.
Overlooked(f) == HasJob(f, "quarantined") /\ <<"asked", "settled">> \in job[f]
Settled(p) ==
    LET f == Visible(p)
    IN f # None /\ root[RootOf[p]].enabled =>
         /\ Known(f)
         /\ location[p] = f \/ (location[p] = None /\ source[f].path = p)
         /\ source[f].state \in {"present", "quarantined", "replaced"} \/ Waits(f) \/ Overlooked(f)
FilesSettle == <>[](\A p \in Path : Settled(p))
=============================================================================
