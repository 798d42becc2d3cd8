------------------------- MODULE SourceLifecycleProofs -------------------------
(***************************************************************************)
(* Proofs about the sources of the library and the scan, for any files,    *)
(* paths, roots and bounds: what a plan may do to the rows however long    *)
(* ago it read them, and that no step forgets a source.                    *)
(***************************************************************************)
EXTENDS SourceLifecycle, WellFoundedInduction, TLAPS

Rows == [Path -> File \union {None}]
SourceRows == [File -> SourceRow \union {None}]
RootRow == [listed : BOOLEAN, enabled : BOOLEAN, mounted : BOOLEAN]
ScanRow ==
    [at : {"walk"}, source : SourceRows, location : Rows, job : [File -> SUBSET JobRow],
     owner : Rows, roots : SUBSET Root, reached : SUBSET Root, seen : SUBSET Path,
     found : Rows, rows : SUBSET Path, steady : SUBSET Path, undisturbed : BOOLEAN]

(* The rows of the tables: those of a source that does not exist are gone, *)
(* and an import that is being executed is one of a known source.          *)
RowsInv ==
    /\ TypeOK
    /\ \A f \in File : ~Known(f) => job[f] = {}
    /\ \A f \in work : Known(f)

(* What a scan has read belongs together.                                  *)
ReadInv(s) ==
    /\ s \in ScanRow
    /\ \A p \in Path : s.location[p] # None => s.owner[p] = s.location[p]
    /\ \A p \in Path : s.owner[p] # None => s.owner[p] \in PathOf(s.location, s.source, p)
    /\ \A f \in File : s.source[f] = None => s.job[f] = {}

(* What it still knows.  A root is reached or skipped at its first path;   *)
(* what was found where the file has stayed, or where nobody interferes,   *)
(* is there; and without interference the rows are those it has read.      *)
WalkInv(s) ==
    /\ s.reached \subseteq s.roots
    /\ \A p \in s.seen : RootOf[p] \notin s.reached => InRoot(RootOf[p]) \subseteq s.seen
    /\ \A p \in s.steady : Visible(p) # None
    /\ \A p \in s.seen : RootOf[p] \in s.reached /\ (p \in s.steady \/ s.undisturbed) =>
                            s.found[p] = Visible(p)
    /\ s.undisturbed => /\ s.location = location
                        /\ s.rows = {p \in Path : location[p] # None}
                        /\ \A f \in File : Known(f) <=> s.source[f] # None
ScanInv == scan # NoScan => ReadInv(scan) /\ WalkInv(scan)
Inv == RowsInv /\ ScanInv

-----------------------------------------------------------------------------
(* Operators.                                                              *)

(* The first of some paths is one of them.                                 *)
LEMMA Least ==
    ASSUME NEW S, S \subseteq Nat, S # {}
    PROVE  Min(S) \in S
<1>1. PICK m \in S : \A n \in S : <<n, m>> \notin OpToRel(<, Nat)
  BY WFMin, NatLessThanWellFounded
<1>2. \A n \in S : ~(n < m)
  BY <1>1, Zenon DEF OpToRel
<1>3. \A n \in S : m <= n
  BY <1>2
<1>4. QED
  BY <1>3 DEF Min

(* The constants.                                                          *)
LEMMA Constants ==
    /\ Path \subseteq Nat /\ (1 .. Generation) \subseteq Nat
    /\ RootOf \in [Path -> Root] /\ None \notin File /\ None \notin SourceRow
BY SourceAssumption, RowAssumption DEF Path

(* A fresh record is a record.                                             *)
LEMMA NewRecordType ==
    ASSUME NEW f \in File, Fresh(f) # {}
    PROVE  NewRecord(f) \in Record
<1>1. Fresh(f) \subseteq Nat /\ Fresh(f) \subseteq 1 .. Generation
  BY Constants DEF Fresh
<1>2. Min(Fresh(f)) \in 1 .. Generation
  BY <1>1, Least
<1>3. QED
  BY <1>2 DEF NewRecord, Record

(* The canonical location is all that changes of a row.                    *)
LEMMA CanonicalType ==
    ASSUME NEW row \in SourceRow, NEW f \in File, NEW rows \in Rows
    PROVE  /\ Canonical(row, f, rows) \in SourceRow
           /\ Canonical(row, f, rows).state = row.state
           /\ Canonical(row, f, rows).record = row.record
<1>1. LocatedAt(rows, f) \subseteq Path
  BY DEF LocatedAt
<1>2. LocatedAt(rows, f) # {} => Min(LocatedAt(rows, f)) \in Path
  BY <1>1, Least, Constants
<1>3. QED
  BY <1>2 DEF Canonical, SourceRow

-----------------------------------------------------------------------------
(* The plan of a scan.                                                     *)

(* A file that was found has a first path.                                 *)
LEMMA FoundFirst ==
    ASSUME NEW s \in ScanRow, NEW f \in Found(s)
    PROVE  /\ f \in File /\ FoundAt(s, f) \subseteq Path /\ FoundAt(s, f) # {}
           /\ Min(FoundAt(s, f)) \in FoundAt(s, f)
<1>1. PICK p \in Walked(s) : s.found[p] = f /\ f # None
  BY DEF Found
<1>2. p \in Path /\ f \in File
  BY <1>1 DEF Walked, ScanRow, Rows
<1>3. p \in FoundAt(s, f) /\ FoundAt(s, f) \subseteq Path
  BY <1>1, <1>2 DEF FoundAt, Walked
<1>4. QED
  BY <1>2, <1>3, Least, Constants

(* A file that vanished was not found, and is at no location that stays.   *)
LEMMA VanishedNot ==
    ASSUME NEW s \in ScanRow, NEW f \in Vanished(s)
    PROVE  /\ f \in File /\ f # None /\ f \notin Found(s) /\ f \notin NewFiles(s)
           /\ \A p \in Path : s.location[p] = f => p \in StaleRows(s)
           /\ \A p \in NewLocations(s) : s.found[p] # f
BY Constants DEF Vanished, Live, NewFiles

(* The source whose path a new file has taken was read with that path, and *)
(* the file is entered at it.                                              *)
LEMMA PredecessorRead ==
    ASSUME NEW s, ReadInv(s), NEW f \in NewFiles(s), Predecessor(s, f) # None
    PROVE  \E p \in NewLocations(s) :
              /\ s.found[p] = f /\ s.owner[p] = Predecessor(s, f)
              /\ Predecessor(s, f) \in PathOf(s.location, s.source, p)
<1> DEFINE claimed == {p \in FoundAt(s, f) : s.owner[p] # None}
<1>1. claimed # {} /\ Predecessor(s, f) = s.owner[Min(claimed)]
  BY DEF Predecessor
<1>2. claimed \subseteq Path
  BY DEF FoundAt, Walked
<1>3. PICK p \in claimed : p = Min(claimed)
  BY <1>1, <1>2, Least, Constants
<1>4. /\ p \in Path /\ p \in Walked(s) /\ s.found[p] = f /\ f # None
      /\ s.owner[p] # None /\ s.owner[p] = Predecessor(s, f)
  BY <1>1, <1>3, Constants DEF FoundAt, NewFiles, Found, Walked
<1>5. s.owner[p] \in PathOf(s.location, s.source, p)
  BY <1>4 DEF ReadInv
<1>6. s.owner[p] # f
  BY <1>5 DEF PathOf, NewFiles
<1>7. p \in NewLocations(s)
  BY <1>4, <1>6 DEF NewLocations
<1>8. QED
  BY <1>4, <1>5, <1>7

(* The record of a new file is a record.                                   *)
LEMMA RecordForType ==
    ASSUME NEW s, ReadInv(s), NEW f \in NewFiles(s), Fresh(f) # {}
    PROVE  RecordFor(s, f) \in Record
<1>1. f \in File
  BY FoundFirst DEF NewFiles, ReadInv
<1>2. CASE Predecessor(s, f) = None
  BY <1>1, <1>2, NewRecordType DEF RecordFor
<1>3. CASE Predecessor(s, f) # None
  <2>1. s.source[Predecessor(s, f)] \in SourceRow
    BY <1>3, PredecessorRead DEF PathOf, ReadInv, ScanRow, SourceRows
  <2>2. QED
    BY <1>3, <2>1 DEF RecordFor, SourceRow
<1>4. QED
  BY <1>2, <1>3

(* The row of a source after the plan.                                     *)
LEMMA RowAfterType ==
    ASSUME RowsInv, NEW s, ReadInv(s), NEW f \in File, \A g \in NewFiles(s) : Fresh(g) # {}
    PROVE  /\ RowAfter(s, f) \in SourceRow \union {None}
           /\ RowAfter(s, f) # None <=> f \notin Vanished(s) /\ (Known(f) \/ f \in NewFiles(s))
<1>1. source[f] \in SourceRow \union {None} /\ s \in ScanRow
  BY DEF RowsInv, TypeOK, ReadInv
<1>2. CASE f \in Vanished(s)
  BY <1>2 DEF RowAfter
<1>3. CASE f \notin Vanished(s) /\ f \in NewFiles(s)
  <2>1. Min(FoundAt(s, f)) \in Path /\ RecordFor(s, f) \in Record
    BY <1>1, <1>3, FoundFirst, RecordForType DEF NewFiles
  <2>2. RowAfter(s, f) \in SourceRow
    BY <1>3, <2>1 DEF RowAfter, SourceRow
  <2>3. QED
    BY <1>3, <2>2, Constants
<1>4. CASE f \notin Vanished(s) /\ f \notin NewFiles(s) /\ (f \notin Found(s) \/ ~Known(f))
  <2>1. RowAfter(s, f) = source[f]
    BY <1>4 DEF RowAfter
  <2>2. QED
    BY <1>1, <1>4, <2>1 DEF Known
<1>5. CASE f \notin Vanished(s) /\ f \notin NewFiles(s) /\ f \in Found(s) /\ Known(f)
  <2>1. Min(FoundAt(s, f)) \in Path
    BY <1>1, <1>5, FoundFirst
  <2>2. source[f] \in SourceRow
    BY <1>1, <1>5 DEF Known
  <2>3. RowAfter(s, f) \in SourceRow
    BY <1>5, <2>1, <2>2 DEF RowAfter, SourceRow
  <2>4. QED
    BY <1>5, <2>3, Constants
<1>6. QED
  BY <1>2, <1>3, <1>4, <1>5

(* The location of a path after the plan is the row that is there or the   *)
(* file that was found, and no source that vanished.                       *)
LEMMA LocationAfterWhich ==
    ASSUME RowsInv, NEW s \in ScanRow, NEW p \in Path
    PROVE  /\ LocationAfter(s, p) \in File \union {None}
           /\ LocationAfter(s, p) # None =>
                /\ LocationAfter(s, p) \notin Vanished(s)
                /\ \/ p \in NewLocations(s) /\ LocationAfter(s, p) = s.found[p]
                   \/ p \notin NewLocations(s) /\ LocationAfter(s, p) = location[p]
BY Constants DEF LocationAfter, RowsInv, TypeOK, ScanRow, Rows

JobState == {"queued", "settled", "quarantined"}
In(rows, state) == \E row \in rows : row[2] = state

(* What turning the jobs of a source leaves of each state.                 *)
LEMMA TurnedJobs ==
    ASSUME RowsInv, NEW f \in File, NEW from \in JobState, NEW to \in JobState, from # to
    PROVE  /\ Turned(f, from, to) \in SUBSET JobRow
           /\ In(Turned(f, from, to), to) <=> HasJob(f, to) \/ HasJob(f, from)
           /\ \A state \in JobState \ {from, to} : In(Turned(f, from, to), state) <=> HasJob(f, state)
<1>1. \A row \in job[f] : row \in JobRow
  BY DEF RowsInv, TypeOK
<1>2. \A row \in JobRow : <<row[1], to>> \in JobRow /\ <<row[1], to>>[2] = to
  BY DEF JobRow, JobState
<1>3. \A row \in Turned(f, from, to) :
        \E old \in job[f] : row = IF old[2] = from THEN <<old[1], to>> ELSE old
  BY DEF Turned
<1>4. \A old \in job[f] :
        (IF old[2] = from THEN <<old[1], to>> ELSE old) \in Turned(f, from, to)
  BY DEF Turned
<1>5. Turned(f, from, to) \in SUBSET JobRow
  BY <1>1, <1>2, <1>3
<1>6. In(Turned(f, from, to), to) <=> HasJob(f, to) \/ HasJob(f, from)
  BY <1>1, <1>2, <1>3, <1>4 DEF In, HasJob
<1>7. \A state \in JobState \ {from, to} : In(Turned(f, from, to), state) <=> HasJob(f, state)
  BY <1>1, <1>2, <1>3, <1>4 DEF In, HasJob
<1>8. QED
  BY <1>5, <1>6, <1>7

(* An enqueue leaves a queued job, and those that were there.              *)
LEMMA AskedJobs ==
    ASSUME RowsInv, NEW f \in File
    PROVE  /\ Asked(f) \in SUBSET JobRow /\ In(Asked(f), "queued") /\ job[f] \subseteq Asked(f)
<1>1. job[f] \in SUBSET JobRow /\ <<"asked", "queued">> \in JobRow
  BY DEF RowsInv, TypeOK, JobRow
<1>2. QED
  BY <1>1 DEF Asked, HasJob, In

(* The jobs of a source after the plan.                                    *)
LEMMA JobsAfterType ==
    ASSUME RowsInv, NEW s, NEW known, NEW f \in File
    PROVE  JobsAfter(s, known, f) \in SUBSET JobRow
<1>1. job[f] \in SUBSET JobRow /\ <<"scan", "queued">> \in JobRow
  BY DEF RowsInv, TypeOK, JobRow
<1>2. Turned(f, "quarantined", "queued") \in SUBSET JobRow
  BY TurnedJobs DEF JobState
<1>3. QED
  BY <1>1, <1>2 DEF JobsAfter

(* The rows after the plan.                                                *)
LEMMA ApplyKeepsRows ==
    ASSUME Inv, ScanApplies
    PROVE  RowsInv'
<1>1. ReadInv(scan) /\ scan \in ScanRow /\ RowsInv
  BY DEF Inv, ScanInv, ReadInv, ScanApplies, NoScan
<1>2. PICK known \in JobStates(scan) : Apply(scan, known)
  BY DEF ScanApplies
<1>3. \A g \in NewFiles(scan) : Fresh(g) # {}
  BY DEF ScanApplies
<1>4. \A f \in File : /\ source'[f] = RowAfter(scan, f)
                      /\ RowAfter(scan, f) \in SourceRow \union {None}
                      /\ RowAfter(scan, f) # None <=>
                            f \notin Vanished(scan) /\ (Known(f) \/ f \in NewFiles(scan))
  BY <1>1, <1>2, <1>3, RowAfterType DEF Apply
<1>5. source' \in [File -> SourceRow \union {None}]
  BY <1>2, <1>4 DEF Apply
<1>6. location' \in Rows /\ \A p \in Path : location'[p] = LocationAfter(scan, p)
  BY <1>1, <1>2, LocationAfterWhich DEF Apply, Rows
<1>7. \A p \in Path : location'[p] # None => source'[location'[p]] # None
  <2>1. SUFFICES ASSUME NEW p \in Path, location'[p] # None PROVE source'[location'[p]] # None
    OBVIOUS
  <2>2. /\ location'[p] \in File /\ location'[p] \notin Vanished(scan)
        /\ \/ p \in NewLocations(scan) /\ location'[p] = scan.found[p]
           \/ p \notin NewLocations(scan) /\ location'[p] = location[p]
    BY <1>1, <1>6, <2>1, LocationAfterWhich
  <2>3. p \in NewLocations(scan) => Known(scan.found[p]) \/ scan.found[p] \in NewFiles(scan)
    BY <1>2 DEF Apply, Applicable
  <2>4. location[p] # None => Known(location[p])
    BY <1>1 DEF RowsInv, TypeOK, Known
  <2>5. QED
    BY <1>4, <2>1, <2>2, <2>3, <2>4
<1>8. job' \in [File -> SUBSET JobRow]
  BY <1>1, <1>2, JobsAfterType DEF Apply
<1>9. ASSUME NEW f \in File, ~Known(f)' PROVE job'[f] = {}
  <2>1. RowAfter(scan, f) = None
    BY <1>4, <1>9 DEF Known
  <2>2. CASE f \in Vanished(scan)
    BY <1>2, <2>2 DEF Apply, JobsAfter
  <2>3. CASE ~Known(f) /\ f \notin NewFiles(scan) /\ f \notin Vanished(scan)
    <3>1. job[f] = {}
      BY <1>1, <2>3 DEF RowsInv
    <3>2. f \in Found(scan) => known[f] # "none"
      BY <1>2, <2>3 DEF Apply, Applicable
    <3>3. Turned(f, "quarantined", "queued") = {}
      BY <3>1 DEF Turned
    <3>4. QED
      BY <1>2, <2>3, <3>1, <3>2, <3>3 DEF Apply, JobsAfter
  <2>4. QED
    BY <1>4, <2>1, <2>2, <2>3
<1>10. \A f \in work : Known(f)'
  BY <1>1, <1>2, <1>4 DEF Apply, Known, RowsInv, TypeOK
<1>11. published' \in SUBSET (Record \X (File \union {None}))
  <2>1. \A pair \in published : pair \in Record \X (File \union {None})
    BY <1>1 DEF RowsInv, TypeOK
  <2>2. \A pair \in published :
          (IF pair[2] \in Vanished(scan) THEN <<pair[1], None>> ELSE pair) \in Record \X (File \union {None})
    BY <2>1
  <2>3. QED
    BY <1>2, <2>2 DEF Apply, PublicationsAfter
<1>12. UNCHANGED <<disk, root, work>> /\ scan'.at = "idle"
  BY DEF ScanApplies, NoScan
<1>13. TypeOK'
  BY <1>1, <1>5, <1>6, <1>7, <1>8, <1>11, <1>12 DEF RowsInv, TypeOK, Rows
<1>14. QED
  BY <1>9, <1>10, <1>12, <1>13 DEF RowsInv

-----------------------------------------------------------------------------
(* The other steps.                                                        *)

(* A scan that is disturbed goes on.                                       *)
LEMMA DisturbedAt ==
    ASSUME RowsInv, NEW gone, NEW changed, Disturb(gone, changed)
    PROVE  scan'.at \in {"idle", "walk"}
<1>1. scan.at \in {"idle", "walk"}
  BY DEF RowsInv, TypeOK
<1>2. QED
  BY <1>1 DEF Disturb, NoScan

(* One row is changed in the columns that are not its key: the same        *)
(* sources are known.                                                      *)
LEMMA RowChanges ==
    ASSUME RowsInv, NEW f \in File, NEW row \in SourceRow, Known(f),
           source' = [source EXCEPT ![f] = row]
    PROVE  /\ source' \in [File -> SourceRow \union {None}]
           /\ \A g \in File : Known(g)' <=> Known(g)
           /\ \A g \in File : source'[g] = IF g = f THEN row ELSE source[g]
BY Constants DEF RowsInv, TypeOK, Known

(* A source with a job is known.                                           *)
LEMMA JobKnown ==
    ASSUME RowsInv, NEW f \in File, Claimable(f) \/ f \in work
    PROVE  Known(f) /\ source[f] \in SourceRow
BY DEF RowsInv, TypeOK, Claimable, HasJob, Known

(* The rows once a source has claimed the path of another one.             *)
LEMMA ClaimedRows ==
    ASSUME RowsInv, NEW f \in File, NEW g \in File, NEW rows \in Rows, Known(f), f # g, NEW h \in File
    PROVE  /\ Claimed(f, g, rows)[h] \in SourceRow \union {None}
           /\ Claimed(f, g, rows)[h] # None <=> Known(h) \/ h = g
           /\ Known(h) => /\ Claimed(f, g, rows)[h].record = source[h].record
                          /\ Claimed(f, g, rows)[h].state =
                               IF h = f /\ LocatedAt(rows, f) = {} THEN "replaced" ELSE source[h].state
           /\ ~Known(h) /\ h = g => Claimed(f, g, rows)[h].record = source[f].record
<1>1. source[f] \in SourceRow /\ source[h] \in SourceRow \union {None}
  BY DEF RowsInv, TypeOK, Known
<1> DEFINE fresh == [state |-> "needs_review", path |-> source[f].path, historical |-> FALSE,
                     record |-> source[f].record, gone |-> FALSE]
           row == IF h = g /\ ~Known(g) THEN fresh ELSE source[h]
<1>2. fresh \in SourceRow /\ fresh.record = source[f].record
  BY <1>1 DEF SourceRow
<1>3. /\ row \in SourceRow \union {None} /\ (row # None <=> Known(h) \/ h = g)
      /\ (row \in SourceRow <=> row # None)
      /\ Known(h) => row = source[h]
      /\ ~Known(h) /\ h = g => row = fresh
  BY <1>1, <1>2, Constants DEF Known
<1>4. Claimed(f, g, rows)[h] =
        IF h = f /\ LocatedAt(rows, f) = {} THEN [row EXCEPT !.state = "replaced"]
        ELSE IF h \in {f, g, location[source[f].path]} /\ row # None THEN Canonical(row, h, rows)
        ELSE row
  BY DEF Claimed
<1> HIDE DEF row, fresh
<1>5. CASE h = f /\ LocatedAt(rows, f) = {}
  <2>1. [row EXCEPT !.state = "replaced"] \in SourceRow /\ row = source[f]
    BY <1>1, <1>3, <1>5 DEF SourceRow
  <2>2. QED
    BY <1>1, <1>4, <1>5, <2>1, Constants DEF SourceRow
<1>6. CASE ~(h = f /\ LocatedAt(rows, f) = {}) /\ h \in {f, g, location[source[f].path]} /\ row # None
  <2>1. /\ Claimed(f, g, rows)[h] = Canonical(row, h, rows) /\ row \in SourceRow
    BY <1>3, <1>4, <1>6
  <2>2. /\ Claimed(f, g, rows)[h] \in SourceRow
        /\ Claimed(f, g, rows)[h].state = row.state /\ Claimed(f, g, rows)[h].record = row.record
    BY <2>1, CanonicalType
  <2>3. QED
    BY <1>2, <1>3, <1>6, <2>2, Constants
<1>7. CASE ~(h = f /\ LocatedAt(rows, f) = {}) /\ ~(h \in {f, g, location[source[f].path]} /\ row # None)
  BY <1>2, <1>3, <1>4, <1>7, Constants
<1>8. QED
  BY <1>5, <1>6, <1>7

(* An import that finds another file at the path of its source.            *)
LEMMA FindsChangeKeepsRows ==
    ASSUME RowsInv, NEW f \in File, ImportFindsChange(f)
    PROVE  /\ RowsInv' /\ OwnedFile(f) \in File /\ OwnedFile(f) # f
           /\ \A h \in File : Known(h)' <=> Known(h) \/ h = OwnedFile(f)
<1> DEFINE g == OwnedFile(f)
           rows == [location EXCEPT ![source[f].path] = g]
<1>1. Known(f) /\ source[f] \in SourceRow /\ source[f].path \in Path
  BY JobKnown DEF ImportFindsChange, SourceRow
<1>2. /\ g \notin {None, f} /\ source' = Claimed(f, g, rows) /\ location' = rows
      /\ job' = JobsClaimed(f, g, rows)
      /\ UNCHANGED <<disk, root, published, work>> /\ Disturb({}, {})
  BY DEF ImportFindsChange
<1>3. g \in File
  BY <1>1, <1>2 DEF OwnedFile, Visible, RowsInv, TypeOK
<1>4. rows \in Rows /\ rows[source[f].path] = g
      /\ \A p \in Path : p # source[f].path => rows[p] = location[p]
  BY <1>1, <1>3 DEF RowsInv, TypeOK, Rows
<1> HIDE DEF g, rows
<1>5. source' \in [File -> SourceRow \union {None}] /\ \A h \in File : Known(h)' <=> Known(h) \/ h = g
  <2>1. \A h \in File : /\ Claimed(f, g, rows)[h] \in SourceRow \union {None}
                        /\ Claimed(f, g, rows)[h] # None <=> Known(h) \/ h = g
    BY <1>1, <1>2, <1>3, <1>4, ClaimedRows
  <2>2. Claimed(f, g, rows) = [h \in File |-> Claimed(f, g, rows)[h]]
    BY DEF Claimed
  <2>3. QED
    BY <1>2, <2>1, <2>2 DEF Known
<1>6. \A p \in Path : location'[p] # None => source'[location'[p]] # None
  <2>1. \A p \in Path : location[p] # None => Known(location[p]) /\ location[p] \in File
    BY DEF RowsInv, TypeOK, Known
  <2>2. QED
    BY <1>2, <1>3, <1>4, <1>5, <2>1 DEF Known
<1>7. job' \in [File -> SUBSET JobRow] /\ \A h \in File : ~Known(h)' => job'[h] = {}
  <2>1. SettledJob(f) \in SUBSET JobRow /\ Asked(g) \in SUBSET JobRow /\ <<"asked", "queued">> \in JobRow
    BY <1>3, TurnedJobs, AskedJobs DEF SettledJob, JobState, JobRow
  <2>2. job \in [File -> SUBSET JobRow] /\ \A h \in File : ~Known(h) => job[h] = {}
    BY DEF RowsInv, TypeOK
  <2>3. /\ job' \in [File -> SUBSET JobRow]
        /\ \A h \in File \ {f, g} : job'[h] = job[h]
    BY <1>2, <1>3, <2>1, <2>2 DEF JobsClaimed
  <2>4. QED
    BY <1>1, <1>5, <2>2, <2>3
<1>8. scan'.at \in {"idle", "walk"}
  BY <1>2, DisturbedAt
<1>9. TypeOK'
  BY <1>2, <1>4, <1>5, <1>6, <1>7, <1>8 DEF RowsInv, TypeOK, Rows
<1>10. RowsInv'
  BY <1>2, <1>5, <1>7, <1>9 DEF RowsInv, TypeOK
<1>11. QED
  BY <1>2, <1>3, <1>5, <1>10 DEF g

(* The other steps of an import: at most the state of its row, and its     *)
(* jobs.                                                                   *)
Quarantine(f) == [source EXCEPT ![f].state = "quarantined"]
ImportEnds(f) ==
    \/ ImportSuperseded(f) \/ ImportRefused(f) \/ ImportBegins(f) \/ ImportSettles(f)
    \/ ImportRejects(f) \/ ImportFails(f) \/ ClaimFails(f)
LEMMA ImportEndsKeepsRows ==
    ASSUME RowsInv, NEW f \in File, ImportEnds(f)
    PROVE  /\ RowsInv' /\ \A h \in File : Known(h)' <=> Known(h)
           /\ UNCHANGED <<disk, root, location, published, scan, events>>
<1>1. Known(f) /\ source[f] \in SourceRow
  BY JobKnown DEF ImportEnds, ImportSuperseded, ImportRefused, ImportBegins, ImportSettles,
                  ImportRejects, ImportFails, ClaimFails
<1>2. /\ source' \in [File -> SourceRow \union {None}]
      /\ \A h \in File : Known(h)' <=> Known(h)
  <2>1. PICK row \in SourceRow : source' = [source EXCEPT ![f] = row]
    <3>1. [source[f] EXCEPT !.state = "quarantined"] \in SourceRow
          /\ [source[f] EXCEPT !.state = "present"] \in SourceRow
      BY <1>1 DEF SourceRow
    <3>2. source' \in {source, [source EXCEPT ![f].state = "quarantined"], [source EXCEPT ![f].state = "present"]}
      BY DEF ImportEnds, ImportSuperseded, ImportRefused, ImportBegins, ImportSettles,
             ImportRejects, ImportFails, ClaimFails
    <3>3. source = [source EXCEPT ![f] = source[f]]
      BY DEF RowsInv, TypeOK
    <3>4. QED
      BY <1>1, <3>1, <3>2, <3>3
  <2>2. QED
    BY <1>1, <2>1, RowChanges
<1>3. job' \in [File -> SUBSET JobRow] /\ \A h \in File \ {f} : job'[h] = job[h]
  <2>1. SettledJob(f) \in SUBSET JobRow /\ RefusedJob(f) \in SUBSET JobRow
    BY TurnedJobs DEF SettledJob, RefusedJob, JobState
  <2>2. job' \in {job, [job EXCEPT ![f] = SettledJob(f)], [job EXCEPT ![f] = RefusedJob(f)]}
    BY DEF ImportEnds, ImportSuperseded, ImportRefused, ImportBegins, ImportSettles,
           ImportRejects, ImportFails, ClaimFails
  <2>3. QED
    BY <2>1, <2>2 DEF RowsInv, TypeOK
<1>4. work' \in {work, work \union {f}, work \ {f}} /\ UNCHANGED <<disk, root, location, published, scan, events>>
  BY DEF ImportEnds, ImportSuperseded, ImportRefused, ImportBegins, ImportSettles,
         ImportRejects, ImportFails, ClaimFails
<1>5. TypeOK'
  BY <1>2, <1>3, <1>4 DEF RowsInv, TypeOK, Known
<1>6. \A h \in work' : Known(h)'
  BY <1>1, <1>2, <1>4 DEF RowsInv, TypeOK
<1>7. \A h \in File : ~Known(h)' => job'[h] = {}
  BY <1>1, <1>2, <1>3 DEF RowsInv
<1>8. QED
  BY <1>2, <1>4, <1>5, <1>6, <1>7 DEF RowsInv

(* A publication.                                                          *)
LEMMA PublishKeepsRows ==
    ASSUME RowsInv, NEW f \in File, Publish(f)
    PROVE  RowsInv'
<1>1. source[f].record \in Record
  BY DEF Publish, Known, RowsInv, TypeOK, SourceRow
<1>2. published' \in SUBSET (Record \X (File \union {None}))
  BY <1>1 DEF Publish, RowsInv, TypeOK
<1>3. QED
  BY <1>2 DEF Publish, RowsInv, TypeOK, Known

(* A root is removed: its locations go, and sources keep one elsewhere, or *)
(* become historical.                                                      *)
LEMMA RootRemovedKeepsRows ==
    ASSUME RowsInv, NEW r \in Root, RootRemoved(r)
    PROVE  /\ RowsInv' /\ scan' = NoScan
           /\ \A f \in File : /\ Known(f)' <=> Known(f)
                              /\ Known(f) => source'[f].state = source[f].state
<1> DEFINE rows == [p \in Path |-> IF RootOf[p] = r THEN None ELSE location[p]]
           affected == {f \in File : Known(f) /\ (RootOf[source[f].path] = r
                                       \/ \E p \in InRoot(r) : location[p] = f)}
<1>1. PICK survivor \in [affected -> Path \union {0}] :
        source' = [f \in File |->
                    IF f \notin affected THEN source[f]
                    ELSE IF survivor[f] # 0
                    THEN [source[f] EXCEPT !.path = survivor[f], !.historical = FALSE]
                    ELSE IF RootOf[source[f].path] = r THEN [source[f] EXCEPT !.historical = TRUE]
                    ELSE source[f]]
  BY DEF RootRemoved
<1>2. /\ location' = rows /\ UNCHANGED <<disk, job, published, work, scan>>
      /\ root' = [root EXCEPT ![r].listed = FALSE, ![r].enabled = FALSE]
      /\ scan = NoScan
  BY DEF RootRemoved, Quiesced
<1>3. \A f \in affected : /\ f \in File /\ Known(f) /\ source[f] \in SourceRow
                          /\ survivor[f] # 0 => survivor[f] \in Path
  BY <1>1 DEF RowsInv, TypeOK, Known
<1> HIDE DEF affected
<1>4. \A f \in File : /\ source'[f] \in SourceRow \union {None}
                      /\ source'[f] # None <=> Known(f)
                      /\ Known(f) => source'[f].state = source[f].state
  <2>1. SUFFICES ASSUME NEW f \in File
                 PROVE  /\ source'[f] \in SourceRow \union {None}
                        /\ source'[f] # None <=> Known(f)
                        /\ Known(f) => source'[f].state = source[f].state
    OBVIOUS
  <2>2. CASE f \notin affected
    BY <1>1, <2>2 DEF RowsInv, TypeOK, Known
  <2>3. CASE f \in affected
    <3>1. source'[f] \in SourceRow /\ source'[f].state = source[f].state
      BY <1>1, <1>3, <2>3 DEF SourceRow
    <3>2. QED
      BY <1>3, <2>3, <3>1, Constants
  <2>4. QED
    BY <2>2, <2>3
<1>5. source' \in [File -> SourceRow \union {None}]
  BY <1>1, <1>4
<1>6. /\ rows \in [Path -> File \union {None}]
      /\ \A p \in Path : rows[p] # None => rows[p] = location[p]
  BY DEF RowsInv, TypeOK
<1>7. root' \in [Root -> RootRow]
  BY <1>2 DEF RowsInv, TypeOK, RootRow
<1>8. TypeOK'
  BY <1>2, <1>4, <1>5, <1>6, <1>7 DEF RowsInv, TypeOK, RootRow, Known
<1>9. QED
  BY <1>2, <1>4, <1>8 DEF RowsInv, TypeOK, Known

(* Everything is processed again; sources whose file is gone are deleted   *)
(* or, when they are published, disappear.                                 *)
LEMMA ReprocessKeepsRows ==
    ASSUME RowsInv, Reprocess
    PROVE  /\ RowsInv'
           /\ \A f \in File : Known(f)' =>
                /\ Known(f)
                /\ source'[f] = source[f] \/ source'[f].state = "disappeared"
                /\ job[f] \subseteq job'[f]
<1> DEFINE missing == {f \in File : MissingFile(f)}
           deleted == {f \in missing : ~IsPublished(f)}
           queued == {f \in File \ missing : /\ Known(f) /\ ~source[f].gone /\ ~source[f].historical
                                             /\ root[RootOf[source[f].path]].enabled}
           rows == {p \in Path : location[p] \in deleted}
<1>1. /\ deleted \intersect work = {}
      /\ source' = [f \in File |->
             IF f \in deleted THEN None
             ELSE IF f \in missing
             THEN [source[f] EXCEPT !.state = "disappeared", !.gone = TRUE]
             ELSE source[f]]
      /\ location' = [p \in Path |-> IF p \in rows THEN None ELSE location[p]]
      /\ job' = [f \in File |-> IF f \in deleted THEN {}
                                ELSE IF f \in queued THEN Asked(f) ELSE job[f]]
      /\ UNCHANGED <<disk, root, published, work>> /\ Disturb(rows, {})
  BY DEF Reprocess
<1>2. /\ deleted \subseteq missing /\ missing \subseteq File
      /\ \A f \in missing : Known(f) /\ source[f] \in SourceRow
      /\ \A f \in queued : f \in File /\ Known(f) /\ f \notin missing
  BY DEF MissingFile, RowsInv, TypeOK, Known
<1>3. \A p \in Path : p \notin rows => location[p] \notin deleted
  OBVIOUS
<1> HIDE DEF deleted, missing, queued, rows
<1>4. \A f \in File : /\ source'[f] \in SourceRow \union {None}
                      /\ source'[f] # None <=> Known(f) /\ f \notin deleted
  <2>1. SUFFICES ASSUME NEW f \in File
                 PROVE  /\ source'[f] \in SourceRow \union {None}
                        /\ source'[f] # None <=> Known(f) /\ f \notin deleted
    OBVIOUS
  <2>2. CASE f \in deleted
    BY <1>1, <2>2
  <2>3. CASE f \notin deleted /\ f \in missing
    <3>1. source'[f] \in SourceRow
      BY <1>1, <1>2, <2>3 DEF SourceRow
    <3>2. QED
      BY <1>2, <2>3, <3>1, Constants
  <2>4. CASE f \notin missing
    BY <1>1, <1>2, <2>4 DEF RowsInv, TypeOK, Known
  <2>5. QED
    BY <2>2, <2>3, <2>4
<1>5. source' \in [File -> SourceRow \union {None}]
  BY <1>1, <1>4
<1>6. /\ location' \in [Path -> File \union {None}]
      /\ \A p \in Path : location'[p] # None => location'[p] = location[p] /\ location[p] \notin deleted
  BY <1>1, <1>3 DEF RowsInv, TypeOK
<1>7. job' \in [File -> SUBSET JobRow] /\ \A f \in File : ~Known(f)' => job'[f] = {}
  <2>1. \A f \in File : Asked(f) \in SUBSET JobRow
    BY AskedJobs
  <2>2. QED
    BY <1>1, <1>2, <1>4, <2>1 DEF RowsInv, TypeOK, Known
<1>8. scan'.at \in {"idle", "walk"}
  BY <1>1, DisturbedAt
<1>9. \A p \in Path : location'[p] # None => source'[location'[p]] # None
  BY <1>4, <1>6 DEF RowsInv, TypeOK, Known
<1>10. TypeOK'
  BY <1>1, <1>5, <1>6, <1>7, <1>8, <1>9 DEF RowsInv, TypeOK
<1>11. \A f \in work' : Known(f)'
  BY <1>1, <1>4 DEF RowsInv, TypeOK, Known
<1>12. ASSUME NEW f \in File, Known(f)'
       PROVE  /\ Known(f) /\ job[f] \subseteq job'[f]
              /\ source'[f] = source[f] \/ source'[f].state = "disappeared"
  <2>1. Known(f) /\ f \notin deleted
    BY <1>4, <1>12 DEF Known
  <2>2. source[f] \in SourceRow
    BY <2>1 DEF RowsInv, TypeOK, Known
  <2>3. source'[f] = source[f] \/ source'[f].state = "disappeared"
    BY <1>1, <2>1, <2>2 DEF SourceRow
  <2>4. QED
    BY <1>1, <2>1, <2>3, AskedJobs
<1>13. QED
  BY <1>7, <1>10, <1>11, <1>12 DEF RowsInv

(* A source is moved to another record.                                    *)
LEMMA AssociateKeepsRows ==
    ASSUME RowsInv, NEW f \in File, Associate(f)
    PROVE  /\ RowsInv'
           /\ \A h \in File : /\ Known(h)' <=> Known(h)
                              /\ source'[h].state = source[h].state /\ job'[h] = job[h]
<1>1. Known(f) /\ source[f] \in SourceRow
  BY DEF Associate, Known, RowsInv, TypeOK
<1>2. PICK r : /\ r \in {source[g].record : g \in {h \in File : Known(h)}} \union {NewRecord(f)}
               /\ source' = [source EXCEPT ![f].record = r]
  BY DEF Associate
<1>3. r \in Record
  <2>1. NewRecord(f) \in Record
    BY NewRecordType DEF Associate
  <2>2. QED
    BY <1>2, <2>1 DEF RowsInv, TypeOK, Known, SourceRow
<1>4. PICK row \in SourceRow : row = [source[f] EXCEPT !.record = r] /\ row.state = source[f].state
  <2>1. [source[f] EXCEPT !.record = r] \in SourceRow
    BY <1>1, <1>3 DEF SourceRow
  <2>2. [source[f] EXCEPT !.record = r].state = source[f].state
    BY <1>1 DEF SourceRow
  <2>3. QED
    BY <2>1, <2>2
<1>5. source' = [source EXCEPT ![f] = row]
  BY <1>2, <1>4
<1>6. /\ source' \in [File -> SourceRow \union {None}]
      /\ \A g \in File : /\ Known(g)' <=> Known(g)
                         /\ source'[g] = IF g = f THEN row ELSE source[g]
  BY <1>1, <1>5, RowChanges
<1>7. UNCHANGED <<disk, root, location, job, published, work>> /\ Disturb({}, {})
  BY DEF Associate
<1>8. scan'.at \in {"idle", "walk"}
  BY <1>7, DisturbedAt
<1>9. TypeOK'
  BY <1>6, <1>7, <1>8 DEF RowsInv, TypeOK, Known
<1>10. \A h \in work' : Known(h)'
  BY <1>6, <1>7 DEF RowsInv, TypeOK
<1>11. \A h \in File : ~Known(h)' => job'[h] = {}
  BY <1>6, <1>7 DEF RowsInv
<1>12. QED
  BY <1>4, <1>6, <1>7, <1>9, <1>10, <1>11 DEF RowsInv

(* Sources without a location are deleted.                                 *)
LEMMA CleanupKeepsRows ==
    ASSUME RowsInv, Cleanup
    PROVE  /\ RowsInv' /\ scan' = NoScan
           /\ \A f \in File : Known(f)' => Known(f) /\ source'[f] = source[f] /\ job'[f] = job[f]
<1> DEFINE deleted == {f \in File : Known(f) /\ LocatedAt(location, f) = {}}
<1>1. /\ source' = [f \in File |-> IF f \in deleted THEN None ELSE source[f]]
      /\ job' = [f \in File |-> IF f \in deleted THEN {} ELSE job[f]]
      /\ published' = {IF pair[2] \in deleted THEN <<pair[1], None>> ELSE pair : pair \in published}
      /\ UNCHANGED <<disk, root, location, work, scan>> /\ scan = NoScan /\ work = {}
  BY DEF Cleanup, Quiesced
<1>2. \A p \in Path : location[p] \notin deleted
  BY DEF LocatedAt
<1> HIDE DEF deleted
<1>3. /\ source' \in [File -> SourceRow \union {None}] /\ job' \in [File -> SUBSET JobRow]
      /\ \A f \in File : ~Known(f)' => job'[f] = {}
      /\ \A f \in File : Known(f)' => Known(f) /\ source'[f] = source[f] /\ job'[f] = job[f]
  BY <1>1 DEF RowsInv, TypeOK, Known
<1>4. \A p \in Path : location'[p] # None => source'[location'[p]] # None
  BY <1>1, <1>2 DEF RowsInv, TypeOK
<1>5. published' \in SUBSET (Record \X (File \union {None}))
  <2>1. \A pair \in published :
          (IF pair[2] \in deleted THEN <<pair[1], None>> ELSE pair) \in Record \X (File \union {None})
    BY DEF RowsInv, TypeOK
  <2>2. QED
    BY <1>1, <2>1
<1>6. TypeOK'
  BY <1>1, <1>3, <1>4, <1>5 DEF RowsInv, TypeOK
<1>7. QED
  BY <1>1, <1>3, <1>6 DEF RowsInv

(* Steps that leave the rows to the scan: files, mounts, settings of a     *)
(* root, and the scan itself until it applies.                             *)
Around == \/ World
          \/ ScanReads \/ ScanVisits \/ ScanClashes \/ ScanFails
          \/ \E r \in Root : RootSwitches(r) \/ RootCreated(r)
LEMMA AroundKeepsRows ==
    ASSUME RowsInv, Around
    PROVE  RowsInv' /\ UNCHANGED <<source, location, job, published, work>>
<1>1. UNCHANGED <<source, location, job, published, work>>
  BY DEF Around, World, FileChanges, FileMoves, MountChanges, ScanReads, ScanVisits, ScanClashes,
         ScanFails, RootSwitches, RootCreated
<1>2. disk' \in [Path -> File \union {None}]
  BY DEF Around, World, FileChanges, FileMoves, MountChanges, ScanReads, ScanVisits, ScanClashes,
         ScanFails, RootSwitches, RootCreated, RowsInv, TypeOK
<1>3. root' \in [Root -> RootRow]
  <2>1. root \in [Root -> RootRow]
    BY DEF RowsInv, TypeOK, RootRow
  <2>2. CASE UNCHANGED root
    BY <2>1, <2>2
  <2>3. ASSUME NEW r \in Root, MountChanges(r) \/ RootSwitches(r) \/ RootCreated(r)
        PROVE  root' \in [Root -> RootRow]
    BY <2>1, <2>3 DEF MountChanges, RootSwitches, RootCreated, RootRow
  <2>4. QED
    BY <2>2, <2>3 DEF Around, World, FileChanges, FileMoves, ScanReads, ScanVisits, ScanClashes, ScanFails
<1>4. scan'.at \in {"idle", "walk"}
  <2>1. CASE \E gone, changed : Disturb(gone, changed)
    BY <2>1, DisturbedAt
  <2>2. CASE ScanReads \/ ScanClashes \/ ScanFails
    BY <2>2 DEF ScanReads, ScanClashes, ScanFails, NoScan
  <2>3. CASE ScanVisits
    BY <2>3 DEF ScanVisits
  <2>4. QED
    BY <2>1, <2>2, <2>3
       DEF Around, World, FileChanges, FileMoves, MountChanges, RootSwitches, RootCreated
<1>5. QED
  BY <1>1, <1>2, <1>3, <1>4 DEF RowsInv, TypeOK, Known, RootRow

-----------------------------------------------------------------------------
(* The scan under way.                                                     *)

(* Whatever others do, they disturb it; files that may not have stayed are *)
(* no longer counted on.                                                   *)
LEMMA DisturbedScan ==
    ASSUME ScanInv, NEW gone, NEW changed, Disturb(gone, changed),
           \A p \in Path \ changed : Visible(p)' = Visible(p)
    PROVE  ScanInv'
<1>1. CASE scan = NoScan
  BY <1>1 DEF Disturb, ScanInv
<1>2. CASE scan # NoScan
  <2>1. scan \in ScanRow /\ ReadInv(scan) /\ WalkInv(scan)
    BY <1>2 DEF ScanInv, ReadInv
  <2>2. scan' = [scan EXCEPT !.rows = @ \ gone, !.steady = @ \ changed, !.undisturbed = FALSE]
    BY <1>2 DEF Disturb
  <2>3. /\ scan' \in ScanRow /\ scan'.steady = scan.steady \ changed /\ scan'.undisturbed = FALSE
        /\ scan'.location = scan.location /\ scan'.owner = scan.owner /\ scan'.source = scan.source
        /\ scan'.job = scan.job /\ scan'.roots = scan.roots /\ scan'.reached = scan.reached
        /\ scan'.seen = scan.seen /\ scan'.found = scan.found
    BY <2>1, <2>2 DEF ScanRow
  <2>4. ReadInv(scan)'
    BY <2>1, <2>3 DEF ReadInv, PathOf
  <2>5. WalkInv(scan)'
    BY <2>1, <2>3 DEF WalkInv, InRoot, ScanRow
  <2>6. QED
    BY <2>4, <2>5 DEF ScanInv
<1>3. QED
  BY <1>1, <1>2

(* What a scan does not look at again changes nothing for it.              *)
LEMMA UndisturbedScan ==
    ASSUME ScanInv, scan' = scan, UNCHANGED <<disk, root, location>>,
           \A f \in File : Known(f)' <=> Known(f)
    PROVE  ScanInv'
BY DEF ScanInv, ReadInv, WalkInv, Visible, InRoot

(* A scan reads.                                                           *)
LEMMA ReadsScan ==
    ASSUME RowsInv, ScanReads
    PROVE  ScanInv'
<1>1. PICK owner \in Owners :
        scan' = [at |-> "walk",
                 source |-> source, location |-> location, job |-> job, owner |-> owner,
                 roots |-> {r \in Root : root[r].listed /\ root[r].enabled},
                 reached |-> {}, seen |-> {},
                 found |-> [p \in Path |-> None],
                 rows |-> {p \in Path : location[p] # None},
                 steady |-> {p \in Path : Visible(p) # None},
                 undisturbed |-> TRUE]
  BY DEF ScanReads
<1>2. UNCHANGED <<disk, root, source, location, job>>
  BY DEF ScanReads
<1>3. /\ owner \in Rows
      /\ \A p \in Path : IF location[p] # None THEN owner[p] = location[p]
                         ELSE IF Fallbacks(p) = {} THEN owner[p] = None
                         ELSE owner[p] \in Fallbacks(p)
  BY DEF Owners, Rows
<1>4. scan' \in ScanRow
  BY <1>1, <1>3 DEF ScanRow, RowsInv, TypeOK, Rows, SourceRows
<1>5. \A p \in Path : owner[p] # None => owner[p] \in PathOf(location, source, p)
  BY <1>3 DEF Fallbacks, PathOf, RowsInv, TypeOK, Known
<1>6. ReadInv(scan)'
  BY <1>1, <1>2, <1>3, <1>4, <1>5 DEF ReadInv, RowsInv, Known, PathOf
<1>7. WalkInv(scan)'
  BY <1>1, <1>2 DEF WalkInv, Visible, Known
<1>8. QED
  BY <1>6, <1>7 DEF ScanInv

(* The walk comes to the next path.                                        *)
LEMMA VisitsScan ==
    ASSUME Inv, ScanVisits
    PROVE  ScanInv'
<1>1. scan \in ScanRow /\ ReadInv(scan) /\ WalkInv(scan) /\ RowsInv
  BY DEF Inv, ScanInv, ReadInv, ScanVisits, NoScan
<1>2. PICK p : p = Min(Pending(scan))
  OBVIOUS
<1>3. p \in Path /\ RootOf[p] \in scan.roots /\ p \notin scan.seen
  <2>1. Pending(scan) \subseteq Path /\ Pending(scan) # {}
    BY DEF Pending, ScanVisits
  <2>2. p \in Pending(scan)
    BY <1>2, <2>1, Least, Constants
  <2>3. QED
    BY <2>2 DEF Pending
<1> DEFINE r == RootOf[p]
           there == r \in scan.reached \/ Reaches(r)
<1>4. /\ scan' = [scan EXCEPT !.seen = @ \union IF there THEN {p} ELSE InRoot(r),
                              !.reached = IF there THEN @ \union {r} ELSE @,
                              !.found[p] = Visible(p)]
      /\ UNCHANGED <<disk, root, location, source>>
  BY <1>2 DEF ScanVisits
<1>5. Visible(p) \in File \union {None} /\ r \in Root /\ InRoot(r) \subseteq Path
  BY <1>1, <1>3, Constants DEF Visible, InRoot, RowsInv, TypeOK
<1> HIDE DEF r, there
<1>6. /\ scan' \in ScanRow
      /\ scan'.seen = scan.seen \union (IF there THEN {p} ELSE InRoot(r))
      /\ scan'.reached = (IF there THEN scan.reached \union {r} ELSE scan.reached)
      /\ \A q \in Path : scan'.found[q] = IF q = p THEN Visible(p) ELSE scan.found[q]
      /\ scan'.steady = scan.steady /\ scan'.undisturbed = scan.undisturbed
      /\ scan'.location = scan.location /\ scan'.owner = scan.owner /\ scan'.source = scan.source
      /\ scan'.job = scan.job /\ scan'.roots = scan.roots /\ scan'.rows = scan.rows
  BY <1>1, <1>3, <1>4, <1>5 DEF ScanRow, Rows
<1>7. ReadInv(scan)'
  BY <1>1, <1>6 DEF ReadInv, PathOf
<1>8. WalkInv(scan)'
  <2>1. scan'.reached \subseteq scan'.roots
    BY <1>1, <1>3, <1>6 DEF WalkInv, r
  <2>2. ASSUME NEW q \in scan'.seen, RootOf[q] \notin scan'.reached
        PROVE  InRoot(RootOf[q]) \subseteq scan'.seen
    BY <1>1, <1>6, <2>2 DEF WalkInv, InRoot, r
  <2>3. ASSUME NEW q \in scan'.seen, RootOf[q] \in scan'.reached,
               q \in scan'.steady \/ scan'.undisturbed
        PROVE  scan'.found[q] = Visible(q)
    <3>1. CASE q = p
      BY <1>3, <1>6, <3>1
    <3>2. CASE q # p
      <4>1. there \/ r \notin scan.reached
        BY DEF there
      <4>2. q \in scan.seen
        BY <1>6, <2>3, <3>2, <4>1 DEF InRoot
      <4>3. RootOf[q] \in scan.reached
        <5>1. RootOf[q] = r /\ r \notin scan.reached => p \in scan.seen
          BY <1>1, <1>3, <4>2 DEF WalkInv, InRoot, r
        <5>2. QED
          BY <1>3, <1>6, <2>3, <5>1
      <4>4. q \in Path
        BY <1>1, <4>2 DEF ScanRow
      <4>5. QED
        BY <1>1, <1>6, <2>3, <3>2, <4>2, <4>3, <4>4 DEF WalkInv
    <3>3. QED
      BY <3>1, <3>2
  <2>4. QED
    BY <1>1, <1>4, <1>6, <2>1, <2>2, <2>3 DEF WalkInv, Visible, InRoot, Known
<1>9. QED
  BY <1>7, <1>8 DEF ScanInv

(* The initial state.                                                      *)
LEMMA InitInv == Init => Inv
BY Constants DEF Init, Inv, RowsInv, ScanInv, TypeOK, NoScan, Known

(* Files, mounts and settings of a root.                                   *)
LEMMA AroundKeepsScan ==
    ASSUME Inv, Around
    PROVE  ScanInv'
<1>1. ScanInv /\ RowsInv /\ disk \in [Path -> File \union {None}] /\ root \in [Root -> RootRow]
  BY DEF Inv, RowsInv, TypeOK, RootRow
<1>2. ASSUME NEW p \in Path, FileChanges(p) PROVE ScanInv'
  <2>1. \A q \in Path \ {p} : Visible(q)' = Visible(q)
    BY <1>1, <1>2 DEF FileChanges, Visible
  <2>2. Disturb({}, {p})
    BY <1>2 DEF FileChanges
  <2>3. QED
    BY <1>1, <2>1, <2>2, DisturbedScan
<1>3. ASSUME NEW p \in Path, NEW q \in Path, FileMoves(p, q) PROVE ScanInv'
  <2>1. \A o \in Path \ {p, q} : Visible(o)' = Visible(o)
    BY <1>1, <1>3 DEF FileMoves, Visible
  <2>2. Disturb({}, {p, q})
    BY <1>3 DEF FileMoves
  <2>3. QED
    BY <1>1, <2>1, <2>2, DisturbedScan
<1>4. ASSUME NEW r \in Root, MountChanges(r) PROVE ScanInv'
  <2>1. \A o \in Path \ {p \in Path : RootOf[p] = r} : Visible(o)' = Visible(o)
    BY <1>1, <1>4, Constants DEF MountChanges, Visible, RootRow
  <2>2. Disturb({}, {p \in Path : RootOf[p] = r})
    BY <1>4 DEF MountChanges
  <2>3. QED
    BY <1>1, <2>1, <2>2, DisturbedScan
<1>5. ASSUME NEW r \in Root, RootSwitches(r) \/ RootCreated(r) PROVE ScanInv'
  <2>1. \A o \in Path : Visible(o)' = Visible(o)
    BY <1>1, <1>5, Constants DEF RootSwitches, RootCreated, Visible, RootRow
  <2>2. Disturb({}, {})
    BY <1>5 DEF RootSwitches, RootCreated
  <2>3. QED
    BY <1>1, <2>1, <2>2, DisturbedScan
<1>6. CASE ScanClashes \/ ScanFails
  BY <1>6 DEF ScanClashes, ScanFails, ScanInv
<1>7. QED
  BY <1>1, <1>2, <1>3, <1>4, <1>5, <1>6, ReadsScan, VisitsScan DEF Around, World

(* Every step keeps the invariant.                                         *)
LEMMA NextInv == Inv /\ [Next]_vars => Inv'
<1> SUFFICES ASSUME Inv, [Next]_vars PROVE Inv'
  OBVIOUS
<1>1. RowsInv /\ ScanInv
  BY DEF Inv
<1>2. CASE Around
  BY <1>1, <1>2, AroundKeepsRows, AroundKeepsScan DEF Inv
<1>3. CASE ScanApplies
  <2>1. ScanInv'
    BY <1>3 DEF ScanApplies, ScanInv
  <2>2. QED
    BY <1>3, <2>1, ApplyKeepsRows DEF Inv
<1>4. ASSUME NEW f \in File, ImportEnds(f) PROVE Inv'
  BY <1>1, <1>4, ImportEndsKeepsRows, UndisturbedScan DEF Inv
<1>5. ASSUME NEW f \in File, ImportFindsChange(f) PROVE Inv'
  <2>1. Disturb({}, {}) /\ UNCHANGED <<disk, root>>
    BY <1>5 DEF ImportFindsChange
  <2>2. \A p \in Path \ {} : Visible(p)' = Visible(p)
    BY <2>1 DEF Visible
  <2>3. QED
    BY <1>1, <1>5, <2>1, <2>2, FindsChangeKeepsRows, DisturbedScan DEF Inv
<1>6. ASSUME NEW f \in File, Publish(f) PROVE Inv'
  <2>1. UNCHANGED <<disk, root, source, location, scan>>
    BY <1>6 DEF Publish
  <2>2. ScanInv'
    BY <1>1, <2>1, UndisturbedScan DEF Known
  <2>3. QED
    BY <1>1, <1>6, <2>2, PublishKeepsRows DEF Inv
<1>7. CASE Reprocess \/ \E f \in File : Associate(f)
  <2>1. \E gone : Disturb(gone, {})
    BY <1>7 DEF Reprocess, Associate
  <2>2. \A p \in Path \ {} : Visible(p)' = Visible(p)
    BY <1>7 DEF Reprocess, Associate, Visible
  <2>3. QED
    BY <1>1, <1>7, <2>1, <2>2, ReprocessKeepsRows, AssociateKeepsRows, DisturbedScan DEF Inv
<1>8. CASE Cleanup \/ \E r \in Root : RootRemoved(r)
  BY <1>1, <1>8, CleanupKeepsRows, RootRemovedKeepsRows DEF Inv, ScanInv
<1>9. CASE UNCHANGED vars
  <2>1. ScanInv'
    BY <1>1, <1>9, UndisturbedScan DEF vars, Known
  <2>2. RowsInv'
    BY <1>1, <1>9 DEF vars, RowsInv, TypeOK, Known
  <2>3. QED
    BY <2>1, <2>2 DEF Inv
<1>10. QED
  BY <1>2, <1>3, <1>4, <1>5, <1>6, <1>7, <1>8, <1>9
     DEF Next, World, Scanning, Operating, Importing, ImportEnds, Around

(* The rows and what a scan knows of them.                                 *)
THEOREM SourceTypes == Spec => []TypeOK
<1>1. Inv => TypeOK
  BY DEF Inv, RowsInv
<1>2. QED
  BY <1>1, InitInv, NextInv, PTL DEF Spec

-----------------------------------------------------------------------------
(* What a plan does.                                                       *)

(* A scan that applies knows what it has read.                             *)
LEMMA Applying ==
    ASSUME Inv, ScanApplies
    PROVE  /\ RowsInv /\ ReadInv(scan) /\ WalkInv(scan) /\ scan \in ScanRow
           /\ \A f \in File : source'[f] = RowAfter(scan, f)
           /\ \A p \in Path : location'[p] = LocationAfter(scan, p)
           /\ \A p \in Walked(scan) : p \in scan.seen /\ RootOf[p] \in scan.reached
           /\ \A f \in File : Known(f)' <=> f \notin Vanished(scan) /\ (Known(f) \/ f \in NewFiles(scan))
           /\ UNCHANGED <<disk, root, work>>
<1>1. RowsInv /\ ReadInv(scan) /\ WalkInv(scan) /\ scan \in ScanRow
  BY DEF Inv, ScanInv, ReadInv, ScanApplies, NoScan
<1>2. /\ \A f \in File : source'[f] = RowAfter(scan, f)
      /\ \A p \in Path : location'[p] = LocationAfter(scan, p)
      /\ UNCHANGED <<disk, root, work>>
  BY DEF ScanApplies, Apply
<1>3. \A p \in Walked(scan) : p \in scan.seen /\ RootOf[p] \in scan.reached
  BY <1>1 DEF ScanApplies, Pending, Walked, WalkInv
<1>4. \A f \in File : Known(f)' <=> f \notin Vanished(scan) /\ (Known(f) \/ f \in NewFiles(scan))
  BY <1>1, <1>2, RowAfterType DEF ScanApplies, Known
<1>5. QED
  BY <1>1, <1>2, <1>3, <1>4

(* However old its view, a scan deletes no source that has a location      *)
(* below a root it did not walk.                                           *)
THEOREM OtherRootsKept == Spec => ScanKeepsOtherRoots
<1>1. ASSUME Inv, ScanApplies, NEW p \in Path \ Walked(scan),
             scan.location[p] # None, location[p] = scan.location[p]
      PROVE  source'[location[p]] # None
  <2>1. location[p] \in File /\ Known(location[p])
    BY <1>1 DEF Inv, RowsInv, TypeOK, Known
  <2>2. location[p] \notin Vanished(scan)
    BY <1>1, VanishedNot, Applying DEF StaleRows
  <2>3. QED
    BY <1>1, <2>1, <2>2, Applying DEF Known
<1>2. Inv => [ScanApplies => \A p \in Path \ Walked(scan) :
                 scan.location[p] # None /\ location[p] = scan.location[p]
                     => source'[location[p]] # None]_vars
  BY <1>1
<1>3. QED
  BY <1>2, InitInv, NextInv, PTL DEF Spec, ScanKeepsOtherRoots

(* However old its view, a scan takes no file from its source that has     *)
(* stayed in its place.                                                    *)
THEOREM SteadyFilesKept == Spec => ScanKeepsSteadyFiles
<1>1. ASSUME Inv, ScanApplies, NEW p \in scan.steady \intersect Walked(scan), location[p] = disk[p]
      PROVE  location'[p] = disk[p]
  <2>1. p \in Path /\ p \in scan.seen /\ RootOf[p] \in scan.reached
    BY <1>1, Applying DEF Walked
  <2>2. scan.found[p] = Visible(p) /\ Visible(p) # None
    BY <1>1, <2>1, Applying DEF WalkInv
  <2>3. scan.found[p] = disk[p] /\ disk[p] # None
    BY <2>2 DEF Visible
  <2>4. disk[p] \notin Vanished(scan)
    BY <1>1, <2>3, Applying, VanishedNot DEF Found
  <2>5. p \in StaleRows(scan) => p \in NewLocations(scan)
    BY <1>1, <2>1, <2>3, Applying DEF StaleRows, NewLocations, ReadInv
  <2>6. LocationAfter(scan, p) = disk[p]
    BY <1>1, <2>3, <2>4, <2>5 DEF LocationAfter
  <2>7. QED
    BY <1>1, <2>1, <2>6, Applying
<1>2. Inv => [ScanApplies => \A p \in scan.steady \intersect Walked(scan) :
                 location[p] = disk[p] => location'[p] = disk[p]]_vars
  BY <1>1
<1>3. QED
  BY <1>2, InitInv, NextInv, PTL DEF Spec, ScanKeepsSteadyFiles

(* Left alone, a scan leaves the rows as the files are.                    *)
THEOREM UndisturbedScanIsExact == Spec => ScanIsExact
<1>1. ASSUME Inv, ScanApplies, scan.undisturbed
      PROVE  Exact(scan)
  <2>1. /\ RowsInv /\ ReadInv(scan) /\ WalkInv(scan) /\ scan \in ScanRow
        /\ \A p \in Path : location'[p] = LocationAfter(scan, p)
        /\ \A f \in File : Known(f)' <=> f \notin Vanished(scan) /\ (Known(f) \/ f \in NewFiles(scan))
    BY <1>1, Applying
  <2>2. /\ scan.location = location /\ scan.rows = {p \in Path : location[p] # None}
        /\ \A f \in File : Known(f) <=> scan.source[f] # None
        /\ \A p \in Walked(scan) : p \in Path /\ scan.found[p] = Visible(p)
    BY <1>1, Applying DEF WalkInv, Walked
  <2>3. ASSUME NEW p \in Walked(scan)
        PROVE  IF Visible(p) = None THEN location'[p] = None
               ELSE \/ location'[p] = Visible(p)
                    \/ location'[p] = None /\ scan.location[p] = None /\ scan.owner[p] = Visible(p)
    <3>1. p \in Path /\ scan.found[p] = Visible(p) /\ location'[p] = LocationAfter(scan, p)
      BY <2>1, <2>2
    <3>2. CASE Visible(p) = None
      <4>1. p \notin NewLocations(scan) /\ (location[p] # None => p \in StaleRows(scan) \intersect scan.rows)
        BY <2>2, <3>1, <3>2 DEF NewLocations, StaleRows
      <4>2. QED
        BY <3>1, <3>2, <4>1 DEF LocationAfter
    <3>3. CASE Visible(p) # None
      <4>1. Visible(p) \notin Vanished(scan)
        BY <2>1, <3>1, <3>3, VanishedNot DEF Found
      <4>2. CASE scan.owner[p] # Visible(p)
        BY <3>1, <3>3, <4>1, <4>2 DEF LocationAfter, NewLocations
      <4>3. CASE scan.owner[p] = Visible(p)
        <5>1. p \notin NewLocations(scan) /\ (location[p] # None => location[p] = Visible(p))
          BY <2>1, <2>2, <3>1, <4>3 DEF NewLocations, ReadInv
        <5>2. location[p] = Visible(p) => LocationAfter(scan, p) = Visible(p)
          BY <2>2, <3>1, <4>1, <5>1 DEF LocationAfter, StaleRows
        <5>3. location[p] = None => LocationAfter(scan, p) = None
          BY <5>1 DEF LocationAfter
        <5>4. QED
          BY <2>2, <3>1, <3>3, <4>3, <5>1, <5>2, <5>3
      <4>4. QED
        BY <4>2, <4>3
    <3>4. QED
      BY <3>2, <3>3
  <2>4. ASSUME NEW f \in File, Known(f)'
        PROVE  (\E p \in Path : location'[p] = f) \/ (\E p \in Walked(scan) : Visible(p) = f)
    <3>1. f \notin Vanished(scan) /\ f # None
      BY <2>1, <2>4, Constants
    <3>2. f \in Found(scan) \/ f \in Live(scan)
      BY <2>1, <2>2, <2>4, <3>1 DEF Vanished, NewFiles
    <3>3. CASE f \in Found(scan)
      BY <2>2, <3>3 DEF Found
    <3>4. CASE \E p \in NewLocations(scan) : scan.found[p] = f
      BY <2>2, <3>4 DEF NewLocations
    <3>5. ASSUME NEW p \in Path \ StaleRows(scan), scan.location[p] = f
          PROVE  (\E q \in Path : location'[q] = f) \/ (\E q \in Walked(scan) : Visible(q) = f)
      <4>1. CASE p \in Walked(scan)
        BY <2>2, <3>1, <3>5, <4>1 DEF StaleRows
      <4>2. CASE p \notin Walked(scan)
        <5>1. LocationAfter(scan, p) = f
          BY <2>2, <3>1, <3>5, <4>2 DEF LocationAfter, StaleRows, NewLocations
        <5>2. QED
          BY <2>1, <5>1
      <4>3. QED
        BY <4>1, <4>2
    <3>6. QED
      BY <3>2, <3>3, <3>4, <3>5 DEF Live
  <2>5. QED
    BY <2>3, <2>4 DEF Exact
<1>2. Inv => [ScanApplies /\ scan.undisturbed => Exact(scan)]_vars
  BY <1>1
<1>3. QED
  BY <1>2, InitInv, NextInv, PTL DEF Spec, ScanIsExact

-----------------------------------------------------------------------------
(* Steps of other actors: the jobs and states of the sources, and records. *)

(* The import that finds a change.                                         *)
LEMMA FindsChangeRows ==
    ASSUME RowsInv, NEW f \in File, ImportFindsChange(f), NEW h \in File
    PROVE  /\ Waits(h)' => Waits(h)
           /\ ~Known(h) /\ Known(h)' =>
                /\ source[f].path \in Path /\ location'[source[f].path] = h
                /\ f \in PathOf(location, source, source[f].path)
                /\ source'[h].record = source[f].record
<1> DEFINE g == OwnedFile(f)
           rows == [location EXCEPT ![source[f].path] = g]
<1>1. Known(f) /\ source[f] \in SourceRow /\ source[f].path \in Path
  BY JobKnown DEF ImportFindsChange, SourceRow
<1>2. /\ g \in File /\ g # f /\ source' = Claimed(f, g, rows) /\ location' = rows
      /\ job' = JobsClaimed(f, g, rows)
      /\ Known(h)' <=> Known(h) \/ h = g
  BY FindsChangeKeepsRows DEF ImportFindsChange
<1>3. rows \in Rows /\ rows[source[f].path] = g
  BY <1>1, <1>2 DEF RowsInv, TypeOK, Rows
<1> HIDE DEF g, rows
<1>4. /\ Known(h) => source'[h].state = IF h = f /\ LocatedAt(rows, f) = {} THEN "replaced"
                                        ELSE source[h].state
      /\ ~Known(h) /\ h = g => source'[h].record = source[f].record
  BY <1>1, <1>2, <1>3, ClaimedRows
<1>5. /\ h \notin {f, g} => job'[h] = job[h]
      /\ h = g /\ Known(g) => job'[h] = job[h]
      /\ h = g /\ ~Known(g) => job'[h] = Asked(g)
      /\ h = f /\ LocatedAt(rows, f) # {} => <<"asked", "queued">> \in job'[h]
  BY <1>1, <1>2 DEF JobsClaimed, RowsInv, TypeOK
<1>6. h = g /\ ~Known(g) => In(job'[h], "queued")
  BY <1>2, <1>5, AskedJobs
<1>7. h = f /\ LocatedAt(rows, f) # {} => In(job'[h], "queued")
  BY <1>5 DEF In
<1>8. Waits(h)' => Waits(h)
  BY <1>2, <1>4, <1>5, <1>6, <1>7 DEF Waits, HasJob, In
<1>9. QED
  BY <1>1, <1>2, <1>3, <1>4, <1>8 DEF PathOf, Known

(* The other steps of an import: one that was being executed may end and   *)
(* leave its source for review.                                            *)
LEMMA ImportEndsRows ==
    ASSUME RowsInv, NEW f \in File, ImportEnds(f), NEW h \in File, Waits(h)', ~Waits(h)
    PROVE  h \in work
<1>1. CASE h # f
  <2>1. source'[h] = source[h] /\ job'[h] = job[h]
    BY <1>1 DEF ImportEnds, ImportSuperseded, ImportRefused, ImportBegins, ImportSettles,
                ImportRejects, ImportFails, ClaimFails, RowsInv, TypeOK
  <2>2. QED
    BY <2>1 DEF Waits, Known, HasJob
<1>2. CASE h = f /\ f \notin work
  <2>1. /\ In(SettledJob(f), "quarantined") <=> HasJob(f, "quarantined")
        /\ In(RefusedJob(f), "quarantined") <=> HasJob(f, "quarantined") \/ HasJob(f, "queued")
    BY TurnedJobs DEF SettledJob, RefusedJob, JobState
  <2>2. Known(f) /\ source[f] \in SourceRow /\ HasJob(f, "queued")
    BY <1>2, JobKnown DEF ImportEnds, ImportSuperseded, ImportRefused, ImportBegins, ImportSettles,
                          ImportRejects, ImportFails, ClaimFails, Claimable
  <2>3. CASE ImportSuperseded(f)
    BY <1>2, <2>3 DEF ImportSuperseded, Waits
  <2>4. CASE ImportRefused(f)
    <3>1. source'[f].state = "quarantined"
      BY <2>2, <2>4 DEF ImportRefused, RowsInv, TypeOK, SourceRow
    <3>2. QED
      BY <1>2, <3>1 DEF Waits
  <2>5. CASE ImportBegins(f)
    BY <1>2, <2>5 DEF ImportBegins, Waits, Known, HasJob
  <2>6. CASE ClaimFails(f)
    <3>1. job'[f] = RefusedJob(f)
      BY <2>6 DEF ClaimFails, RowsInv, TypeOK
    <3>2. QED
      BY <1>2, <2>1, <2>2, <3>1 DEF Waits, HasJob, In
  <2>7. QED
    BY <1>2, <2>3, <2>4, <2>5, <2>6 DEF ImportEnds, ImportSettles, ImportRejects, ImportFails
<1>3. QED
  BY <1>1, <1>2

(* A plan: a file it finds has a job that runs, or had none before; its    *)
(* state changes only when it has disappeared and is seen again.           *)
LEMMA ApplyJobs ==
    ASSUME Inv, ScanApplies, NEW f \in File, Waits(f)', ~Waits(f)
    PROVE  f \in Reappeared(scan)
<1>1. /\ RowsInv /\ ReadInv(scan) /\ scan \in ScanRow /\ source'[f] = RowAfter(scan, f)
      /\ Known(f)' <=> f \notin Vanished(scan) /\ (Known(f) \/ f \in NewFiles(scan))
  BY Applying
<1>2. PICK known \in JobStates(scan) : Apply(scan, known)
  BY DEF ScanApplies
<1>3. job'[f] = JobsAfter(scan, known, f)
  BY <1>2 DEF Apply
<1>4. f \notin Vanished(scan) /\ (Known(f) \/ f \in NewFiles(scan))
  BY <1>1 DEF Waits
<1>5. ~In(job'[f], "queued") /\ ~In(job'[f], "quarantined")
  BY DEF Waits, HasJob, In
<1>6. f \in Found(scan) => known[f] # "none"
  <2>1. f \in Found(scan) /\ known[f] = "none" => <<"scan", "queued">> \in job'[f]
    BY <1>3, <1>4 DEF JobsAfter
  <2>2. QED
    BY <1>5, <2>1 DEF In
<1>7. f \in NewFiles(scan) => known[f] = "none"
  BY <1>1, <1>2 DEF NewFiles, ReadInv, JobStates
<1>8. Known(f) /\ f \notin NewFiles(scan)
  BY <1>4, <1>6, <1>7 DEF NewFiles
<1>9. ~HasJob(f, "queued") /\ ~HasJob(f, "quarantined")
  <2>1. job'[f] \in {job[f], Turned(f, "quarantined", "queued")}
    BY <1>3, <1>4, <1>6 DEF JobsAfter
  <2>2. In(Turned(f, "quarantined", "queued"), "queued") <=> HasJob(f, "queued") \/ HasJob(f, "quarantined")
    BY <1>1, TurnedJobs DEF JobState
  <2>3. QED
    BY <1>5, <2>1, <2>2 DEF HasJob, In
<1>10. source[f] \in SourceRow /\ source[f].state # "needs_review"
  BY <1>1, <1>8, <1>9 DEF Waits, RowsInv, TypeOK, Known
<1>11. source'[f].state = "needs_review"
  BY DEF Waits
<1>12. f \notin Reappeared(scan) => source'[f].state = source[f].state
  BY <1>1, <1>4, <1>8, <1>10 DEF RowAfter, SourceRow
<1>13. QED
  BY <1>10, <1>11, <1>12

(* No step leaves a source waiting for nothing, except its own import, and *)
(* a scan that sees a published source again.                              *)
THEOREM NobodyIsForgotten == Spec => NobodyForgotten
<1>1. ASSUME Inv, [Next]_vars, NEW f \in File, Waits(f)', ~Waits(f)
      PROVE  f \in work \/ (ScanApplies /\ f \in Reappeared(scan))
  <2>1. RowsInv
    BY <1>1 DEF Inv
  <2>2. ~UNCHANGED <<source, job>>
    BY <1>1 DEF Waits, Known, HasJob
  <2>3. CASE ScanApplies
    BY <1>1, <2>3, ApplyJobs
  <2>4. ASSUME NEW g \in File, ImportEnds(g) PROVE f \in work
    BY <1>1, <2>1, <2>4, ImportEndsRows
  <2>5. ASSUME NEW g \in File, ImportFindsChange(g) PROVE FALSE
    BY <1>1, <2>1, <2>5, FindsChangeRows
  <2>6. CASE Reprocess
    BY <1>1, <2>1, <2>6, ReprocessKeepsRows DEF Waits, HasJob
  <2>7. ASSUME NEW g \in File, Associate(g) PROVE FALSE
    BY <1>1, <2>1, <2>7, AssociateKeepsRows DEF Waits, HasJob
  <2>8. CASE Cleanup
    BY <1>1, <2>1, <2>8, CleanupKeepsRows DEF Waits, HasJob
  <2>9. ASSUME NEW r \in Root, RootRemoved(r) PROVE FALSE
    <3>1. job' = job
      BY <2>9 DEF RootRemoved
    <3>2. (Known(f)' <=> Known(f)) /\ (Known(f) => source'[f].state = source[f].state)
      BY <2>1, <2>9, RootRemovedKeepsRows
    <3>3. QED
      BY <1>1, <3>1, <3>2 DEF Waits, HasJob
  <2>10. CASE Around
    BY <2>1, <2>2, <2>10, AroundKeepsRows
  <2>11. CASE UNCHANGED vars \/ \E g \in File : Publish(g)
    BY <2>2, <2>11 DEF vars, Publish
  <2>12. QED
    BY <1>1, <2>3, <2>4, <2>5, <2>6, <2>7, <2>8, <2>9, <2>10, <2>11
       DEF Next, World, Scanning, Operating, Importing, ImportEnds, Around
<1>2. Inv /\ [Next]_vars => [\A f \in File : Waits(f)' /\ ~Waits(f) =>
                                 f \in work \/ (ScanApplies /\ f \in Reappeared(scan))]_vars
  BY <1>1
<1>3. QED
  BY <1>2, InitInv, NextInv, PTL DEF Spec, NobodyForgotten

(* A new file that a plan enters at a taken path goes on with the record   *)
(* of a source that had one of its paths when the scan read the rows.      *)
LEMMA ApplyRecords ==
    ASSUME Inv, ScanApplies, NEW g \in File, ~Known(g), Known(g)', NEW p \in Path, Takes(g, p)
    PROVE  \E q \in Path :
              /\ location'[q] = g
              /\ \E f \in PathOf(scan.location, scan.source, q) : source'[g].record = scan.source[f].record
<1>1. /\ RowsInv /\ ReadInv(scan) /\ scan \in ScanRow /\ source'[g] = RowAfter(scan, g)
      /\ \A q \in Path : location'[q] = LocationAfter(scan, q)
      /\ g \notin Vanished(scan) /\ g \in NewFiles(scan)
  BY Applying
<1>2. PICK known \in JobStates(scan) : Apply(scan, known)
  BY DEF ScanApplies
<1>3. p \in NewLocations(scan) /\ scan.found[p] = g /\ g # None
  BY <1>1, LocationAfterWhich, Constants DEF Takes
<1>4. scan.owner[p] # None
  BY <1>1, <1>2, <1>3 DEF Apply, Applicable, Takes, StaleRows, ReadInv
<1>5. Predecessor(scan, g) # None
  <2>1. p \in {q \in FoundAt(scan, g) : scan.owner[q] # None}
    BY <1>3, <1>4 DEF NewLocations, FoundAt
  <2>2. {q \in FoundAt(scan, g) : scan.owner[q] # None} \subseteq Nat
    BY Constants DEF FoundAt, Walked
  <2>3. QED
    BY <2>1, <2>2, Least DEF Predecessor
<1>6. PICK q \in NewLocations(scan) :
        /\ scan.found[q] = g
        /\ Predecessor(scan, g) \in PathOf(scan.location, scan.source, q)
  BY <1>1, <1>5, PredecessorRead
<1>7. q \in Path /\ location'[q] = g
  <2>1. q \in Path
    BY <1>6 DEF NewLocations, Walked
  <2>2. LocationAfter(scan, q) = g
    BY <1>1, <1>6 DEF LocationAfter
  <2>3. QED
    BY <1>1, <2>1, <2>2
<1>8. source'[g].record = scan.source[Predecessor(scan, g)].record
  BY <1>1, <1>5 DEF RowAfter, RecordFor
<1>9. QED
  BY <1>6, <1>7, <1>8

(* Whoever notices a change, the new source continues the record of one    *)
(* whose path it has taken.                                                *)
THEOREM RecordsContinue == Spec => RecordContinues
<1> DEFINE Continues(g) ==
      \E p \in Path :
         /\ location'[p] = g
         /\ \/ \E f \in PathOf(location, source, p) : source'[g].record = source[f].record
            \/ /\ ScanApplies
               /\ \E f \in PathOf(scan.location, scan.source, p) :
                     source'[g].record = scan.source[f].record
<1>1. ASSUME Inv, [Next]_vars, NEW g \in File, ~Known(g), Known(g)', \E p \in Path : Takes(g, p)
      PROVE  Continues(g)
  <2>1. RowsInv
    BY <1>1 DEF Inv
  <2>2. CASE ScanApplies
    BY <1>1, <2>2, ApplyRecords
  <2>3. ASSUME NEW f \in File, ImportFindsChange(f) PROVE Continues(g)
    BY <1>1, <2>1, <2>3, FindsChangeRows
  <2>4. ~UNCHANGED source
    BY <1>1 DEF Known
  <2>5. ASSUME NEW f \in File, ImportEnds(f) \/ Associate(f) \/ Publish(f) PROVE FALSE
    BY <1>1, <2>1, <2>4, <2>5, ImportEndsKeepsRows, AssociateKeepsRows DEF Publish
  <2>6. CASE Reprocess \/ Cleanup \/ \E r \in Root : RootRemoved(r)
    <3>1. Known(g)' => Known(g)
      BY <2>1, <2>6, ReprocessKeepsRows, CleanupKeepsRows, RootRemovedKeepsRows
    <3>2. QED
      BY <1>1, <3>1
  <2>7. CASE Around \/ UNCHANGED vars
    BY <2>1, <2>4, <2>7, AroundKeepsRows DEF vars
  <2>8. QED
    BY <1>1, <2>2, <2>3, <2>5, <2>6, <2>7
       DEF Next, World, Scanning, Operating, Importing, ImportEnds, Around
<1>2. Inv /\ [Next]_vars => [\A g \in File : ~Known(g) /\ Known(g)' /\ (\E p \in Path : Takes(g, p)) =>
                                 Continues(g)]_vars
  BY <1>1
<1>3. QED
  BY <1>2, InitInv, NextInv, PTL DEF Spec, RecordContinues
=============================================================================
