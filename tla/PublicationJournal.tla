------------------------- MODULE PublicationJournal -------------------------
(***************************************************************************)
(* Publishing a file: the durable journal of services/publication          *)
(* (attempts.py, cleanup.py), the files it moves, and the crashes between  *)
(* the two.                                                                *)
(*                                                                         *)
(* The final_publish handler prepares an attempt in the worker's           *)
(* transaction, holding the row lock of the library record.  Everything    *)
(* that touches the destination is done later, by _reconcile_step, under   *)
(* the record lock and the storage advisory lock.  Database changes take   *)
(* effect at the commit; renames and unlinks at once, so a crash keeps the *)
(* files as they are and forgets the rest of the step.  `op' is the step   *)
(* whose files are changed and whose commit is still to come.              *)
(*                                                                         *)
(* Attempts are numbered by created_at, which is the time of the claim:    *)
(* the record lock, and so the commit, may come in another order.  The     *)
(* output of an attempt is named after it, and SHA-256 tells outputs apart.*)
(* `reserved' and `staged' are never committed by the worker.  Flushing to *)
(* disk is not modelled: a crash is the loss of a process.                 *)
(*                                                                         *)
(* Bounds: MaxAttempts attempts, MaxFaults crashes, I/O errors and damaged *)
(* outputs.                                                                *)
(***************************************************************************)
EXTENDS Integers, FiniteSets

CONSTANTS Record, Path,
          Intent,   \* what may be published: record, target and revision
          MaxAttempts, MaxFaults

ASSUME JournalAssumption ==
    /\ MaxAttempts \in Nat /\ MaxFaults \in Nat
    /\ Intent \subseteq [record: Record, target: Path, revision: Nat]
    /\ Intent # {}

Attempt == 1 .. MaxAttempts
NoFile == 0
Damaged == -1
Content == Attempt \union {NoFile, Damaged}

VARIABLES
    journal,   \* PublicationAttemptRecord.state; "preparing" is uncommitted
    intent,    \* what each attempt is to publish
    cleaned,   \* cleaned_at is set
    version,   \* LibraryPublicationRecord.state of the attempt's publication
    disk,      \* the file at each managed path
    staged,    \* the output and its manifest are in the attempt's workspace
    backup,    \* the file the attempt displaced
    op,        \* the reconcile step that holds the storage lock
    removing,  \* records whose removal request has still to unlink files
    faults

vars == <<journal, intent, cleaned, version, disk, staged, backup, op, removing,
          faults>>
database == <<journal, intent, cleaned, version, removing>>

Free == [at |-> "free", on |-> 0, doomed |-> {}, complete |-> TRUE]
Journalled == {"prepared", "exposed"}          \* still to be decided
Committed == Journalled \union {"finalized", "failed"}

RecordOf(a) == intent[a].record
Target(a) == intent[a].target

TypeOK ==
    /\ journal \in [Attempt -> Committed \union {"none", "preparing"}]
    /\ intent \in [Attempt -> Intent]
    /\ cleaned \in [Attempt -> BOOLEAN]
    /\ version \in [Attempt -> {"none", "current", "superseded", "withdrawn"}]
    /\ disk \in [Path -> Content]
    /\ staged \in [Attempt -> BOOLEAN]
    /\ backup \in [Attempt -> Content]
    /\ op \in [at: {"free", "moved", "placed", "restored", "emptied"},
               on: Attempt \union {0}, doomed: SUBSET Attempt, complete: BOOLEAN]
    /\ removing \subseteq Record
    /\ faults \in Nat

Init ==
    /\ journal = [a \in Attempt |-> "none"]
    /\ intent = [a \in Attempt |-> CHOOSE i \in Intent : TRUE]  \* set by Reserve
    /\ cleaned = [a \in Attempt |-> FALSE]
    /\ version = [a \in Attempt |-> "none"]
    /\ disk = [p \in Path |-> NoFile]
    /\ staged = [a \in Attempt |-> FALSE]
    /\ backup = [a \in Attempt |-> NoFile]
    /\ op = Free
    /\ removing = {}
    /\ faults = 0

-----------------------------------------------------------------------------
(* Preparation, in the transaction of a final_publish job.                 *)

Preparing(r) == \E a \in Attempt : journal[a] = "preparing" /\ RecordOf(a) = r
RecordLocked(r) == Preparing(r) \/ (op.at # "free" /\ RecordOf(op.on) = r)

(* An identical publication is current, or an identical intent is pending. *)
Known(i) ==
    \E b \in Attempt :
        intent[b] = i /\ (version[b] = "current" \/ journal[b] \in Journalled)

(* reserve_attempt, once the record lock is granted.  The handler's look   *)
(* at the owner of the path is older than the lock, so it guards nothing.  *)
Reserve(a) ==
    /\ journal[a] = "none"
    /\ \E i \in Intent :
         /\ ~RecordLocked(i.record) /\ ~Known(i)
         /\ intent' = [intent EXCEPT ![a] = i]
    /\ journal' = [journal EXCEPT ![a] = "preparing"]
    /\ UNCHANGED <<cleaned, version, disk, staged, backup, op, removing, faults>>

(* The copy is verified, the manifest written, and run_once commits.       *)
CommitPrepared(a) ==
    /\ journal[a] = "preparing"
    /\ journal' = [journal EXCEPT ![a] = "prepared"]
    /\ staged' = [staged EXCEPT ![a] = TRUE]
    /\ UNCHANGED <<intent, cleaned, version, disk, backup, op, removing, faults>>

(* The handler fails, or its worker is lost: only an unjournalled          *)
(* workspace remains.                                                      *)
AbandonPrepared(a) ==
    /\ journal[a] = "preparing"
    /\ journal' = [journal EXCEPT ![a] = "failed"]
    /\ cleaned' = [cleaned EXCEPT ![a] = TRUE]
    /\ UNCHANGED <<intent, version, disk, staged, backup, op, removing, faults>>

-----------------------------------------------------------------------------
(* _reconcile_step: which attempt may use a destination.                   *)

Pending(a) == journal[a] \in Journalled /\ ~cleaned[a]

(* _exposed_output_is_recoverable: the file at the target is a's output,   *)
(* and its manifest is still in the workspace.                             *)
Recoverable(a) == disk[Target(a)] = a

(* Fault: an output that was renamed and not committed counts for nothing. *)
RankCommitted(a) == IF journal[a] = "exposed" THEN 0 ELSE 2

(* The order in which peers get their destination: exposed, then renamed,  *)
(* then all others.                                                        *)
Rank(a) == IF journal[a] = "exposed" THEN 0 ELSE IF Recoverable(a) THEN 1 ELSE 2

(* Fault: peers are looked for among the attempts of the same record.      *)
PeersOfRecord(a) ==
    {b \in Attempt \ {a} : /\ Pending(b) /\ Target(b) = Target(a)
                           /\ RecordOf(b) = RecordOf(a)}

Peers(a) == {b \in Attempt \ {a} : Pending(b) /\ Target(b) = Target(a)}

(* Fault: peers of equal rank each wait for the other.                     *)
ReservedUntied(a) == \A b \in Peers(a) : Rank(a) < Rank(b)

(* a is the least of its peers by rank, then age.                          *)
Reserved(a) ==
    \A b \in Peers(a) : Rank(a) < Rank(b) \/ (Rank(a) = Rank(b) /\ a < b)

Current(b) == version[b] = "current"
OwnedByOther(a) ==
    \E b \in Attempt : Current(b) /\ Target(b) = Target(a) /\ RecordOf(b) # RecordOf(a)

(* The locks are there, the attempt is re-read.                            *)
MayStep(a) == op.at = "free" /\ ~Preparing(RecordOf(a))

Turn(a) == MayStep(a) /\ journal[a] = "prepared" /\ Reserved(a)

(* The destination belongs to another record's current publication.        *)
RejectOwned(a) ==
    /\ Turn(a) /\ OwnedByOther(a)
    /\ journal' = [journal EXCEPT ![a] = "failed"]
    /\ UNCHANGED <<intent, cleaned, version, disk, staged, backup, op, removing, faults>>

(* A process was lost after the rename and before the commit.              *)
Recover(a) ==
    /\ Turn(a) /\ ~OwnedByOther(a) /\ Recoverable(a)
    /\ journal' = [journal EXCEPT ![a] = "exposed"]
    /\ UNCHANGED <<intent, cleaned, version, disk, staged, backup, op, removing, faults>>

(* expose_attempt raises ValueError, and the step is rolled back, when the *)
(* attempt has displaced a file before and there is one again.             *)
Blocked(a) == backup[a] # NoFile /\ disk[Target(a)] # NoFile

(* expose_attempt, first rename: the file at the target goes to the backup.*)
Displace(a) ==
    /\ Turn(a) /\ ~OwnedByOther(a) /\ ~Recoverable(a)
    /\ staged[a] /\ ~Blocked(a)
    /\ IF disk[Target(a)] = NoFile THEN UNCHANGED <<disk, backup>>
       ELSE /\ backup' = [backup EXCEPT ![a] = disk[Target(a)]]
            /\ disk' = [disk EXCEPT ![Target(a)] = NoFile]
    /\ op' = [Free EXCEPT !.at = "moved", !.on = a]
    /\ UNCHANGED <<database, staged, faults>>

(* Second rename: the output goes to the target.                           *)
Place(a) ==
    /\ op.at = "moved" /\ op.on = a
    /\ disk' = [disk EXCEPT ![Target(a)] = a]
    /\ staged' = [staged EXCEPT ![a] = FALSE]
    /\ op' = [op EXCEPT !.at = "placed"]
    /\ UNCHANGED <<database, backup, faults>>

(* The second rename fails: the displaced file is put back and the step is *)
(* rolled back.                                                            *)
PlaceFails(a) ==
    /\ op.at = "moved" /\ op.on = a /\ faults < MaxFaults
    /\ faults' = faults + 1
    /\ IF backup[a] = NoFile THEN UNCHANGED <<disk, backup>>
       ELSE /\ disk' = [disk EXCEPT ![Target(a)] = backup[a]]
            /\ backup' = [backup EXCEPT ![a] = NoFile]
    /\ op' = Free
    /\ UNCHANGED <<database, staged>>

CommitExposed(a) ==
    /\ op.at = "placed" /\ op.on = a
    /\ journal' = [journal EXCEPT ![a] = "exposed"]
    /\ op' = Free
    /\ UNCHANGED <<intent, cleaned, version, disk, staged, backup, removing, faults>>

-----------------------------------------------------------------------------
(* _reconcile_step: the end of an attempt.                                 *)

(* finalize_attempt: the output is verified at the target and becomes the  *)
(* record's current publication; the former one is superseded.             *)
Finalize(a) ==
    /\ MayStep(a) /\ journal[a] = "exposed" /\ Recoverable(a)
    /\ journal' = [journal EXCEPT ![a] = "finalized"]
    /\ version' = [b \in Attempt |->
         IF b = a THEN "current"
         ELSE IF Current(b) /\ RecordOf(b) = RecordOf(a) THEN "superseded"
         ELSE version[b]]
    /\ UNCHANGED <<intent, cleaned, disk, staged, backup, op, removing, faults>>

(* Fault: the attempt fails and the displaced file stays in the backup.    *)
RestoreNothing(a) ==
    /\ MayStep(a) /\ journal[a] = "exposed" /\ ~Recoverable(a)
    /\ op' = [Free EXCEPT !.at = "restored", !.on = a]
    /\ UNCHANGED <<database, disk, staged, backup, faults>>

(* The verification fails, or flushing the output does: _restore_backup    *)
(* copies the displaced file back and keeps the backup.                    *)
Restore(a) ==
    /\ MayStep(a) /\ journal[a] = "exposed"
    /\ \/ ~Recoverable(a) /\ UNCHANGED faults
       \/ Recoverable(a) /\ faults < MaxFaults /\ faults' = faults + 1
    /\ disk' = IF backup[a] = NoFile THEN disk
               ELSE [disk EXCEPT ![Target(a)] = backup[a]]
    /\ op' = [Free EXCEPT !.at = "restored", !.on = a]
    /\ UNCHANGED <<database, staged, backup>>

CommitFailed(a) ==
    /\ op.at = "restored" /\ op.on = a
    /\ journal' = [journal EXCEPT ![a] = "failed"]
    /\ op' = Free
    /\ UNCHANGED <<intent, cleaned, version, disk, staged, backup, removing, faults>>

(* Paths whose files an unfinished attempt other than a counts on.         *)
Protected(a) == {Target(b) : b \in {b \in Attempt \ {a} : Pending(b)}}
CurrentPaths == {Target(b) : b \in {b \in Attempt : Current(b)}}

Superseded(r) == {b \in Attempt : version[b] = "superseded" /\ RecordOf(b) = r}

(* Fault: cleaned_at is set although a superseded file had to be spared.   *)
EmptyOnce(a) ==
    LET old == IF journal[a] = "finalized" THEN Superseded(RecordOf(a)) ELSE {}
    IN  /\ MayStep(a) /\ journal[a] \in {"finalized", "failed"} /\ ~cleaned[a]
        /\ staged' = [staged EXCEPT ![a] = FALSE]
        /\ backup' = [backup EXCEPT ![a] = NoFile]
        /\ op' = [at |-> "emptied", on |-> a, complete |-> TRUE,
                  doomed |-> {b \in old : Target(b) \notin Protected(a) \union CurrentPaths}]
        /\ UNCHANGED <<database, disk, faults>>

(* cleanup_attempt: the workspace is emptied, and a finalized attempt      *)
(* chooses the superseded publications of its record to unlink.            *)
EmptyWorkspace(a) ==
    LET old == IF journal[a] = "finalized" THEN Superseded(RecordOf(a)) ELSE {}
    IN  /\ MayStep(a) /\ journal[a] \in {"finalized", "failed"} /\ ~cleaned[a]
        /\ staged' = [staged EXCEPT ![a] = FALSE]
        /\ backup' = [backup EXCEPT ![a] = NoFile]
        /\ op' = [at |-> "emptied", on |-> a,
                  doomed |-> {b \in old : Target(b) \notin Protected(a) \union CurrentPaths},
                  complete |-> \A b \in old : Target(b) \notin Protected(a)]
        /\ UNCHANGED <<database, disk, faults>>

(* One of them is unlinked, unless its content has changed.                *)
Sweep(b) ==
    /\ op.at = "emptied" /\ b \in op.doomed
    /\ op' = [op EXCEPT !.doomed = @ \ {b}]
    /\ disk' = IF disk[Target(b)] = b THEN [disk EXCEPT ![Target(b)] = NoFile] ELSE disk
    /\ UNCHANGED <<database, staged, backup, faults>>

CommitCleaned(a) ==
    /\ op.at = "emptied" /\ op.on = a /\ op.doomed = {}
    /\ cleaned' = [cleaned EXCEPT ![a] = op.complete]
    /\ op' = Free
    /\ UNCHANGED <<journal, intent, version, disk, staged, backup, removing, faults>>

-----------------------------------------------------------------------------
(* Removal of a publication by an operator: two transactions.              *)

(* The request is refused while any attempt is uncleaned, an attempt of    *)
(* the record is pending or its file was changed.                          *)
Withdraw(r) ==
    LET shown == {b \in Attempt : Current(b) /\ RecordOf(b) = r}
    IN  /\ op.at = "free" /\ ~Preparing(r) /\ r \notin removing
        /\ \A a \in Attempt : journal[a] \in Committed => cleaned[a]
        /\ \A b \in shown : disk[Target(b)] \in {b, NoFile}
        /\ version' = [b \in Attempt |-> IF b \in shown THEN "withdrawn" ELSE version[b]]
        /\ removing' = removing \union {r}
        /\ UNCHANGED <<journal, intent, cleaned, disk, staged, backup, op, faults>>

(* Withdrawn files are unlinked, unless the path is in use again; one that *)
(* was changed ends the request.                                           *)
UnlinkWithdrawn(r) ==
    LET gone  == {b \in Attempt : /\ version[b] = "withdrawn" /\ RecordOf(b) = r
                                  /\ Target(b) \notin Protected(0) \union CurrentPaths}
        same  == {b \in gone : disk[Target(b)] = b}
        fine  == \A b \in gone : disk[Target(b)] \in {b, NoFile}
    IN  /\ r \in removing /\ op.at = "free"
        /\ \E S \in SUBSET same :
             /\ \/ UNCHANGED faults /\ (fine => S = same)
                \/ faults < MaxFaults /\ faults' = faults + 1  \* process lost
             /\ disk' = [p \in Path |-> IF p \in {Target(b) : b \in S} THEN NoFile
                                        ELSE disk[p]]
        /\ removing' = removing \ {r}
        /\ UNCHANGED <<journal, intent, cleaned, version, staged, backup, op>>

-----------------------------------------------------------------------------
(* Faults.                                                                 *)

(* The process that runs a step, or a removal, is lost before its commit.  *)
Crash ==
    /\ faults < MaxFaults /\ faults' = faults + 1
    /\ \/ op.at # "free" /\ op' = Free /\ UNCHANGED removing
       \/ /\ UNCHANGED op
          /\ \E r \in removing : removing' = removing \ {r}
    /\ UNCHANGED <<journal, intent, cleaned, version, disk, staged, backup>>

(* An exposed output is damaged before it has been verified.               *)
Damage(a) ==
    /\ journal[a] = "exposed" /\ Recoverable(a) /\ op.at = "free"
    /\ faults < MaxFaults /\ faults' = faults + 1
    /\ disk' = [disk EXCEPT ![Target(a)] = Damaged]
    /\ UNCHANGED <<database, staged, backup, op>>

Prepare(a) == Reserve(a) \/ CommitPrepared(a) \/ AbandonPrepared(a)
BeginStep(a) == RejectOwned(a) \/ Recover(a) \/ Displace(a) \/ Finalize(a)
                \/ Restore(a) \/ EmptyWorkspace(a)
EndStep(a) == Place(a) \/ CommitExposed(a) \/ CommitFailed(a) \/ Sweep(a)
              \/ CommitCleaned(a)

Next ==
    \/ \E a \in Attempt : Prepare(a) \/ BeginStep(a) \/ EndStep(a)
    \/ \E a \in Attempt : PlaceFails(a) \/ Damage(a)
    \/ \E r \in Record : Withdraw(r) \/ UnlinkWithdrawn(r)
    \/ Crash

Spec == Init /\ [][Next]_vars

-----------------------------------------------------------------------------
(* Safety.                                                                 *)

(* What the library says is published is on disk under its path, or in the *)
(* backup of an unfinished attempt on that path: no interleaving of steps, *)
(* removals, crashes and failed verifications loses a published file.      *)
PublishedContentSafe ==
    \A a \in Attempt : Current(a) =>
        \/ disk[Target(a)] = a
        \/ \E b \in Attempt : /\ backup[b] = a /\ Target(b) = Target(a)
                              /\ journal[b] \in Committed /\ ~cleaned[b]

(* A prepared attempt can still be exposed, or already is: no peer and no  *)
(* cleanup takes its output away.                                          *)
PreparedOutputExists ==
    \A a \in Attempt : journal[a] = "prepared" => staged[a] \/ Recoverable(a)

(* While an attempt is exposed nobody else has the destination, so its     *)
(* finalization cannot clash with the unique index on current paths.       *)
ExposedOwnsPath ==
    \A a, b \in Attempt :
        /\ journal[a] = "exposed" /\ Target(b) = Target(a) /\ b # a
        => /\ journal[b] # "exposed"
           /\ Current(b) => RecordOf(b) = RecordOf(a)

(* Once the attempts of a record are cleaned, nothing it superseded is     *)
(* still on disk.                                                          *)
SupersededRemoved ==
    \A s \in Attempt :
        /\ version[s] = "superseded"
        /\ \A a \in Attempt : RecordOf(a) = RecordOf(s) /\ journal[a] \in Committed
                              => cleaned[a]
        => disk[Target(s)] # s

-----------------------------------------------------------------------------
(* Liveness.  A job ends; a step that has begun ends; each pass of the     *)
(* maintenance loop visits every uncleaned attempt in turn, so one that is *)
(* deferred because a lock is busy is tried again and again (only a jammed *)
(* one ends the pass before the later ones).  Nothing obliges a job to     *)
(* reserve, an operator to remove, or anything to fail.                    *)
Fairness ==
    \A a \in Attempt : /\ WF_vars(CommitPrepared(a) \/ AbandonPrepared(a))
                       /\ SF_vars(BeginStep(a))
                       /\ WF_vars(EndStep(a))

FairSpec == Spec /\ Fairness

(* expose_attempt raises for this attempt in every pass.                   *)
Jammed(a) == journal[a] = "prepared" /\ ~Recoverable(a) /\ Blocked(a)

(* Every attempt that was prepared is finalized or failed, and its         *)
(* workspace cleaned: the destination does not stay reserved, and the      *)
(* operator's requests that wait for recovery are possible again.  The     *)
(* exception: in the end an attempt is jammed for good, which was lost     *)
(* between its two renames, so that it has displaced a file, and finds     *)
(* another one at its target since.                                        *)
AttemptsSettle ==
    \/ \A a \in Attempt : journal[a] = "prepared" ~> cleaned[a]
    \/ \E a \in Attempt : <>[]Jammed(a)
=============================================================================
