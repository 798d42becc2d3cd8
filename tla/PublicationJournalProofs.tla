---------------------- MODULE PublicationJournalProofs ----------------------
(* Proofs about the publication journal, for any records, paths, intents   *)
(* and bounds: the inductive invariant JournalInv, and what follows from   *)
(* it about published files, prepared outputs and destinations.            *)
EXTENDS PublicationJournal, TLAPS

(* A file is where its attempt was to be published, or in the workspace of *)
(* an attempt for the same path, and belongs to a committed attempt.       *)
FilesInv ==
    /\ \A p \in Path, a \in Attempt :
         disk[p] = a => journal[a] \in Committed /\ Target(a) = p
    /\ \A a, b \in Attempt :
         backup[b] = a => journal[a] \in {"finalized", "failed"} /\ Target(a) = Target(b)
    /\ \A a \in Attempt : journal[a] \in {"none", "preparing"} => backup[a] = NoFile

(* How the rows of one attempt belong together.                            *)
RowsInv ==
    \A a \in Attempt :
      /\ version[a] # "none" => journal[a] = "finalized"
      /\ cleaned[a] => journal[a] \in {"finalized", "failed"}

(* Under an exposed attempt lies its own output, or what it displaced.     *)
ExposedInv ==
    \A a \in Attempt : journal[a] = "exposed" =>
        disk[Target(a)] \in {a, Damaged, NoFile, backup[a]}

(* A path has one current publication, and a prepared attempt displaces    *)
(* one of its own record only.                                             *)
OwnerInv ==
    /\ \A a, b \in Attempt : Current(a) /\ Current(b) /\ Target(a) = Target(b) => a = b
    /\ \A a, b \in Attempt : journal[a] = "prepared" /\ backup[a] = b /\ Current(b) =>
         RecordOf(a) = RecordOf(b)

(* While an attempt is pending, what it displaced is safe with it.         *)
SafeInv ==
    \A a \in Attempt : Current(a) =>
        disk[Target(a)] = a \/ \E b \in Attempt : backup[b] = a /\ journal[b] \in Journalled

(* The destination a step has taken is its own until the commit.           *)
Takes(a) ==
    /\ journal[a] = "prepared"
    /\ \A b \in Attempt : Target(b) = Target(a) =>
         /\ journal[b] # "exposed"
         /\ Current(b) => RecordOf(b) = RecordOf(a)

OpInv ==
    /\ op.at # "free" => op.on \in Attempt
    /\ op.at = "moved" => Takes(op.on) /\ disk[Target(op.on)] = NoFile
    /\ op.at = "placed" => Takes(op.on) /\ disk[Target(op.on)] = op.on
    /\ op.at = "restored" =>
         /\ journal[op.on] = "exposed"
         /\ backup[op.on] # NoFile => disk[Target(op.on)] = backup[op.on]
    /\ op.at = "emptied" =>
         /\ journal[op.on] \in {"finalized", "failed"}
         /\ \A b \in op.doomed : version[b] = "superseded"

JournalInv ==
    /\ TypeOK /\ FilesInv /\ RowsInv /\ ExposedInv /\ OwnerInv /\ SafeInv /\ OpInv
    /\ PreparedOutputExists /\ ExposedOwnsPath

-----------------------------------------------------------------------------
(* Attempts are told apart from the two contents that are no output.       *)
LEMMA NoAttempt ==
    NoFile \notin Attempt /\ Damaged \notin Attempt /\ NoFile # Damaged
BY JournalAssumption DEF Attempt, NoFile, Damaged

(* The initial state.                                                      *)
LEMMA InitJournal == Init => JournalInv
<1> SUFFICES ASSUME Init PROVE JournalInv
  OBVIOUS
<1> USE DEF Init, Free
<1>1. TypeOK
  BY JournalAssumption DEF TypeOK, Content, Committed, Journalled
<1>2. FilesInv /\ RowsInv /\ ExposedInv
  BY NoAttempt DEF FilesInv, RowsInv, ExposedInv
<1>3. OwnerInv /\ SafeInv /\ OpInv
  BY NoAttempt DEF OwnerInv, SafeInv, OpInv, Current
<1>4. PreparedOutputExists /\ ExposedOwnsPath
  BY DEF PreparedOutputExists, ExposedOwnsPath
<1>5. QED
  BY <1>1, <1>2, <1>3, <1>4 DEF JournalInv

(* Preparation: the attempt has no file and no publication yet.            *)
LEMMA ReserveKeeps ==
    ASSUME JournalInv, NEW a \in Attempt, Reserve(a)
    PROVE  JournalInv'
<1> USE NoAttempt DEF JournalInv, Reserve
<1>1. TypeOK'
  BY DEF TypeOK
<1>2. a # op.on \/ op.at = "free"
  <2>1. op.at \in {"free", "moved", "placed", "restored", "emptied"}
    BY DEF TypeOK
  <2>2. QED
    BY <2>1 DEF OpInv, Takes
<1>3. \A b \in Attempt \ {a} : /\ intent'[b] = intent[b]
                               /\ journal'[b] = journal[b]
  BY DEF TypeOK
<1>4. /\ journal'[a] = "preparing" /\ version[a] = "none" /\ ~cleaned[a]
      /\ backup[a] = NoFile
      /\ \A p \in Path : disk[p] # a
      /\ \A b \in Attempt : backup[b] # a
  BY DEF TypeOK, FilesInv, RowsInv, Committed, Journalled
<1>5. FilesInv'
  BY <1>3, <1>4 DEF FilesInv, Target
<1>6. RowsInv' /\ ExposedInv'
  BY <1>3, <1>4 DEF RowsInv, ExposedInv, Target
<1>7. OwnerInv' /\ SafeInv'
  BY <1>3, <1>4 DEF OwnerInv, SafeInv, Target, Current, RecordOf, Journalled
<1>8. OpInv'
  BY <1>2, <1>3, <1>4 DEF OpInv, Takes, Target, RecordOf, Current
<1>9. PreparedOutputExists' /\ ExposedOwnsPath'
  BY <1>3, <1>4 DEF PreparedOutputExists, ExposedOwnsPath, Target, Current, RecordOf, Recoverable
<1>10. QED
  BY <1>1, <1>5, <1>6, <1>7, <1>8, <1>9

(* The worker's commit adds a prepared attempt with its output staged.     *)
LEMMA CommitPreparedKeeps ==
    ASSUME JournalInv, NEW a \in Attempt, CommitPrepared(a)
    PROVE  JournalInv'
<1> USE NoAttempt DEF JournalInv, CommitPrepared
<1>1. TypeOK'
  BY DEF TypeOK, Committed, Journalled
<1>2. /\ \A b \in Attempt \ {a} : /\ journal'[b] = journal[b]
                                  /\ staged'[b] = staged[b]
      /\ journal'[a] = "prepared" /\ staged'[a]
  BY DEF TypeOK
<1>3. /\ backup[a] = NoFile /\ version[a] = "none" /\ ~cleaned[a]
      /\ \A p \in Path : disk[p] # a
      /\ \A b \in Attempt : backup[b] # a
  BY DEF TypeOK, FilesInv, RowsInv, Committed, Journalled
<1>4. FilesInv' /\ RowsInv' /\ ExposedInv'
  BY <1>2, <1>3 DEF FilesInv, RowsInv, ExposedInv, Target, Committed, Journalled
<1>5. OwnerInv' /\ SafeInv'
  BY <1>2, <1>3 DEF OwnerInv, SafeInv, Target, Current, RecordOf, Journalled
<1>6. OpInv'
  <2>1. op.at \in {"free", "moved", "placed", "restored", "emptied"}
    BY DEF TypeOK
  <2>2. op.at # "free" => op.on # a
    BY <2>1 DEF OpInv, Takes
  <2>3. QED
    BY <1>2, <1>3, <2>2 DEF OpInv, Takes, Target, RecordOf, Current
<1>7. PreparedOutputExists' /\ ExposedOwnsPath'
  BY <1>2, <1>3 DEF PreparedOutputExists, ExposedOwnsPath, Target, Current, RecordOf,
                    Recoverable
<1>8. QED
  BY <1>1, <1>4, <1>5, <1>6, <1>7

(* An attempt that never committed leaves no row to be decided.            *)
LEMMA AbandonPreparedKeeps ==
    ASSUME JournalInv, NEW a \in Attempt, AbandonPrepared(a)
    PROVE  JournalInv'
<1> USE NoAttempt DEF JournalInv, AbandonPrepared
<1>1. TypeOK'
  BY DEF TypeOK, Committed, Journalled
<1>2. /\ \A b \in Attempt \ {a} : /\ journal'[b] = journal[b]
                                  /\ cleaned'[b] = cleaned[b]
      /\ journal'[a] = "failed"
  BY DEF TypeOK
<1>3. /\ backup[a] = NoFile /\ version[a] = "none"
      /\ \A p \in Path : disk[p] # a
      /\ \A b \in Attempt : backup[b] # a
  BY DEF TypeOK, FilesInv, RowsInv, Committed, Journalled
<1>4. FilesInv' /\ RowsInv' /\ ExposedInv'
  BY <1>2, <1>3 DEF FilesInv, RowsInv, ExposedInv, Target, Committed, Journalled
<1>5. OwnerInv' /\ SafeInv'
  BY <1>2, <1>3 DEF OwnerInv, SafeInv, Target, Current, RecordOf, Journalled
<1>6. OpInv'
  <2>1. op.at \in {"free", "moved", "placed", "restored", "emptied"}
    BY DEF TypeOK
  <2>2. op.at # "free" => op.on # a
    BY <2>1 DEF OpInv, Takes
  <2>3. QED
    BY <1>2, <1>3, <2>2 DEF OpInv, Takes, Target, RecordOf, Current
<1>7. PreparedOutputExists' /\ ExposedOwnsPath'
  BY <1>2, <1>3 DEF PreparedOutputExists, ExposedOwnsPath, Target, Current, RecordOf,
                    Recoverable
<1>8. QED
  BY <1>1, <1>4, <1>5, <1>6, <1>7

-----------------------------------------------------------------------------
(* The steps of reconciliation.                                            *)

(* An attempt whose turn it is meets no exposed attempt on its path, and   *)
(* unless its own output is there, no prepared one whose output is.        *)
LEMMA TurnAlone ==
    ASSUME JournalInv, NEW a \in Attempt, Turn(a)
    PROVE  /\ \A b \in Attempt : Target(b) = Target(a) => journal[b] # "exposed"
           /\ ~Recoverable(a) =>
                \A b \in Attempt : Target(b) = Target(a) /\ disk[Target(a)] = b
                                   => journal[b] # "prepared"
<1> USE DEF JournalInv, Turn
<1>1. \A b \in Attempt : journal[b] \in Journalled => Pending(b)
  BY DEF RowsInv, Pending, Journalled
<1>2. \A b \in Attempt \ {a} : Target(b) = Target(a) /\ journal[b] \in Journalled =>
        Rank(a) <= Rank(b)
  BY <1>1 DEF Reserved, Peers, Rank
<1>3. Rank(a) = IF Recoverable(a) THEN 1 ELSE 2
  BY DEF Rank
<1>4. \A b \in Attempt : Target(b) = Target(a) => journal[b] # "exposed"
  BY <1>2, <1>3 DEF Rank, Journalled
<1>5. ~Recoverable(a) =>
        \A b \in Attempt : Target(b) = Target(a) /\ disk[Target(a)] = b
                           => journal[b] # "prepared"
  BY <1>2, <1>3 DEF Rank, Journalled, Recoverable
<1>6. QED
  BY <1>4, <1>5

(* A rejected attempt holds no current file: it displaced one of its own   *)
(* record only, and the path has another owner.                            *)
LEMMA RejectOwnedKeeps ==
    ASSUME JournalInv, NEW a \in Attempt, RejectOwned(a)
    PROVE  JournalInv'
<1> USE NoAttempt DEF JournalInv, RejectOwned, Turn, MayStep
<1>1. TypeOK'
  BY DEF TypeOK, Committed, Journalled
<1>2. /\ \A b \in Attempt \ {a} : journal'[b] = journal[b]
      /\ journal'[a] = "failed" /\ version[a] = "none"
  BY DEF TypeOK, RowsInv
<1>3. FilesInv' /\ RowsInv' /\ ExposedInv'
  BY <1>2 DEF FilesInv, RowsInv, ExposedInv, Target, Committed, Journalled
<1>4. OwnerInv'
  BY <1>2 DEF OwnerInv, Target, Current, RecordOf
<1>5. SafeInv'
  <2>1. \A c \in Attempt : Current(c) => backup[a] # c
    BY DEF OwnerInv, FilesInv, OwnedByOther
  <2>2. QED
    BY <1>2, <2>1 DEF SafeInv, Current, Target, Journalled
<1>6. OpInv'
  BY <1>2 DEF OpInv
<1>7. PreparedOutputExists' /\ ExposedOwnsPath'
  BY <1>2 DEF PreparedOutputExists, ExposedOwnsPath, Target, Current, RecordOf, Recoverable
<1>8. QED
  BY <1>1, <1>3, <1>4, <1>5, <1>6, <1>7

(* A recovered attempt is alone on its destination.                        *)
LEMMA RecoverKeeps ==
    ASSUME JournalInv, NEW a \in Attempt, Recover(a)
    PROVE  JournalInv'
<1> USE NoAttempt DEF JournalInv, Recover, MayStep
<1>1. TypeOK'
  BY DEF TypeOK, Committed, Journalled
<1>2. /\ \A b \in Attempt \ {a} : journal'[b] = journal[b]
      /\ journal[a] = "prepared" /\ journal'[a] = "exposed" /\ version[a] = "none"
      /\ op.at = "free"
  BY DEF TypeOK, RowsInv, Turn
<1>3. /\ \A b \in Attempt : Target(b) = Target(a) => journal[b] # "exposed"
      /\ \A b \in Attempt : Current(b) /\ Target(b) = Target(a) => RecordOf(b) = RecordOf(a)
  BY TurnAlone DEF OwnedByOther
<1>4. FilesInv' /\ RowsInv' /\ ExposedInv'
  BY <1>2 DEF FilesInv, RowsInv, ExposedInv, Target, Committed, Journalled, Recoverable
<1>5. OwnerInv' /\ SafeInv'
  BY <1>2 DEF OwnerInv, SafeInv, Target, Current, RecordOf, Journalled
<1>6. OpInv'
  BY <1>2 DEF OpInv
<1>7. PreparedOutputExists'
  BY <1>2 DEF PreparedOutputExists, Target, Recoverable
<1>8. ExposedOwnsPath'
  BY <1>2, <1>3 DEF ExposedOwnsPath, Target, Current, RecordOf
<1>9. QED
  BY <1>1, <1>4, <1>5, <1>6, <1>7, <1>8

(* What the first rename displaces is the file of a decided attempt, and   *)
(* a current one belongs to the same record.                               *)
LEMMA DisplaceKeeps ==
    ASSUME JournalInv, NEW a \in Attempt, Displace(a)
    PROVE  JournalInv'
<1> USE NoAttempt DEF JournalInv, Displace, MayStep, database, Free
<1> DEFINE T == Target(a)
<1>1. /\ journal[a] = "prepared" /\ T \in Path /\ op.at = "free"
      /\ journal' = journal /\ intent' = intent /\ version' = version
  BY JournalAssumption DEF TypeOK, Turn, Target
<1>2. TypeOK'
  <2>1. op' = [at |-> "moved", on |-> a, doomed |-> {}, complete |-> TRUE]
    OBVIOUS
  <2>2. disk \in [Path -> Content] /\ disk[T] \in Content /\ NoFile \in Content
    BY <1>1 DEF TypeOK, Content
  <2>3. disk' \in [Path -> Content] /\ backup' \in [Attempt -> Content]
    BY <2>2 DEF TypeOK
  <2>4. QED
    BY <2>1, <2>3 DEF TypeOK
<1>3. /\ disk'[T] = NoFile
      /\ backup'[a] = IF disk[T] = NoFile THEN backup[a] ELSE disk[T]
      /\ disk[T] # NoFile => backup[a] = NoFile
      /\ \A p \in Path \ {T} : disk'[p] = disk[p]
      /\ \A b \in Attempt \ {a} : backup'[b] = backup[b]
  BY <1>1 DEF TypeOK, Blocked
<1>4. \A b \in Attempt : Target(b) \in Path
  BY JournalAssumption DEF TypeOK, Target
<1>5. /\ \A b \in Attempt : Target(b) = T => journal[b] # "exposed"
      /\ \A b \in Attempt : Current(b) /\ Target(b) = T => RecordOf(b) = RecordOf(a)
      /\ \A b \in Attempt : disk[T] = b => /\ journal[b] \in {"finalized", "failed"}
                                          /\ Target(b) = T
  <2>1. \A b \in Attempt : disk[T] = b => Target(b) = T /\ journal[b] \in Committed
    BY <1>1 DEF FilesInv
  <2>2. QED
    BY <2>1, TurnAlone DEF OwnedByOther, Committed, Journalled
<1> HIDE DEF T
<1>6. FilesInv'
  BY <1>1, <1>3, <1>5 DEF FilesInv, Target, T
<1>7. RowsInv' /\ ExposedInv'
  BY <1>1, <1>3, <1>4, <1>5 DEF RowsInv, ExposedInv, Target, T
<1>8. OwnerInv'
  BY <1>1, <1>3, <1>5 DEF OwnerInv, Target, Current, RecordOf, T
<1>9. SafeInv'
  BY <1>1, <1>3, <1>4 DEF SafeInv, Target, Current, Journalled, T
<1>10. OpInv'
  BY <1>1, <1>3, <1>5 DEF OpInv, Takes, Target, Current, RecordOf, T
<1>11. PreparedOutputExists' /\ ExposedOwnsPath'
  BY <1>1, <1>3, <1>4, <1>5 DEF PreparedOutputExists, ExposedOwnsPath, Target, Current,
                                RecordOf, Recoverable, T
<1>12. QED
  BY <1>2, <1>6, <1>7, <1>8, <1>9, <1>10, <1>11

(* The second rename finds the destination empty.                          *)
LEMMA PlaceKeeps ==
    ASSUME JournalInv, NEW a \in Attempt, Place(a)
    PROVE  JournalInv'
<1> USE NoAttempt DEF JournalInv, Place, database
<1>1. /\ Takes(a) /\ disk[Target(a)] = NoFile /\ Target(a) \in Path
      /\ \A b \in Attempt : Target(b) \in Path
  BY JournalAssumption DEF OpInv, TypeOK, Target
<1>2. TypeOK'
  BY DEF TypeOK, Content
<1>3. /\ disk'[Target(a)] = a
      /\ \A p \in Path \ {Target(a)} : disk'[p] = disk[p]
      /\ \A b \in Attempt \ {a} : staged'[b] = staged[b]
      /\ op'.at = "placed" /\ op'.on = a
  BY <1>1 DEF TypeOK
<1>4. FilesInv' /\ RowsInv' /\ ExposedInv'
  BY <1>1, <1>3 DEF FilesInv, RowsInv, ExposedInv, Takes, Target, Committed, Journalled
<1>5. OwnerInv' /\ SafeInv'
  BY <1>1, <1>3 DEF OwnerInv, SafeInv, Target, Current, RecordOf
<1>6. OpInv'
  BY <1>1, <1>3 DEF OpInv, Takes, Target, Current, RecordOf
<1>7. PreparedOutputExists' /\ ExposedOwnsPath'
  BY <1>1, <1>3 DEF PreparedOutputExists, ExposedOwnsPath, Target, Current, RecordOf,
                    Recoverable
<1>8. QED
  BY <1>2, <1>4, <1>5, <1>6, <1>7

(* A second rename that fails puts the displaced file back.                *)
LEMMA PlaceFailsKeeps ==
    ASSUME JournalInv, NEW a \in Attempt, PlaceFails(a)
    PROVE  JournalInv'
<1> USE NoAttempt DEF JournalInv, PlaceFails, database, Free
<1>1. /\ Takes(a) /\ disk[Target(a)] = NoFile /\ Target(a) \in Path
      /\ \A b \in Attempt : Target(b) \in Path
  BY JournalAssumption DEF OpInv, TypeOK, Target
<1>2. TypeOK'
  BY DEF TypeOK, Content
<1>3. /\ disk'[Target(a)] = backup[a]
      /\ \A p \in Path \ {Target(a)} : disk'[p] = disk[p]
      /\ \A b \in Attempt \ {a} : backup'[b] = backup[b]
      /\ backup'[a] = NoFile
  BY <1>1 DEF TypeOK
<1>4. FilesInv' /\ RowsInv'
  BY <1>1, <1>3 DEF FilesInv, RowsInv, Target, Committed, Journalled
<1>5. ExposedInv'
  BY <1>1, <1>3 DEF ExposedInv, Takes, Target
<1>6. OwnerInv' /\ SafeInv'
  BY <1>1, <1>3 DEF OwnerInv, SafeInv, FilesInv, Target, Current, RecordOf
<1>7. OpInv'
  BY DEF OpInv
<1>8. PreparedOutputExists' /\ ExposedOwnsPath'
  BY <1>1, <1>3 DEF PreparedOutputExists, ExposedOwnsPath, Target, Current, RecordOf,
                    Recoverable
<1>9. QED
  BY <1>2, <1>4, <1>5, <1>6, <1>7, <1>8

(* The commit after the renames.                                           *)
LEMMA CommitExposedKeeps ==
    ASSUME JournalInv, NEW a \in Attempt, CommitExposed(a)
    PROVE  JournalInv'
<1> USE NoAttempt DEF JournalInv, CommitExposed, Free
<1>1. Takes(a) /\ disk[Target(a)] = a
  BY DEF OpInv
<1>2. TypeOK'
  BY DEF TypeOK, Committed, Journalled
<1>3. /\ \A b \in Attempt \ {a} : journal'[b] = journal[b]
      /\ journal[a] = "prepared" /\ journal'[a] = "exposed" /\ version[a] = "none"
  BY <1>1 DEF TypeOK, RowsInv, Takes
<1>4. FilesInv' /\ RowsInv' /\ ExposedInv'
  BY <1>1, <1>3 DEF FilesInv, RowsInv, ExposedInv, Target, Committed, Journalled
<1>5. OwnerInv' /\ SafeInv' /\ OpInv'
  BY <1>3 DEF OwnerInv, SafeInv, OpInv, Target, Current, RecordOf, Journalled
<1>6. PreparedOutputExists'
  BY <1>3 DEF PreparedOutputExists, Target, Recoverable
<1>7. ExposedOwnsPath'
  BY <1>1, <1>3 DEF ExposedOwnsPath, Takes, Target, Current, RecordOf
<1>8. QED
  BY <1>2, <1>4, <1>5, <1>6, <1>7

(* The current publication on the path of a finalized attempt can only be  *)
(* one of its own record, which is superseded: the unique index holds.     *)
LEMMA FinalizeKeeps ==
    ASSUME JournalInv, NEW a \in Attempt, Finalize(a)
    PROVE  JournalInv'
<1> USE NoAttempt DEF JournalInv, Finalize, MayStep
<1>1. TypeOK'
  BY DEF TypeOK, Committed, Journalled
<1>2. /\ \A b \in Attempt \ {a} : journal'[b] = journal[b]
      /\ journal'[a] = "finalized" /\ disk[Target(a)] = a
      /\ version'[a] = "current"
      /\ \A b \in Attempt \ {a} :
           version'[b] = IF Current(b) /\ RecordOf(b) = RecordOf(a)
                         THEN "superseded" ELSE version[b]
  BY DEF TypeOK, Recoverable
<1>3. \A b \in Attempt \ {a} : version'[b] = "current" =>
        Current(b) /\ RecordOf(b) # RecordOf(a) /\ Target(b) # Target(a)
  BY <1>2 DEF ExposedOwnsPath, Current
<1>4. FilesInv' /\ RowsInv' /\ ExposedInv'
  BY <1>2 DEF FilesInv, RowsInv, ExposedInv, Current, Target, Committed, Journalled
<1>5. OwnerInv'
  <2>1. \A b \in Attempt : backup[b] # a
    BY DEF FilesInv
  <2>2. QED
    BY <1>2, <1>3, <2>1 DEF OwnerInv, Target, Current, RecordOf
<1>6. SafeInv'
  BY <1>2, <1>3 DEF SafeInv, FilesInv, Target, Current, Journalled
<1>7. OpInv'
  BY DEF OpInv
<1>8. PreparedOutputExists' /\ ExposedOwnsPath'
  BY <1>2, <1>3 DEF PreparedOutputExists, ExposedOwnsPath, Target, Current, RecordOf,
                    Recoverable
<1>9. QED
  BY <1>1, <1>4, <1>5, <1>6, <1>7, <1>8

(* A restore overwrites nothing but the output that failed.                *)
LEMMA RestoreKeeps ==
    ASSUME JournalInv, NEW a \in Attempt, Restore(a)
    PROVE  JournalInv'
<1> USE NoAttempt DEF JournalInv, Restore, MayStep, database, Free
<1>1. /\ Target(a) \in Path /\ journal[a] = "exposed" /\ version[a] = "none"
      /\ \A b \in Attempt : Target(b) \in Path
      /\ disk[Target(a)] \in {a, Damaged, NoFile, backup[a]}
  BY JournalAssumption DEF TypeOK, Target, RowsInv, ExposedInv
<1>2. TypeOK'
  <2>1. op' = [at |-> "restored", on |-> a, doomed |-> {}, complete |-> TRUE]
    OBVIOUS
  <2>2. disk' \in [Path -> Content]
    BY DEF TypeOK
  <2>3. faults' \in Nat
    BY DEF TypeOK
  <2>4. QED
    BY <2>1, <2>2, <2>3 DEF TypeOK
<1>3. /\ disk'[Target(a)] = IF backup[a] = NoFile THEN disk[Target(a)] ELSE backup[a]
      /\ \A p \in Path \ {Target(a)} : disk'[p] = disk[p]
      /\ op'.at = "restored" /\ op'.on = a
  BY <1>1 DEF TypeOK
<1>4. FilesInv' /\ RowsInv' /\ ExposedInv'
  <2>1. FilesInv'
    BY <1>1, <1>3 DEF FilesInv, Target, Committed
  <2>2. RowsInv' /\ ExposedInv'
    BY <1>1, <1>3 DEF RowsInv, ExposedInv, ExposedOwnsPath, Target
  <2>3. QED
    BY <2>1, <2>2
<1>5. OwnerInv' /\ SafeInv'
  BY <1>1, <1>3 DEF OwnerInv, SafeInv, Target, Current, RecordOf
<1>6. OpInv'
  BY <1>1, <1>3 DEF OpInv, Target
<1>7. PreparedOutputExists' /\ ExposedOwnsPath'
  BY <1>1, <1>3 DEF PreparedOutputExists, ExposedOwnsPath, FilesInv, Target, Current,
                    RecordOf, Recoverable
<1>8. QED
  BY <1>2, <1>4, <1>5, <1>6, <1>7

(* When an attempt fails, what it displaced is at its path again.          *)
LEMMA CommitFailedKeeps ==
    ASSUME JournalInv, NEW a \in Attempt, CommitFailed(a)
    PROVE  JournalInv'
<1> USE NoAttempt DEF JournalInv, CommitFailed, Free
<1>1. /\ journal[a] = "exposed"
      /\ backup[a] # NoFile => disk[Target(a)] = backup[a]
  BY DEF OpInv
<1>2. TypeOK'
  BY DEF TypeOK, Committed, Journalled
<1>3. /\ \A b \in Attempt \ {a} : journal'[b] = journal[b]
      /\ journal'[a] = "failed" /\ version[a] = "none"
  BY <1>1 DEF TypeOK, RowsInv
<1>4. FilesInv' /\ RowsInv' /\ ExposedInv'
  BY <1>1, <1>3 DEF FilesInv, RowsInv, ExposedInv, Target, Committed, Journalled
<1>5. OwnerInv' /\ OpInv'
  BY <1>3 DEF OwnerInv, OpInv, Target, Current, RecordOf
<1>6. SafeInv'
  BY <1>1, <1>3 DEF SafeInv, FilesInv, Target, Current, Journalled
<1>7. PreparedOutputExists' /\ ExposedOwnsPath'
  BY <1>3 DEF PreparedOutputExists, ExposedOwnsPath, Target, Current, RecordOf, Recoverable
<1>8. QED
  BY <1>2, <1>4, <1>5, <1>6, <1>7

(* Only decided attempts lose their workspace.                             *)
LEMMA EmptyWorkspaceKeeps ==
    ASSUME JournalInv, NEW a \in Attempt, EmptyWorkspace(a)
    PROVE  JournalInv'
<1> USE NoAttempt DEF JournalInv, EmptyWorkspace, MayStep, database
<1>1. /\ \A b \in Attempt \ {a} : /\ backup'[b] = backup[b]
                                  /\ staged'[b] = staged[b]
      /\ backup'[a] = NoFile /\ journal[a] \in {"finalized", "failed"}
  BY DEF TypeOK
<1>2. /\ op'.at = "emptied" /\ op'.on = a
      /\ op'.complete \in BOOLEAN
      /\ op'.doomed \subseteq Superseded(RecordOf(a))
  OBVIOUS
<1>3. TypeOK'
  <2>1. op' \in [at: {"free", "moved", "placed", "restored", "emptied"},
                 on: Attempt \union {0}, doomed: SUBSET Attempt, complete: BOOLEAN]
    BY <1>2 DEF Superseded
  <2>2. QED
    BY <2>1 DEF TypeOK, Content
<1>4. FilesInv' /\ RowsInv' /\ ExposedInv'
  BY <1>1 DEF FilesInv, RowsInv, ExposedInv, Target, Committed, Journalled
<1>5. OwnerInv' /\ SafeInv'
  BY <1>1 DEF OwnerInv, SafeInv, Target, Current, RecordOf, Journalled
<1>6. OpInv'
  BY <1>1, <1>2 DEF OpInv, Superseded
<1>7. PreparedOutputExists' /\ ExposedOwnsPath'
  BY <1>1 DEF PreparedOutputExists, ExposedOwnsPath, Target, Current, RecordOf, Recoverable
<1>8. QED
  BY <1>3, <1>4, <1>5, <1>6, <1>7

(* A file may go when it is the output of an attempt that is neither       *)
(* current nor prepared.                                                   *)
LEMMA UnlinkKeepsFiles ==
    ASSUME JournalInv, UNCHANGED <<journal, intent, cleaned, version, backup, staged>>,
           NEW S \in SUBSET Attempt,
           disk' = [p \in Path |-> IF p \in {Target(b) : b \in S} THEN NoFile ELSE disk[p]],
           \A b \in S : /\ disk[Target(b)] = b
                       /\ version[b] \in {"superseded", "withdrawn"}
    PROVE  /\ disk' \in [Path -> Content]
           /\ FilesInv' /\ RowsInv' /\ ExposedInv' /\ OwnerInv' /\ SafeInv'
           /\ PreparedOutputExists' /\ ExposedOwnsPath'
<1> USE NoAttempt DEF JournalInv
<1>1. /\ disk' \in [Path -> Content]
      /\ \A p \in Path : disk'[p] = disk[p] \/ disk'[p] = NoFile
  BY DEF TypeOK, Content
<1>2. \A c \in Attempt : disk[Target(c)] = c /\ c \notin S => disk'[Target(c)] = c
  <2>1. \A c \in Attempt : Target(c) \in Path
    BY JournalAssumption DEF TypeOK, Target
  <2>2. QED
    BY <2>1
<1>3. \A c \in Attempt : c \in S => ~Current(c) /\ journal[c] = "finalized"
  BY DEF Current, RowsInv
<1>4. \A c \in Attempt : Target(c) \in Path
  BY JournalAssumption DEF TypeOK, Target
<1>5. FilesInv' /\ RowsInv' /\ ExposedInv'
  BY <1>1, <1>4 DEF FilesInv, RowsInv, ExposedInv, Target
<1>6. OwnerInv' /\ SafeInv'
  BY <1>2, <1>3 DEF OwnerInv, SafeInv, Target, Current, RecordOf
<1>7. PreparedOutputExists' /\ ExposedOwnsPath'
  BY <1>2, <1>3 DEF PreparedOutputExists, ExposedOwnsPath, Target, Current, RecordOf,
                    Recoverable
<1>8. QED
  BY <1>1, <1>5, <1>6, <1>7

(* A superseded file is unlinked.                                          *)
LEMMA SweepKeeps ==
    ASSUME JournalInv, NEW b \in Attempt, Sweep(b)
    PROVE  JournalInv'
<1> USE DEF Sweep, database
<1>1. version[b] = "superseded" /\ Target(b) \in Path
  BY JournalAssumption DEF JournalInv, OpInv, TypeOK, Target
<1>2. PICK S \in SUBSET Attempt : S = IF disk[Target(b)] = b THEN {b} ELSE {}
  OBVIOUS
<1>3. disk' = [p \in Path |-> IF p \in {Target(c) : c \in S} THEN NoFile ELSE disk[p]]
  BY <1>1, <1>2 DEF JournalInv, TypeOK
<1>4. /\ disk' \in [Path -> Content]
      /\ FilesInv' /\ RowsInv' /\ ExposedInv' /\ OwnerInv' /\ SafeInv'
      /\ PreparedOutputExists' /\ ExposedOwnsPath'
  BY <1>1, <1>2, <1>3, UnlinkKeepsFiles
<1>5. TypeOK'
  BY <1>4 DEF JournalInv, TypeOK
<1>6. OpInv'
  BY DEF JournalInv, OpInv, TypeOK
<1>7. QED
  BY <1>4, <1>5, <1>6 DEF JournalInv

(* The commit of cleaned_at.                                               *)
LEMMA CommitCleanedKeeps ==
    ASSUME JournalInv, NEW a \in Attempt, CommitCleaned(a)
    PROVE  JournalInv'
<1> USE DEF JournalInv, CommitCleaned, Free
<1>1. TypeOK'
  BY DEF TypeOK
<1>2. /\ journal[a] \in {"finalized", "failed"}
      /\ \A b \in Attempt \ {a} : cleaned'[b] = cleaned[b]
  BY DEF OpInv, TypeOK
<1>3. FilesInv' /\ RowsInv' /\ ExposedInv'
  BY <1>2 DEF FilesInv, RowsInv, ExposedInv, Target
<1>4. OwnerInv' /\ SafeInv' /\ OpInv'
  BY DEF OwnerInv, SafeInv, OpInv, Target, Current, RecordOf
<1>5. PreparedOutputExists' /\ ExposedOwnsPath'
  BY DEF PreparedOutputExists, ExposedOwnsPath, Target, Current, RecordOf, Recoverable
<1>6. QED
  BY <1>1, <1>3, <1>4, <1>5

-----------------------------------------------------------------------------
(* Removal and faults.                                                     *)
LEMMA WithdrawKeeps ==
    ASSUME JournalInv, NEW r \in Record, Withdraw(r)
    PROVE  JournalInv'
<1> USE DEF JournalInv, Withdraw
<1>1. TypeOK'
  BY DEF TypeOK
<1>2. \A b \in Attempt : /\ version'[b] = "current" => version[b] = "current"
                        /\ version'[b] # "none" => version[b] # "none"
  BY DEF TypeOK, Current
<1>3. FilesInv' /\ RowsInv' /\ ExposedInv'
  BY <1>2 DEF FilesInv, RowsInv, ExposedInv, Target
<1>4. OwnerInv' /\ SafeInv' /\ OpInv'
  BY <1>2 DEF OwnerInv, SafeInv, OpInv, Target, RecordOf, Current
<1>5. PreparedOutputExists' /\ ExposedOwnsPath'
  BY <1>2 DEF PreparedOutputExists, ExposedOwnsPath, Target, RecordOf, Recoverable, Current
<1>6. QED
  BY <1>1, <1>3, <1>4, <1>5

(* Withdrawn files are unlinked.                                           *)
LEMMA UnlinkWithdrawnKeeps ==
    ASSUME JournalInv, NEW r \in Record, UnlinkWithdrawn(r)
    PROVE  JournalInv'
<1>1. PICK S \in SUBSET {b \in Attempt : version[b] = "withdrawn" /\ disk[Target(b)] = b} :
        disk' = [p \in Path |-> IF p \in {Target(b) : b \in S} THEN NoFile ELSE disk[p]]
  BY DEF UnlinkWithdrawn
<1>2. /\ disk' \in [Path -> Content]
      /\ FilesInv' /\ RowsInv' /\ ExposedInv' /\ OwnerInv' /\ SafeInv'
      /\ PreparedOutputExists' /\ ExposedOwnsPath'
  <2>1. UNCHANGED <<journal, intent, cleaned, version, backup, staged>>
    BY DEF UnlinkWithdrawn
  <2>2. S \in SUBSET Attempt
    OBVIOUS
  <2>3. QED
    BY <1>1, <2>1, <2>2, UnlinkKeepsFiles
<1>3. op.at = "free" /\ op' = op /\ removing' \subseteq removing
  BY DEF UnlinkWithdrawn
<1>4. TypeOK'
  <2>1. faults \in Nat /\ (faults' = faults \/ faults' = faults + 1)
    BY DEF UnlinkWithdrawn, JournalInv, TypeOK
  <2>2. faults' \in Nat
    BY <2>1
  <2>3. UNCHANGED <<journal, intent, cleaned, version, backup, staged>>
    BY DEF UnlinkWithdrawn
  <2>4. QED
    BY <1>2, <1>3, <2>2, <2>3 DEF JournalInv, TypeOK
<1>5. OpInv'
  BY <1>3 DEF OpInv
<1>6. QED
  BY <1>2, <1>4, <1>5 DEF JournalInv

(* A lost process leaves the files as they are.                            *)
LEMMA CrashKeeps ==
    ASSUME JournalInv, Crash
    PROVE  JournalInv'
<1> USE DEF JournalInv, Crash, Free
<1>1. TypeOK'
  <2>1. faults' \in Nat /\ removing' \subseteq Record
    BY DEF TypeOK
  <2>2. op' \in [at: {"free", "moved", "placed", "restored", "emptied"},
                 on: Attempt \union {0}, doomed: SUBSET Attempt, complete: BOOLEAN]
    <3>1. Free \in [at: {"free", "moved", "placed", "restored", "emptied"},
                    on: Attempt \union {0}, doomed: SUBSET Attempt, complete: BOOLEAN]
      OBVIOUS
    <3>2. op' = op \/ op' = Free
      OBVIOUS
    <3>3. QED
      BY <3>1, <3>2 DEF TypeOK
  <2>3. UNCHANGED <<journal, intent, cleaned, version, disk, staged, backup>>
    OBVIOUS
  <2>4. QED
    BY <2>1, <2>2, <2>3 DEF TypeOK
<1>2. FilesInv' /\ RowsInv' /\ ExposedInv'
  BY DEF FilesInv, RowsInv, ExposedInv, Target
<1>3. OwnerInv' /\ SafeInv' /\ OpInv'
  BY DEF OwnerInv, SafeInv, OpInv, Takes, Target, Current, RecordOf
<1>4. PreparedOutputExists' /\ ExposedOwnsPath'
  BY DEF PreparedOutputExists, ExposedOwnsPath, Target, Current, RecordOf, Recoverable
<1>5. QED
  BY <1>1, <1>2, <1>3, <1>4

(* A damaged output belongs to an exposed attempt.                         *)
LEMMA DamageKeeps ==
    ASSUME JournalInv, NEW a \in Attempt, Damage(a)
    PROVE  JournalInv'
<1> USE NoAttempt DEF JournalInv, Damage, database
<1>1. /\ disk[Target(a)] = a /\ version[a] = "none" /\ journal[a] = "exposed"
      /\ Target(a) \in Path
      /\ \A b \in Attempt : Target(b) \in Path
  BY JournalAssumption DEF Recoverable, RowsInv, TypeOK, Target
<1>2. TypeOK'
  <2>1. disk' \in [Path -> Content]
    BY DEF TypeOK, Content
  <2>2. faults' \in Nat
    BY DEF TypeOK
  <2>3. QED
    BY <2>1, <2>2 DEF TypeOK
<1>3. /\ disk'[Target(a)] = Damaged
      /\ \A p \in Path \ {Target(a)} : disk'[p] = disk[p]
  BY <1>1 DEF TypeOK
<1>4. FilesInv' /\ RowsInv' /\ ExposedInv'
  BY <1>1, <1>3 DEF FilesInv, RowsInv, ExposedInv, Target
<1>5. OwnerInv' /\ SafeInv' /\ OpInv'
  BY <1>1, <1>3 DEF OwnerInv, SafeInv, OpInv, Target, Current, RecordOf
<1>6. PreparedOutputExists' /\ ExposedOwnsPath'
  BY <1>1, <1>3 DEF PreparedOutputExists, ExposedOwnsPath, Target, Current, RecordOf,
                    Recoverable
<1>7. QED
  BY <1>2, <1>4, <1>5, <1>6

-----------------------------------------------------------------------------
(* Every step keeps the invariant.                                         *)
LEMMA NextJournal == JournalInv /\ [Next]_vars => JournalInv'
<1> SUFFICES ASSUME JournalInv, [Next]_vars PROVE JournalInv'
  OBVIOUS
<1>1. CASE \E a \in Attempt : Prepare(a)
  BY <1>1, ReserveKeeps, CommitPreparedKeeps, AbandonPreparedKeeps DEF Prepare
<1>2. CASE \E a \in Attempt : BeginStep(a)
  BY <1>2, RejectOwnedKeeps, RecoverKeeps, DisplaceKeeps, FinalizeKeeps, RestoreKeeps,
     EmptyWorkspaceKeeps DEF BeginStep
<1>3. CASE \E a \in Attempt : EndStep(a)
  BY <1>3, PlaceKeeps, CommitExposedKeeps, CommitFailedKeeps, SweepKeeps,
     CommitCleanedKeeps DEF EndStep
<1>4. CASE \E a \in Attempt : PlaceFails(a) \/ Damage(a)
  BY <1>4, PlaceFailsKeeps, DamageKeeps
<1>5. CASE \E r \in Record : Withdraw(r) \/ UnlinkWithdrawn(r)
  BY <1>5, WithdrawKeeps, UnlinkWithdrawnKeeps
<1>6. CASE Crash
  BY <1>6, CrashKeeps
<1>7. CASE UNCHANGED vars
  <2>1. TypeOK' /\ FilesInv' /\ RowsInv' /\ ExposedInv'
    BY <1>7 DEF JournalInv, vars, TypeOK, FilesInv, RowsInv, ExposedInv, Target
  <2>2. OwnerInv' /\ SafeInv' /\ OpInv'
    BY <1>7 DEF JournalInv, vars, OwnerInv, SafeInv, OpInv, Takes, Target, Current, RecordOf
  <2>3. PreparedOutputExists' /\ ExposedOwnsPath'
    BY <1>7 DEF JournalInv, vars, PreparedOutputExists, ExposedOwnsPath, Target, Current,
                RecordOf, Recoverable
  <2>4. QED
    BY <2>1, <2>2, <2>3 DEF JournalInv
<1>8. QED
  BY <1>1, <1>2, <1>3, <1>4, <1>5, <1>6, <1>7 DEF Next

(* The journal's inductive invariant: attempts_for_reconciliation and its  *)
(* steps may run, crash and be retried in any order.                       *)
THEOREM JournalInvariant == Spec => []JournalInv
  BY InitJournal, NextJournal, PTL DEF Spec

(* Whatever is interleaved with it, no publication that the library calls  *)
(* current is lost: its file is at its path, or in the workspace of an     *)
(* attempt on that path which recovery has still to decide.                *)
THEOREM PublishedSafe == Spec => []PublishedContentSafe
<1>1. JournalInv => PublishedContentSafe
  BY DEF JournalInv, SafeInv, FilesInv, RowsInv, PublishedContentSafe, Committed, Journalled
<1>2. QED
  BY <1>1, JournalInvariant, PTL

(* No peer and no cleanup takes away the output of a prepared attempt, so  *)
(* expose_attempt never finds its workspace empty.                         *)
THEOREM PreparedKept == Spec => []PreparedOutputExists
<1>1. JournalInv => PreparedOutputExists
  BY DEF JournalInv
<1>2. QED
  BY <1>1, JournalInvariant, PTL

(* An exposed attempt is alone on its destination: finalize_attempt cannot *)
(* violate the unique index on the paths of current publications.          *)
THEOREM ExposedAlone == Spec => []ExposedOwnsPath
<1>1. JournalInv => ExposedOwnsPath
  BY DEF JournalInv
<1>2. QED
  BY <1>1, JournalInvariant, PTL

(* Every value stays within its type.                                      *)
THEOREM JournalTyped == Spec => []TypeOK
<1>1. JournalInv => TypeOK
  BY DEF JournalInv
<1>2. QED
  BY <1>1, JournalInvariant, PTL

-----------------------------------------------------------------------------
(* What was superseded.                                                    *)

(* A superseded file that is still there, or may be put back, is left to a *)
(* finalized attempt of its record; a cleanup that is about to close that  *)
(* attempt has the file on its list, and nobody else can put it back.      *)
PutBack(s) == \E b \in Attempt : backup[b] = s /\ journal[b] \in Journalled
Removes(a, s) ==
    /\ RecordOf(a) = RecordOf(s) /\ journal[a] = "finalized" /\ ~cleaned[a]
    /\ op.at = "emptied" /\ op.on = a /\ op.complete => s \in op.doomed /\ ~PutBack(s)
SupersededInv ==
    \A s \in Attempt : version[s] = "superseded" /\ (disk[Target(s)] = s \/ PutBack(s)) =>
        \E a \in Attempt : Removes(a, s)

(* Most steps neither close an attempt nor bring a superseded file back.   *)
LEMMA RemovesStays ==
    ASSUME JournalInv, SupersededInv,
           \A s \in Attempt : version'[s] = "superseded" =>
             /\ version[s] = "superseded" /\ intent'[s] = intent[s]
             /\ disk'[Target(s)] = s \/ PutBack(s)' => disk[Target(s)] = s \/ PutBack(s),
           \A a \in Attempt : journal[a] = "finalized" /\ ~cleaned[a] =>
             journal'[a] = "finalized" /\ ~cleaned'[a] /\ intent'[a] = intent[a],
           \/ op'.at # "emptied"
           \/ /\ op' = op
              /\ \A s \in Attempt : PutBack(s)' => PutBack(s)
    PROVE  SupersededInv'
BY DEF SupersededInv, Removes, Target, RecordOf

(* Preparation brings no superseded file back.                             *)
LEMMA PrepareRemoves ==
    ASSUME JournalInv, SupersededInv, NEW a \in Attempt, Prepare(a)
    PROVE  SupersededInv'
<1> USE NoAttempt
<1>1. /\ \A b \in Attempt \ {a} : intent'[b] = intent[b] /\ journal'[b] = journal[b]
                               /\ cleaned'[b] = cleaned[b]
      /\ journal[a] \in {"none", "preparing"} /\ version[a] = "none" /\ backup[a] = NoFile
      /\ UNCHANGED <<version, disk, backup, op>>
  BY DEF Prepare, Reserve, CommitPrepared, AbandonPrepared, JournalInv, TypeOK, RowsInv, FilesInv
<1>2. \A s \in Attempt : PutBack(s)' => PutBack(s)
  BY <1>1 DEF PutBack
<1>3. QED
  BY <1>1, <1>2, RemovesStays

(* The steps that change the state of an attempt and no file.              *)
LEMMA TurnRemoves ==
    ASSUME JournalInv, SupersededInv, NEW a \in Attempt,
           RejectOwned(a) \/ Recover(a) \/ CommitExposed(a) \/ CommitFailed(a)
    PROVE  SupersededInv'
<1> USE NoAttempt
<1>1. /\ \A b \in Attempt \ {a} : journal'[b] = journal[b]
      /\ journal[a] \in Journalled
      /\ UNCHANGED <<intent, cleaned, version, disk, backup>>
      /\ op'.at = "free"
  BY DEF RejectOwned, Recover, CommitExposed, CommitFailed, Turn, MayStep, Free,
         JournalInv, TypeOK, OpInv, Takes, Journalled
<1>2. \A s \in Attempt : PutBack(s)' => PutBack(s)
  BY <1>1 DEF PutBack
<1>3. QED
  BY <1>1, <1>2, RemovesStays DEF Target, Journalled

(* The steps that move files.  A superseded file comes back only from the  *)
(* workspace of a pending attempt.                                         *)
LEMMA MoveRemoves ==
    ASSUME JournalInv, SupersededInv, NEW a \in Attempt,
           Displace(a) \/ Place(a) \/ PlaceFails(a) \/ Restore(a)
    PROVE  SupersededInv'
<1> USE NoAttempt DEF database
<1>1. /\ UNCHANGED <<intent, cleaned, version, journal>> /\ journal[a] \in Journalled
      /\ op'.at # "emptied" /\ version[a] = "none"
  <2>1. UNCHANGED <<intent, cleaned, version, journal>>
    BY DEF Displace, Place, PlaceFails, Restore
  <2>2. journal[a] \in Journalled
    BY DEF Displace, Place, PlaceFails, Restore, Turn, JournalInv, OpInv, Takes, Journalled
  <2>3. op'.at # "emptied"
    <3>1. CASE Place(a)
      BY <3>1 DEF Place, JournalInv, TypeOK
    <3>2. CASE Displace(a)
      BY <3>2 DEF Displace, Free
    <3>3. CASE PlaceFails(a)
      BY <3>3 DEF PlaceFails, Free
    <3>4. CASE Restore(a)
      BY <3>4 DEF Restore, Free
    <3>5. QED
      BY <3>1, <3>2, <3>3, <3>4
  <2>4. version[a] = "none"
    BY <2>2 DEF JournalInv, RowsInv, Journalled
  <2>5. QED
    BY <2>1, <2>2, <2>3, <2>4
<1>2. \A s \in Attempt : Target(s) \in Path
  BY JournalAssumption DEF JournalInv, TypeOK, Target
<1>3. \A s \in Attempt : version[s] = "superseded" /\ disk'[Target(s)] = s =>
        disk[Target(s)] = s \/ backup[a] = s
  BY <1>1, <1>2 DEF Displace, Place, PlaceFails, Restore, JournalInv, TypeOK
<1>4. \A s \in Attempt : PutBack(s)' => disk[Target(s)] = s \/ PutBack(s)
  <2>1. \A s \in Attempt : backup'[a] = s => disk[Target(a)] = s \/ backup[a] = s
    BY DEF Displace, Place, PlaceFails, Restore, JournalInv, TypeOK
  <2>2. \A b \in Attempt \ {a} : backup'[b] = backup[b]
    BY DEF Displace, Place, PlaceFails, Restore, JournalInv, TypeOK
  <2>3. \A s \in Attempt : disk[Target(a)] = s => Target(s) = Target(a)
    BY <1>2 DEF JournalInv, FilesInv
  <2>4. QED
    BY <1>1, <2>1, <2>2, <2>3 DEF PutBack
<1>5. QED
  BY <1>1, <1>3, <1>4, RemovesStays DEF Target, PutBack

(* Finalization leaves what it supersedes to its own cleanup.              *)
LEMMA FinalizeRemoves ==
    ASSUME JournalInv, SupersededInv, NEW a \in Attempt, Finalize(a)
    PROVE  SupersededInv'
<1> USE NoAttempt DEF Finalize, MayStep
<1>1. /\ \A b \in Attempt \ {a} : journal'[b] = journal[b]
      /\ journal[a] = "exposed" /\ journal'[a] = "finalized" /\ ~cleaned[a]
      /\ UNCHANGED <<intent, cleaned, disk, backup, op>> /\ op.at = "free"
      /\ \A b \in Attempt : version'[b] = "superseded" =>
           version[b] = "superseded" \/ RecordOf(b) = RecordOf(a)
  BY DEF JournalInv, TypeOK, RowsInv
<1>2. Removes(a, a)'
  BY <1>1 DEF Removes, RecordOf
<1>3. \A s \in Attempt : PutBack(s)' => PutBack(s)
  BY <1>1 DEF PutBack, Journalled
<1>4. SUFFICES ASSUME NEW s \in Attempt, version'[s] = "superseded",
                      disk'[Target(s)'] = s \/ PutBack(s)'
               PROVE  \E b \in Attempt : Removes(b, s)'
  BY DEF SupersededInv
<1>5. CASE version[s] = "superseded"
  <2>1. PICK b \in Attempt : Removes(b, s)
    BY <1>1, <1>3, <1>4, <1>5 DEF SupersededInv, Target
  <2>2. Removes(b, s)'
    BY <1>1, <2>1 DEF Removes, RecordOf
  <2>3. QED
    BY <2>2
<1>6. CASE RecordOf(s) = RecordOf(a)
  BY <1>1, <1>2, <1>6 DEF Removes, RecordOf
<1>7. QED
  BY <1>1, <1>4, <1>5, <1>6

(* A cleanup spares a superseded file only for a pending attempt, and then *)
(* it does not close its own; a current path holds another file.           *)
LEMMA EmptyWorkspaceRemoves ==
    ASSUME JournalInv, SupersededInv, NEW a \in Attempt, EmptyWorkspace(a)
    PROVE  SupersededInv'
<1> USE NoAttempt DEF database
<1>1. /\ UNCHANGED <<intent, cleaned, version, journal, disk>>
      /\ journal[a] \in {"finalized", "failed"} /\ op.at = "free"
      /\ \A b \in Attempt : backup'[b] = backup[b] \/ backup'[b] = NoFile
      /\ op'.on = a
  BY DEF EmptyWorkspace, MayStep, JournalInv, TypeOK
<1>2. \A s \in Attempt : PutBack(s)' => PutBack(s)
  BY <1>1 DEF PutBack
<1>3. SUFFICES ASSUME NEW s \in Attempt, version[s] = "superseded",
                      disk[Target(s)] = s \/ PutBack(s)
               PROVE  \E b \in Attempt : Removes(b, s)'
  BY <1>1, <1>2 DEF SupersededInv, Target
<1>4. PICK b \in Attempt : Removes(b, s)
  BY <1>3 DEF SupersededInv
<1>5. CASE b # a
  <2>1. Removes(b, s)'
    BY <1>1, <1>4, <1>5 DEF Removes, RecordOf
  <2>2. QED
    BY <2>1
<1>6. CASE b = a
  <2>1. s \in Superseded(RecordOf(a)) /\ journal[a] = "finalized"
    BY <1>3, <1>4, <1>6 DEF Removes, Superseded
  <2>2. /\ op'.complete => Target(s) \notin Protected(a)
        /\ Target(s) \notin Protected(a) \union CurrentPaths => s \in op'.doomed
    BY <2>1 DEF EmptyWorkspace
  <2>3. ASSUME Target(s) \notin Protected(a) PROVE s \in op'.doomed /\ ~PutBack(s)
    <3>1. \A c \in Attempt : journal[c] \in Journalled => Target(c) # Target(s)
      BY <2>1, <2>3 DEF Protected, Pending, JournalInv, RowsInv, Journalled
    <3>2. ~PutBack(s)
      BY <3>1 DEF PutBack, JournalInv, FilesInv
    <3>3. \A c \in Attempt : Current(c) => Target(c) # Target(s)
      BY <1>3, <3>1, <3>2 DEF JournalInv, SafeInv, FilesInv, Current
    <3>4. QED
      BY <2>2, <2>3, <3>2, <3>3 DEF CurrentPaths
  <2>4. Removes(a, s)'
    BY <1>1, <1>2, <1>4, <1>6, <2>2, <2>3 DEF Removes, RecordOf
  <2>5. QED
    BY <2>4
<1>7. QED
  BY <1>5, <1>6

(* What was on the list is gone.                                           *)
LEMMA SweepRemoves ==
    ASSUME JournalInv, SupersededInv, NEW b \in Attempt, Sweep(b)
    PROVE  SupersededInv'
<1> USE NoAttempt DEF database
<1>1. /\ UNCHANGED <<intent, cleaned, version, journal, backup>>
      /\ op'.at = op.at /\ op'.on = op.on /\ op'.complete = op.complete
      /\ op'.doomed = op.doomed \ {b}
      /\ \A p \in Path : disk'[p] # b => disk'[p] = disk[p] \/ disk'[p] = NoFile
      /\ disk'[Target(b)] # b /\ op.at = "emptied"
      /\ \A s \in Attempt : Target(s) \in Path
  BY JournalAssumption DEF Sweep, JournalInv, TypeOK, Target
<1>2. \A s \in Attempt : PutBack(s)' <=> PutBack(s)
  BY <1>1 DEF PutBack
<1>3. SUFFICES ASSUME NEW s \in Attempt, version[s] = "superseded",
                      disk'[Target(s)] = s \/ PutBack(s)
               PROVE  \E a \in Attempt : Removes(a, s)'
  BY <1>1, <1>2 DEF SupersededInv, Target
<1>4. disk[Target(s)] = s \/ PutBack(s)
  BY <1>1, <1>3
<1>5. PICK a \in Attempt : Removes(a, s)
  BY <1>3, <1>4 DEF SupersededInv
<1>6. Removes(a, s)'
  BY <1>1, <1>2, <1>3, <1>5 DEF Removes, RecordOf
<1>7. QED
  BY <1>6

(* A cleanup closes its attempt when nothing is left for it.               *)
LEMMA CommitCleanedRemoves ==
    ASSUME JournalInv, SupersededInv, NEW a \in Attempt, CommitCleaned(a)
    PROVE  SupersededInv'
<1>1. /\ UNCHANGED <<intent, version, journal, disk, backup>>
      /\ op.at = "emptied" /\ op.on = a /\ op.doomed = {} /\ op'.at = "free"
      /\ \A b \in Attempt \ {a} : cleaned'[b] = cleaned[b]
      /\ cleaned'[a] = op.complete
  BY DEF CommitCleaned, JournalInv, TypeOK, Free
<1>2. \A s \in Attempt : PutBack(s)' => PutBack(s)
  BY <1>1 DEF PutBack
<1>3. SUFFICES ASSUME NEW s \in Attempt, version[s] = "superseded",
                      disk[Target(s)] = s \/ PutBack(s)
               PROVE  \E b \in Attempt : Removes(b, s)'
  BY <1>1, <1>2 DEF SupersededInv, Target
<1>4. PICK b \in Attempt : Removes(b, s)
  BY <1>3 DEF SupersededInv
<1>5. b = a => ~op.complete
  BY <1>1, <1>4 DEF Removes
<1>6. Removes(b, s)'
  BY <1>1, <1>4, <1>5 DEF Removes, RecordOf
<1>7. QED
  BY <1>6

(* Removal requests and faults bring no superseded file back.              *)
LEMMA OtherRemoves ==
    ASSUME JournalInv, SupersededInv,
           \/ \E a \in Attempt : Damage(a)
           \/ \E r \in Record : Withdraw(r) \/ UnlinkWithdrawn(r)
           \/ Crash \/ UNCHANGED vars
    PROVE  SupersededInv'
<1> USE NoAttempt DEF database
<1>1. UNCHANGED <<intent, cleaned, journal, backup>>
  BY DEF Damage, Withdraw, UnlinkWithdrawn, Crash, vars
<1>2. \A s \in Attempt : version'[s] = "superseded" => version[s] = "superseded"
  BY DEF Damage, Withdraw, UnlinkWithdrawn, Crash, vars, JournalInv, TypeOK
<1>3. \A p \in Path : disk'[p] \in {disk[p], NoFile, Damaged}
  BY DEF Damage, Withdraw, UnlinkWithdrawn, Crash, vars, JournalInv, TypeOK
<1>4. op' = op \/ op'.at = "free"
  BY DEF Damage, Withdraw, UnlinkWithdrawn, Crash, vars, Free
<1>5. \A s \in Attempt : Target(s) \in Path
  BY JournalAssumption DEF JournalInv, TypeOK, Target
<1>6. \A s \in Attempt : PutBack(s)' => PutBack(s)
  BY <1>1 DEF PutBack
<1>7. QED
  BY <1>1, <1>2, <1>3, <1>4, <1>5, <1>6, RemovesStays DEF Target

(* Once the attempts of a record are cleaned, nothing that it superseded   *)
(* is on disk, whatever was restored, retried or removed in between.       *)
THEOREM SupersededGone == Spec => []SupersededRemoved
<1>1. Init => SupersededInv
  BY DEF Init, SupersededInv
<1>2. JournalInv /\ SupersededInv /\ [Next]_vars => SupersededInv'
  BY PrepareRemoves, TurnRemoves, MoveRemoves, FinalizeRemoves, EmptyWorkspaceRemoves,
     SweepRemoves, CommitCleanedRemoves, OtherRemoves
     DEF Next, BeginStep, EndStep
<1>3. SupersededInv => SupersededRemoved
  BY DEF SupersededInv, SupersededRemoved, Removes, Committed
<1>4. QED
  BY <1>1, <1>2, <1>3, JournalInvariant, PTL DEF Spec
=============================================================================
