--------------------------- MODULE JobQueueProofs ---------------------------
(* Proofs about JobQueue, for any sessions, keys and bounds: its rows and  *)
(* transactions, the attempts it records, and that it implements JobLedger.*)
EXTENDS JobQueue, SequenceTheorems, TLAPS

(* Row numbers are naturals other than NoJob.                              *)
LEMMA JobIsNat == NoJob \notin Job /\ Job \subseteq Nat
BY BoundsAssumption DEF NoJob, Job

(* The values a transaction record may be given.                           *)
LEMMA TxnUpdates ==
    ASSUME NEW t \in Txn
    PROVE  /\ \A a \in {"idle", "work", "write", "clash", "failed"} :
                 [t EXCEPT !.at = a] \in Txn
           /\ \A o \in {"running", "superseded", "quarantined"} :
                 [t EXCEPT !.outcome = o] \in Txn
           /\ \A x \in {"none", "rev", "superseded", "queued"} :
                 [t EXCEPT !.set = x] \in Txn
           /\ \A k \in Key \union {NoKey} : [t EXCEPT !.req = k] \in Txn
BY DEF Txn

(* A session without a transaction has the transaction type.               *)
LEMMA IdleIsTxn == IdleTxn \in Txn
BY DEF IdleTxn, Txn, NoRev

(* Closing a stale attempt leaves a sequence of attempt states.            *)
LEMMA PriorType ==
    ASSUME TypeOK, NEW j \in Job
    PROVE  Prior(j) \in Seq(AttemptState)
<1> DEFINE a == attempts[j]
<1>1. a \in Seq(AttemptState)
  BY DEF TypeOK
<1>2. "interrupted" \in AttemptState
  BY DEF AttemptState
<1>3. CASE a = <<>>
  <2>1. [a EXCEPT ![Len(a)] = "interrupted"] = a
    BY <1>3
  <2>2. QED
    BY <1>1, <2>1 DEF Prior
<1>4. CASE a # <<>>
  <2>1. Len(a) \in 1 .. Len(a)
    BY <1>1, <1>4, EmptySeq, LenProperties
  <2>2. [a EXCEPT ![Len(a)] = "interrupted"] \in Seq(AttemptState)
    BY <1>1, <1>2, <2>1, ExceptSeq
  <2>3. QED
    BY <1>1, <2>2 DEF Prior
<1>5. QED
  BY <1>3, <1>4

(* The commit of a claim keeps the types.                                  *)
LEMMA CommitType ==
    ASSUME TypeOK, NEW w \in Worker, txn[w].job # NoJob,
           NEW own \in Active \union Settled, NEW mark \in AttemptState,
           CommitClaim(w, own, mark)
    PROVE  TypeOK'
<1> DEFINE j == txn[w].job
<1>1. w \in Session /\ txn[w] \in Txn /\ j \in Job
  BY DEF TypeOK, Txn, Session
<1>2. state' \in [Job -> Active \union Settled \union {"absent"}]
  BY <1>1 DEF CommitClaim, RowsAfter, TypeOK, Active, Settled
<1>3. attempts' \in [Job -> Seq(AttemptState)]
  <2>1. Prior(j) \in Seq(AttemptState)
    BY <1>1, PriorType
  <2>2. Append(Prior(j), mark) \in Seq(AttemptState)
    BY <2>1, AppendProperties
  <2>3. QED
    BY <1>1, <2>2 DEF CommitClaim, TypeOK
<1>4. rev' \in [Job -> Nat]
  BY <1>1 DEF CommitClaim, RevAfter, TypeOK, Txn
<1>5. ripe' \in [Job -> BOOLEAN]
  BY <1>1 DEF CommitClaim, RipeAfter, TypeOK
<1>6. txn' \in [Session -> Txn]
  BY <1>1, IdleIsTxn DEF CommitClaim, TypeOK
<1>7. QED
  BY <1>2, <1>3, <1>4, <1>5, <1>6 DEF CommitClaim, TypeOK

(* A step that changes one transaction keeps the types.                    *)
LEMMA StepType ==
    ASSUME TypeOK, NEW s \in Session, NEW t \in Txn, Step(s, t)
    PROVE  TypeOK'
BY DEF Step, TypeOK

(* A rollback keeps the types.                                             *)
LEMMA UndoType ==
    ASSUME TypeOK, NEW s \in Session, NEW t \in Txn, Undo(s, t),
           crashes' \in Nat
    PROVE  TypeOK'
BY DEF Undo, TypeOK, NoRev

(* What is left of a claim after its savepoint was rolled back.            *)
LEMMA FailedIsTxn ==
    ASSUME NEW j \in Job \union {NoJob}
    PROVE  /\ [IdleTxn EXCEPT !.at = "failed", !.job = j] \in Txn
           /\ \A o \in {"running", "quarantined"} :
                [IdleTxn EXCEPT !.at = "failed", !.job = j, !.outcome = o] \in Txn
BY DEF IdleTxn, Txn, NoRev

(* An exception keeps the types.                                           *)
LEMMA RaiseType ==
    ASSUME TypeOK, NEW s \in Session, Raise(s)
    PROVE  TypeOK'
<1>1. txn[s].job \in Job \union {NoJob}
  BY DEF TypeOK, Txn
<1>2. crashes' \in Nat
  BY DEF Raise, TypeOK
<1>3. CASE s \in Worker
  BY <1>1, <1>2, <1>3, FailedIsTxn, UndoType DEF Raise
<1>4. CASE s \notin Worker
  BY <1>2, <1>4, IdleIsTxn, UndoType DEF Raise
<1>5. QED
  BY <1>3, <1>4

(* The SELECT an enqueue begins with keeps the types.                      *)
LEMMA LookupType ==
    ASSUME TypeOK, NEW s \in Session, NEW k \in Key, NEW r \in RevOf[k],
           Lookup(s, k, r)
    PROVE  TypeOK'
<1>1. txn[s] \in Txn /\ r \in Nat
  BY KindAssumption DEF TypeOK
<1>2. PICK j \in Job \union {NoJob} :
        \/ Step(s, [txn[s] EXCEPT !.at = "work", !.req = k])
        \/ Step(s, [txn[s] EXCEPT !.at = "write", !.req = k, !.arg = r, !.seen = j])
  BY DEF Lookup
<1>3. [txn[s] EXCEPT !.at = "work", !.req = k] \in Txn
  BY <1>1 DEF Txn
<1>4. [txn[s] EXCEPT !.at = "write", !.req = k, !.arg = r, !.seen = j] \in Txn
  BY <1>1 DEF Txn
<1>5. QED
  BY <1>2, <1>3, <1>4, StepType

(* The first state has the types.                                          *)
LEMMA TypeInit == Init => TypeOK
<1> SUFFICES ASSUME Init PROVE TypeOK
  OBVIOUS
<1>1. \A q \in {<<>>, <<"running">>, <<"retry_wait", "running">>} : q \in Seq(AttemptState)
  <2>1. <<>> \in Seq(AttemptState)
    BY EmptySeq
  <2>2. <<"running">> \in Seq(AttemptState)
    BY DEF AttemptState
  <2>3. <<"retry_wait", "running">> \in Seq(AttemptState)
    BY DEF AttemptState
  <2>4. QED
    BY <2>1, <2>2, <2>3
<1>2. attempts \in [Job -> Seq(AttemptState)]
  BY <1>1 DEF Init
<1>3. QED
  BY <1>2, IdleIsTxn, KindAssumption DEF Init, TypeOK, Active, NoRev

(* Every action keeps the types.                                           *)
LEMMA TypeStep == TypeOK /\ [Next]_vars => TypeOK'
<1> SUFFICES ASSUME TypeOK, [Next]_vars PROVE TypeOK'
  OBVIOUS
<1> USE DEF Session
<1>1. ASSUME NEW w \in Worker, Claim(w) PROVE TypeOK'
  <2>1. PICK j \in Job : txn' = [txn EXCEPT ![w] =
          [IdleTxn EXCEPT !.at = IF Spent(j) THEN "failed" ELSE "work", !.job = j]]
    BY <1>1 DEF Claim
  <2>2. [IdleTxn EXCEPT !.at = IF Spent(j) THEN "failed" ELSE "work", !.job = j] \in Txn
    BY DEF IdleTxn, Txn, NoRev
  <2>3. QED
    BY <1>1, <2>1, <2>2 DEF Claim, TypeOK
<1>2. ASSUME NEW w \in Worker, Finish(w) PROVE TypeOK'
  <2>1. txn[w].outcome \in {"running", "superseded", "quarantined"}
    BY DEF TypeOK, Txn
  <2>2. QED
    BY <1>2, <2>1, CommitType DEF Finish, Active, Settled, AttemptState
<1>3. ASSUME NEW w \in Worker, Retry(w) PROVE TypeOK'
  BY <1>3, CommitType DEF Retry, Active, Settled, AttemptState
<1>4. ASSUME NEW w \in Worker, Quarantine(w) PROVE TypeOK'
  BY <1>4, CommitType DEF Quarantine, Active, Settled, AttemptState
<1>5. ASSUME NEW w \in Worker, SettleClaim(w) PROVE TypeOK'
  <2>1. txn[w] \in Txn
    BY DEF TypeOK
  <2>2. PICK o \in {"superseded", "quarantined"} : Step(w, [txn[w] EXCEPT !.outcome = o])
    BY <1>5 DEF SettleClaim
  <2>3. QED
    BY <2>1, <2>2, TxnUpdates, StepType
<1>6. ASSUME NEW w \in Worker, Fail(w) PROVE TypeOK'
  <2>1. txn[w].job \in Job \union {NoJob} /\ crashes' \in Nat
    BY <1>6 DEF TypeOK, Txn, Fail
  <2>2. PICK o \in {"running", "quarantined"} :
          Undo(w, [IdleTxn EXCEPT !.at = "failed", !.job = txn[w].job, !.outcome = o])
    BY <1>6 DEF Fail
  <2>3. QED
    BY <2>1, <2>2, FailedIsTxn, UndoType
<1>7. ASSUME NEW w \in Worker, FollowUp(w) PROVE TypeOK'
  <2>1. PICK k \in Key : \E r \in RevOf[k] : Lookup(w, k, r)
    BY <1>7 DEF FollowUp
  <2>2. QED
    BY <2>1, LookupType
<1>8. ASSUME NEW c \in Client, Request(c) PROVE TypeOK'
  BY <1>8, LookupType DEF Request
<1>9. ASSUME NEW s \in Session, Revise(s) PROVE TypeOK'
  <2>0. txn[s] \in Txn
    BY DEF TypeOK
  <2>1. [txn[s] EXCEPT !.at = "work", !.set = "rev"] \in Txn
    BY <2>0 DEF Txn
  <2>2. QED
    BY <1>9, <2>1, StepType DEF Revise
<1>10. ASSUME NEW s \in Session, Supersede(s) PROVE TypeOK'
  <2>0. txn[s] \in Txn
    BY DEF TypeOK
  <2>1. [txn[s] EXCEPT !.set = "superseded"] \in Txn
    BY <2>0 DEF Txn
  <2>2. QED
    BY <1>10, <2>1, StepType DEF Supersede
<1>11. ASSUME NEW s \in Session, Insert(s) PROVE TypeOK'
  <2>1. PICK j \in Job :
          /\ key' = [key EXCEPT ![j] = txn[s].req]
          /\ rev' = [rev EXCEPT ![j] = txn[s].arg]
          /\ txn' = [txn EXCEPT ![s] = [txn[s] EXCEPT !.at = "work", !.new = j,
                                                     !.arg = NoRev]]
    BY <1>11 DEF Insert
  <2>2. txn[s] \in Txn
    BY DEF TypeOK
  <2>3. [txn[s] EXCEPT !.at = "work", !.new = j, !.arg = NoRev] \in Txn
    BY <2>2 DEF Txn, NoRev
  <2>4. QED
    BY <1>11, <2>1, <2>2, <2>3 DEF Insert, TypeOK, Txn
<1>12. ASSUME NEW s \in Session, Clash(s) PROVE TypeOK'
  <2>0. txn[s] \in Txn
    BY DEF TypeOK
  <2>1. [txn[s] EXCEPT !.at = "clash"] \in Txn
    BY <2>0 DEF Txn
  <2>2. QED
    BY <1>12, <2>1, StepType, RaiseType DEF Clash
<1>13. ASSUME NEW s \in Session, Reread(s) PROVE TypeOK'
  <2>0. txn[s] \in Txn
    BY DEF TypeOK
  <2>1. [txn[s] EXCEPT !.at = "work", !.arg = NoRev] \in Txn
    BY <2>0 DEF Txn, NoRev
  <2>2. QED
    BY <1>13, <2>1, StepType, RaiseType DEF Reread
<1>14. ASSUME NEW c \in Client, Requeue(c) PROVE TypeOK'
  <2>1. PICK j \in Job : Step(c, [IdleTxn EXCEPT !.at = "work", !.seen = j, !.set = "queued"])
    BY <1>14 DEF Requeue
  <2>2. [IdleTxn EXCEPT !.at = "work", !.seen = j, !.set = "queued"] \in Txn
    BY DEF IdleTxn, Txn, NoRev
  <2>3. QED
    BY <2>1, <2>2, StepType
<1>15. ASSUME NEW c \in Client, CommitClient(c) PROVE TypeOK'
  <2>1. state' \in [Job -> Active \union Settled \union {"absent"}]
    BY <1>15 DEF CommitClient, RowsAfter, TypeOK, Active, Settled
  <2>2. rev' \in [Job -> Nat] /\ ripe' \in [Job -> BOOLEAN]
    BY <1>15 DEF CommitClient, RevAfter, RipeAfter, TypeOK, Txn
  <2>3. QED
    BY <1>15, <2>1, <2>2, IdleIsTxn DEF CommitClient, TypeOK
<1>16. ASSUME NEW j \in Job, Ripen(j) PROVE TypeOK'
  BY <1>16 DEF Ripen, TypeOK
<1>17. ASSUME NEW s \in Session, Crash(s) PROVE TypeOK'
  <2>1. crashes' \in Nat
    BY <1>17 DEF Crash, TypeOK
  <2>2. QED
    BY <1>17, <2>1, IdleIsTxn, UndoType DEF Crash
<1>18. CASE BeginMigration \/ EndMigration
  BY <1>18 DEF BeginMigration, EndMigration, TypeOK
<1>19. CASE UNCHANGED vars
  BY <1>19 DEF vars, TypeOK
<1>20. QED
  BY <1>1, <1>2, <1>3, <1>4, <1>5, <1>6, <1>7, <1>8, <1>9, <1>10, <1>11, <1>12,
     <1>13, <1>14, <1>15, <1>16, <1>17, <1>18, <1>19
     DEF Next, WorkerStep, EnqueueStep

(* Committed rows, transactions and attempts keep their types.             *)
THEOREM TypeCorrect == Spec => []TypeOK
BY TypeInit, TypeStep, PTL DEF Spec

-----------------------------------------------------------------------------
(* The inductive invariant.  What it says of one session, for a record t   *)
(* the session has or is about to have.                                    *)
Good(s, t) ==
    /\ t.job # NoJob => /\ s \in Worker /\ state[t.job] \in Active
                        /\ t.req \in Guarded => key[t.job] # t.req
    /\ t.at = "idle" => t.job = NoJob
    /\ t.at \in {"idle", "failed"} \/ (t.job # NoJob /\ t.req = NoKey) =>
          t.new = NoJob /\ t.seen = NoJob /\ t.set = "none"
    /\ t.at \in {"write", "clash"} =>
          t.req \in Key /\ t.new = NoJob /\ t.set \in {"none", "superseded"}
    /\ t.new # NoJob =>
          t.req \in Key /\ key[t.new] = t.req /\ state[t.new] = "absent"
    /\ t.set # "none" => t.seen # NoJob
    /\ t.seen # NoJob => state[t.seen] # "absent"
    /\ t.seen # NoJob /\ t.set # "queued" => key[t.seen] = t.req
    /\ t.set = "superseded" => t.req \in Identity

(* The per-session parts of IndInv, put together.                          *)
LEMMA EverySessionGood ==
    IndInv <=> /\ TypeOK /\ ExclusiveRows /\ IndexInv
               /\ \A s \in Session : Good(s, txn[s])
               /\ \A j \in Job : key[j] = NoKey => state[j] = "absent"
               /\ \A s, t \in Session :
                    txn[s].new # NoJob /\ txn[s].new = txn[t].new => s = t
BY DEF IndInv, ClaimInv, PhaseInv, RowInv, SeenInv, Good

(* A step of s that touches no committed row keeps the invariant when it   *)
(* takes no lock another session has, adds no index entry but a free one,  *)
(* and does not forget a replacement it has begun.                         *)
LEMMA QuietStep ==
    ASSUME IndInv, NEW s \in Session, NEW t \in Txn, Step(s, t),
           Good(s, t), t.new = txn[s].new,
           \A j \in Job : t.job = j \/ (t.seen = j /\ t.set # "none")
                           => ~Locked(s, j),
           t.set = "queued" /\ key[t.seen] \in Guarded =>
             \A i \in Job : Indexed(i) /\ key[i] = key[t.seen] => i = t.seen,
           txn[s].set = "superseded" /\ t.new # NoJob =>
             t.set = "superseded" /\ t.seen = txn[s].seen
    PROVE  IndInv'
<1>1. TypeOK /\ TypeOK'
  BY StepType DEF IndInv
<1>2. txn \in [Session -> Txn] /\ txn'[s] = t
      /\ \A u \in Session \ {s} : txn'[u] = txn[u]
  BY <1>1 DEF Step, TypeOK
<1>3. state' = state /\ key' = key
  BY DEF Step
<1>4. \A u \in Session : Good(u, txn[u])
  BY EverySessionGood
<1>5. \A u \in Session : Good(u, txn[u])'
  <2>1. Good(s, t)'
    BY <1>3 DEF Good
  <2>2. \A u \in Session \ {s} : Good(u, txn'[u])
    BY <1>2, <1>4
  <2>3. QED
    BY <1>2, <1>3, <2>2 DEF Good
<1>6. ExclusiveRows'
  <2> SUFFICES ASSUME NEW u \in Session, NEW v \in Session, NEW j \in Job,
                      Holds(u, j)', Holds(v, j)', u # v
               PROVE  FALSE
    BY DEF ExclusiveRows
  <2>1. \A x \in Session \ {s} : Holds(x, j)' => Holds(x, j)
    BY <1>2 DEF Holds
  <2>2. Holds(s, j)' => ~Locked(s, j)
    BY <1>2 DEF Holds
  <2>3. QED
    BY <2>1, <2>2 DEF Locked, ExclusiveRows, IndInv
<1>7. IndexInv'
  <2> SUFFICES ASSUME NEW i \in Job, NEW j \in Job, i # j,
                      key[i] = key[j], key[i] \in Guarded,
                      Indexed(i)', Indexed(j)'
               PROVE  \E u \in Session : Replaces(u, i, j)' \/ Replaces(u, j, i)'
    BY <1>3 DEF IndexInv
  <2>1. \A x \in Job : Indexed(x)' => Indexed(x) \/ (t.set = "queued" /\ t.seen = x)
    BY <1>2, <1>3 DEF Indexed
  <2>2. Indexed(i) /\ Indexed(j)
    BY <2>1
  <2>3. PICK u \in Session : Replaces(u, i, j) \/ Replaces(u, j, i)
    BY <2>2 DEF IndexInv, IndInv
  <2>4. CASE u = s
    BY <1>2, <2>3, <2>4, JobIsNat DEF Replaces
  <2>5. CASE u # s
    BY <1>2, <2>3, <2>5 DEF Replaces
  <2>6. QED
    BY <2>4, <2>5
<1>8. \A u, v \in Session : txn'[u].new # NoJob /\ txn'[u].new = txn'[v].new => u = v
  BY <1>2 DEF IndInv, RowInv
<1>9. \A j \in Job : key'[j] = NoKey => state'[j] = "absent"
  BY <1>3 DEF IndInv, RowInv
<1>10. QED
  BY <1>1, <1>5, <1>6, <1>7, <1>8, <1>9
     DEF IndInv, ClaimInv, PhaseInv, RowInv, SeenInv, Good

(* Rolling a session back to its claim, or to nothing.                     *)
LEMMA UndoStep ==
    ASSUME IndInv, NEW s \in Session, NEW t \in Txn, Undo(s, t), crashes' \in Nat,
           t.new = NoJob, t.seen = NoJob, t.set = "none", t.req = NoKey,
           \/ t.job = txn[s].job /\ t.at = "failed"
           \/ t.job = NoJob /\ t.at = "idle"
    PROVE  IndInv'
<1>1. TypeOK /\ TypeOK'
  BY UndoType DEF IndInv
<1>2. txn \in [Session -> Txn] /\ txn'[s] = t
      /\ \A u \in Session \ {s} : txn'[u] = txn[u]
  BY <1>1 DEF Undo, TypeOK
<1>3. state' = state
  BY DEF Undo
<1>4. \A j \in Job : key'[j] = IF j = txn[s].new THEN NoKey ELSE key[j]
  BY <1>1, JobIsNat DEF Undo, TypeOK
<1>5. \A u \in Session : Good(u, txn[u])
  BY EverySessionGood
<1>6. \A u, v \in Session : txn[u].new # NoJob /\ txn[u].new = txn[v].new => u = v
  BY EverySessionGood
<1>7. \A u \in Session : txn[u] \in Txn
  BY <1>2
<1>8. \A u \in Session : Good(u, txn[u])'
  <2>1. Good(s, t)'
    BY <1>3, <1>5, KindAssumption DEF Good, Active
  <2>2. ASSUME NEW u \in Session \ {s} PROVE Good(u, txn[u])'
    <3>1. Good(u, txn[u]) /\ Good(s, txn[s]) /\ txn'[u] = txn[u]
      BY <1>2, <1>5
    <3>2. txn[u].job # NoJob => txn[u].job # txn[s].new
      BY <3>1, <1>7 DEF Good, Active
    <3>3. txn[u].seen # NoJob => txn[u].seen # txn[s].new
      BY <3>1 DEF Good
    <3>4. txn[u].new # NoJob => txn[u].new # txn[s].new
      BY <1>6
    <3>5. QED
      BY <1>3, <1>4, <1>7, <3>1, <3>2, <3>3, <3>4 DEF Good, Txn
  <2>3. QED
    BY <1>2, <2>1, <2>2 DEF Good
<1>9. ExclusiveRows'
  BY <1>2, JobIsNat DEF ExclusiveRows, Holds, IndInv
<1>10. IndexInv'
  <2> SUFFICES ASSUME NEW i \in Job, NEW j \in Job, i # j,
                      key'[i] = key'[j], key'[i] \in Guarded,
                      Indexed(i)', Indexed(j)'
               PROVE  \E u \in Session : Replaces(u, i, j)' \/ Replaces(u, j, i)'
    BY DEF IndexInv
  <2>1. \A x \in Job : Indexed(x)' => Indexed(x)
    BY <1>2, <1>3, JobIsNat DEF Indexed
  <2>2. key[i] = key[j] /\ key[i] \in Guarded /\ i # txn[s].new /\ j # txn[s].new
    BY <1>4, KindAssumption
  <2>3. PICK u \in Session : Replaces(u, i, j) \/ Replaces(u, j, i)
    BY <2>1, <2>2 DEF IndexInv, IndInv
  <2>4. u # s
    BY <2>2, <2>3 DEF Replaces
  <2>5. QED
    BY <1>2, <2>3, <2>4 DEF Replaces
<1>11. \A u, v \in Session : txn'[u].new # NoJob /\ txn'[u].new = txn'[v].new => u = v
  BY <1>2, <1>6
<1>12. \A j \in Job : key'[j] = NoKey => state'[j] = "absent"
  BY <1>3, <1>4, <1>5, JobIsNat DEF IndInv, RowInv, Good
<1>13. QED
  BY <1>1, <1>8, <1>9, <1>10, <1>11, <1>12
     DEF IndInv, ClaimInv, PhaseInv, RowInv, SeenInv, Good

(* The commit of a session's rows.                                         *)
LEMMA CommitStep ==
    ASSUME IndInv, TypeOK', NEW s \in Session, NEW own,
           txn[s].job # NoJob => own \in Active \union Settled,
           state' = RowsAfter(s, own), key' = key,
           txn' = [txn EXCEPT ![s] = IdleTxn]
    PROVE  IndInv'
<1>1. TypeOK
  BY DEF IndInv
<1>2. /\ txn'[s] = IdleTxn
      /\ \A u \in Session \ {s} : txn'[u] = txn[u]
      /\ \A u \in Session : txn[u] \in Txn
  BY <1>1 DEF TypeOK
<1>3. \A u \in Session : Good(u, txn[u])
  BY EverySessionGood
<1>4. \A j \in Job :
        /\ state'[j] # state[j] => j = txn[s].new \/ Holds(s, j)
        /\ state[j] # "absent" => state'[j] # "absent"
        /\ state'[j] \in Active => Indexed(j)
  <2> SUFFICES ASSUME NEW j \in Job
               PROVE  /\ state'[j] # state[j] => j = txn[s].new \/ Holds(s, j)
                      /\ state[j] # "absent" => state'[j] # "absent"
                      /\ state'[j] \in Active => Indexed(j)
    OBVIOUS
  <2>1. state'[j] = IF j = txn[s].job THEN own
                    ELSE IF j = txn[s].new THEN "queued"
                    ELSE IF j = txn[s].seen /\ txn[s].set \in {"superseded", "queued"}
                    THEN txn[s].set ELSE state[j]
    BY DEF RowsAfter
  <2>2. CASE j = txn[s].job
    BY <1>3, <2>1, <2>2, JobIsNat DEF Good, Holds, Indexed, Active, Settled
  <2>3. CASE j # txn[s].job
    BY <2>1, <2>3 DEF Holds, Indexed, Active
  <2>4. QED
    BY <2>2, <2>3
<1>5. ASSUME NEW u \in Session \ {s}, NEW j \in Job, Holds(u, j)
      PROVE  state'[j] = state[j]
  <2>1. ~Holds(s, j)
    BY <1>5 DEF ExclusiveRows, IndInv
  <2>2. state[j] # "absent"
    BY <1>3, <1>5, JobIsNat DEF Good, Holds, Active
  <2>3. j # txn[s].new
    BY <1>3, <2>2, JobIsNat DEF Good
  <2>4. QED
    BY <1>4, <2>1, <2>3
<1>6. ASSUME NEW u \in Session \ {s}, txn[u].new # NoJob
      PROVE  state'[txn[u].new] = "absent"
  <2>1. txn[u].new \in Job /\ state[txn[u].new] = "absent" /\ txn[u].new # txn[s].new
    BY <1>2, <1>3, <1>6 DEF Good, Txn, IndInv, RowInv
  <2>2. ~Holds(s, txn[u].new)
    BY <1>2, <1>3, <1>6, <2>1 DEF Good, Holds, Active
  <2>3. QED
    BY <1>4, <2>1, <2>2
<1>7. \A u \in Session : Good(u, txn[u])'
  <2>1. Good(s, IdleTxn)'
    BY DEF Good, IdleTxn
  <2>2. ASSUME NEW u \in Session \ {s} PROVE Good(u, txn[u])'
    <3>1. txn[u].job # NoJob => state'[txn[u].job] = state[txn[u].job]
      BY <1>2, <1>5 DEF Holds, Txn
    <3>2. txn[u].seen # NoJob => state'[txn[u].seen] # "absent"
      BY <1>2, <1>3, <1>4 DEF Good, Txn
    <3>3. QED
      BY <1>2, <1>3, <1>6, <3>1, <3>2 DEF Good
  <2>3. QED
    BY <1>2, <2>1, <2>2 DEF Good
<1>8. ExclusiveRows'
  <2>1. \A j \in Job : ~Holds(s, j)'
    BY <1>2, JobIsNat DEF Holds, IdleTxn
  <2>2. \A u \in Session \ {s} : \A j \in Job : Holds(u, j)' => Holds(u, j)
    BY <1>2 DEF Holds
  <2>3. QED
    BY <2>1, <2>2 DEF ExclusiveRows, IndInv
<1>9. IndexInv'
  <2>1. \A x \in Job : Indexed(x)' => Indexed(x)
    BY <1>2, <1>4, JobIsNat DEF Indexed, IdleTxn
  <2>2. ASSUME NEW i \in Job, NEW j \in Job, i # j, Replaces(s, i, j),
               key[i] \in Guarded
        PROVE  ~Indexed(i)'
    <3>1. /\ txn[s].req \in Identity /\ key[i] = txn[s].req /\ state[i] # "absent"
          /\ Holds(s, i)
      BY <1>3, <2>2, JobIsNat DEF Good, Replaces, Holds
    <3>2. i # txn[s].job /\ i # txn[s].new
      BY <1>3, <2>2, <3>1, JobIsNat, KindAssumption DEF Good, Replaces
    <3>3. state'[i] = "superseded"
      BY <2>2, <3>2 DEF RowsAfter, Replaces
    <3>4. \A v \in Session \ {s} : txn[v].new # i /\ ~Holds(v, i)
      BY <1>3, <3>1, JobIsNat DEF Good, ExclusiveRows, IndInv
    <3>5. QED
      BY <1>2, <3>3, <3>4, JobIsNat DEF Indexed, Holds, IdleTxn, Active
  <2> SUFFICES ASSUME NEW i \in Job, NEW j \in Job, i # j,
                      key[i] = key[j], key[i] \in Guarded,
                      Indexed(i)', Indexed(j)'
               PROVE  \E u \in Session : Replaces(u, i, j)' \/ Replaces(u, j, i)'
    BY DEF IndexInv
  <2>3. PICK u \in Session : Replaces(u, i, j) \/ Replaces(u, j, i)
    BY <2>1 DEF IndexInv, IndInv
  <2>4. u # s
    BY <2>2, <2>3
  <2>5. QED
    BY <1>2, <2>3, <2>4 DEF Replaces
<1>10. \A u, v \in Session : txn'[u].new # NoJob /\ txn'[u].new = txn'[v].new => u = v
  BY <1>2 DEF IndInv, RowInv, IdleTxn
<1>11. \A j \in Job : key'[j] = NoKey => state'[j] = "absent"
  <2> SUFFICES ASSUME NEW j \in Job, key[j] = NoKey PROVE state'[j] = "absent"
    OBVIOUS
  <2>1. state[j] = "absent"
    BY DEF IndInv, RowInv
  <2>2. j # txn[s].new
    BY <1>3, JobIsNat, KindAssumption DEF Good
  <2>3. ~Holds(s, j)
    BY <1>3, <2>1, JobIsNat DEF Good, Holds, Active
  <2>4. QED
    BY <1>4, <2>1, <2>2, <2>3
<1>12. QED
  BY <1>7, <1>8, <1>9, <1>10, <1>11
     DEF IndInv, ClaimInv, PhaseInv, RowInv, SeenInv, Good

(* A row that s has claimed or rewritten is locked by nobody else.          *)
LEMMA OwnLocks ==
    ASSUME IndInv, NEW s \in Session, NEW j \in Job, Holds(s, j)
    PROVE  ~Locked(s, j)
BY DEF IndInv, ExclusiveRows, Locked

(* When the index lets s through, the only other entry of the key is the   *)
(* row s has retired.                                                      *)
LEMMA IndexFree ==
    ASSUME IndInv, NEW s \in Session, NEW k \in Guarded, NEW i \in Job,
           ~IndexBusy(s, k), ~IndexTaken(s, k), key[i] = k, Indexed(i),
           txn[s].new = NoJob, txn[s].set # "queued",
           txn[s].job # NoJob => key[txn[s].job] # k
    PROVE  txn[s].seen = i /\ txn[s].set = "superseded"
<1>1. CASE state[i] \in Active
  <2>1. Visible(s, i) \notin Active
    BY DEF IndexTaken, ActiveFor
  <2>2. i # txn[s].job /\ i # txn[s].new
    BY JobIsNat
  <2>3. QED
    BY <1>1, <2>1, <2>2 DEF Visible
<1>2. CASE \E u \in Session : txn[u].new = i
  BY <1>2, JobIsNat DEF IndexBusy
<1>3. CASE \E u \in Session : txn[u].seen = i /\ txn[u].set = "queued"
  BY <1>3 DEF IndexBusy
<1>4. QED
  BY <1>1, <1>2, <1>3 DEF Indexed

(* An insert the index lets through keeps the invariant.                   *)
LEMMA InsertStep ==
    ASSUME IndInv, NEW s \in Session, Insert(s), TypeOK'
    PROVE  IndInv'
<1> DEFINE k == txn[s].req
<1>1. PICK j \in Job :
        /\ NextRow(j)
        /\ key' = [key EXCEPT ![j] = k]
        /\ txn' = [txn EXCEPT ![s] = [txn[s] EXCEPT !.at = "work", !.new = j,
                                                   !.arg = NoRev]]
  BY DEF Insert
<1>2. TypeOK /\ state' = state
  BY DEF IndInv, Insert
<1>3. key[j] = NoKey /\ state[j] = "absent"
  <2>1. j \in j .. MaxJobs
    BY BoundsAssumption DEF Job
  <2>2. QED
    BY <1>1, <2>1 DEF NextRow, IndInv, RowInv
<1>4. /\ \A u \in Session \ {s} : txn'[u] = txn[u]
      /\ \A u \in Session : txn[u] \in Txn
      /\ txn'[s].at = "work" /\ txn'[s].new = j /\ txn'[s].job = txn[s].job
      /\ txn'[s].req = k /\ txn'[s].seen = txn[s].seen /\ txn'[s].set = txn[s].set
  BY <1>1, <1>2 DEF TypeOK, Txn
<1>5. \A u \in Session : Good(u, txn[u])
  BY EverySessionGood
<1>6. /\ k \in Key /\ txn[s].new = NoJob /\ txn[s].set \in {"none", "superseded"}
      /\ k \in Guarded => ~IndexBusy(s, k) /\ ~IndexTaken(s, k)
  BY <1>5 DEF Insert, MayInsert, Good
<1>7. \A i \in Job : key'[i] = IF i = j THEN k ELSE key[i]
  BY <1>1, <1>2 DEF TypeOK
<1>8. \A u \in Session : Good(u, txn[u])'
  <2>1. ASSUME NEW u \in Session
        PROVE  /\ txn[u].job # NoJob => txn[u].job # j
               /\ txn[u].seen # NoJob => txn[u].seen # j
               /\ txn[u].new # NoJob => txn[u].new # j
    BY <1>3, <1>5, KindAssumption DEF Good, Active
  <2>2. ASSUME NEW u \in Session \ {s} PROVE Good(u, txn[u])'
    BY <1>2, <1>4, <1>5, <1>7, <2>1 DEF Good, Txn
  <2>3. Good(s, txn[s])'
    <3>1. Good(s, txn[s]) /\ txn[s] \in Txn
      BY <1>4, <1>5
    <3>2. txn[s].job # NoJob => key'[txn[s].job] = key[txn[s].job]
      BY <1>7, <2>1, <3>1 DEF Txn
    <3>3. txn[s].seen # NoJob => key'[txn[s].seen] = key[txn[s].seen]
      BY <1>7, <2>1, <3>1 DEF Txn
    <3>4. key'[j] = k /\ k # NoKey
      BY <1>6, <1>7, KindAssumption
    <3>5. QED
      BY <1>2, <1>3, <1>4, <1>6, <3>1, <3>2, <3>3, <3>4 DEF Good
  <2>4. QED
    BY <2>2, <2>3
<1>9. ExclusiveRows'
  <2>1. \A u \in Session, i \in Job : Holds(u, i)' <=> Holds(u, i)
    BY <1>4 DEF Holds
  <2>2. QED
    BY <2>1 DEF ExclusiveRows, IndInv
<1>10. IndexInv'
  <2>1. \A i \in Job : Indexed(i)' => i = j \/ Indexed(i)
    BY <1>2, <1>4 DEF Indexed
  <2>2. ASSUME NEW i \in Job, i # j, key[i] = k, k \in Guarded, Indexed(i)'
        PROVE  Replaces(s, i, j)'
    <3>1. txn[s].job # NoJob => key[txn[s].job] # k
      BY <1>5, <2>2 DEF Good
    <3>2. txn[s].seen = i /\ txn[s].set = "superseded"
      BY <1>6, <2>1, <2>2, <3>1, IndexFree
    <3>3. QED
      BY <1>4, <3>2 DEF Replaces
  <2> SUFFICES ASSUME NEW x \in Job, NEW y \in Job, x # y,
                      key'[x] = key'[y], key'[x] \in Guarded,
                      Indexed(x)', Indexed(y)'
               PROVE  \E u \in Session : Replaces(u, x, y)' \/ Replaces(u, y, x)'
    BY DEF IndexInv
  <2>3. CASE x = j \/ y = j
    BY <1>7, <2>2, <2>3
  <2>4. CASE x # j /\ y # j
    <3>1. PICK u \in Session : Replaces(u, x, y) \/ Replaces(u, y, x)
      BY <1>7, <2>1, <2>4 DEF IndexInv, IndInv
    <3>2. u # s
      BY <1>6, <3>1, JobIsNat DEF Replaces
    <3>3. QED
      BY <1>4, <3>1, <3>2 DEF Replaces
  <2>5. QED
    BY <2>3, <2>4
<1>11. \A u, v \in Session : txn'[u].new # NoJob /\ txn'[u].new = txn'[v].new => u = v
  <2>1. \A u \in Session : txn[u].new # j
    BY <1>3, <1>5, KindAssumption, JobIsNat DEF Good
  <2>2. QED
    BY <1>4, <2>1 DEF IndInv, RowInv
<1>12. \A i \in Job : key'[i] = NoKey => state'[i] = "absent"
  BY <1>2, <1>3, <1>7 DEF IndInv, RowInv
<1>13. QED
  BY <1>8, <1>9, <1>10, <1>11, <1>12
     DEF IndInv, ClaimInv, PhaseInv, RowInv, SeenInv, Good

(* A SELECT keeps the invariant.                                           *)
LEMMA LookupStep ==
    ASSUME IndInv, NEW s \in Session, NEW k \in Key, NEW r \in RevOf[k],
           Lookup(s, k, r),
           txn[s].new = NoJob, txn[s].seen = NoJob, txn[s].set = "none",
           txn[s].job # NoJob /\ k \in Guarded => key[txn[s].job] # k
    PROVE  IndInv'
<1>1. txn[s] \in Txn /\ Good(s, txn[s]) /\ r \in Nat /\ k # NoKey
  BY EverySessionGood, KindAssumption DEF IndInv, TypeOK
<1>2. PICK j \in Job \union {NoJob} :
        /\ Reads(s, k, j)
        /\ \/ Step(s, [txn[s] EXCEPT !.at = "work", !.req = k])
           \/ Step(s, [txn[s] EXCEPT !.at = "write", !.req = k, !.arg = r, !.seen = j])
  BY DEF Lookup
<1>3. \A i \in Job : txn[s].job = i => ~Locked(s, i)
  BY OwnLocks DEF Holds
<1>4. j # NoJob => j \in Job /\ key[j] = k /\ state[j] \in Active
  BY <1>1, <1>2, JobIsNat DEF Reads, ActiveFor, Visible, Good, Active
<1>5. CASE Step(s, [txn[s] EXCEPT !.at = "work", !.req = k])
  <2> DEFINE t == [txn[s] EXCEPT !.at = "work", !.req = k]
  <2>1. /\ t \in Txn /\ t.at = "work" /\ t.req = k /\ t.job = txn[s].job
        /\ t.new = NoJob /\ t.seen = NoJob /\ t.set = "none"
    BY <1>1 DEF Txn
  <2>2. Good(s, t)
    BY <1>1, <2>1 DEF Good
  <2> HIDE DEF t
  <2>3. QED
    BY <1>3, <1>5, <2>1, <2>2, QuietStep DEF t
<1>6. CASE Step(s, [txn[s] EXCEPT !.at = "write", !.req = k, !.arg = r, !.seen = j])
  <2> DEFINE t == [txn[s] EXCEPT !.at = "write", !.req = k, !.arg = r, !.seen = j]
  <2>1. /\ t \in Txn /\ t.at = "write" /\ t.req = k /\ t.job = txn[s].job
        /\ t.new = NoJob /\ t.seen = j /\ t.set = "none"
    BY <1>1 DEF Txn
  <2>2. Good(s, t)
    BY <1>1, <1>4, <2>1 DEF Good, Active
  <2> HIDE DEF t
  <2>3. QED
    BY <1>3, <1>6, <2>1, <2>2, QuietStep DEF t
<1>7. QED
  BY <1>2, <1>5, <1>6

(* An exception keeps the invariant.                                       *)
LEMMA RaiseStep ==
    ASSUME IndInv, NEW s \in Session, Raise(s)
    PROVE  IndInv'
<1>1. txn[s].job \in Job \union {NoJob} /\ crashes' \in Nat
  BY DEF Raise, IndInv, TypeOK, Txn
<1>2. CASE s \in Worker
  <2> DEFINE t == [IdleTxn EXCEPT !.at = "failed", !.job = txn[s].job]
  <2>1. /\ t \in Txn /\ t.at = "failed" /\ t.job = txn[s].job /\ t.req = NoKey
        /\ t.new = NoJob /\ t.seen = NoJob /\ t.set = "none"
    BY <1>1, FailedIsTxn DEF IdleTxn
  <2> HIDE DEF t
  <2>2. QED
    BY <1>1, <1>2, <2>1, UndoStep DEF Raise, t
<1>3. CASE s \notin Worker
  BY <1>1, <1>3, IdleIsTxn, UndoStep DEF Raise, IdleTxn
<1>4. QED
  BY <1>2, <1>3

(* The last condition of QuietStep and its locks, for a session that keeps *)
(* what it holds.                                                          *)
LEMMA SameHoldings ==
    ASSUME IndInv, NEW s \in Session, NEW t \in Txn, Step(s, t), Good(s, t),
           t.job = txn[s].job, t.new = txn[s].new, t.seen = txn[s].seen,
           t.set = txn[s].set, t.set # "queued"
    PROVE  IndInv'
<1>1. \A j \in Job : t.job = j \/ (t.seen = j /\ t.set # "none") => ~Locked(s, j)
  BY OwnLocks DEF Holds
<1>2. QED
  BY <1>1, QuietStep

(* Committing a claim with its outcome keeps the invariant.                *)
LEMMA CommitClaimStep ==
    ASSUME IndInv, NEW w \in Worker, txn[w].job # NoJob,
           NEW own \in Active \union Settled, NEW mark \in AttemptState,
           CommitClaim(w, own, mark)
    PROVE  IndInv'
<1>1. TypeOK'
  BY CommitType DEF IndInv
<1>2. QED
  BY <1>1, CommitStep DEF CommitClaim, Session

(* The invariant holds of an empty queue and of leased jobs.               *)
LEMMA IndInit == Init => IndInv
<1> SUFFICES ASSUME Init PROVE IndInv
  OBVIOUS
<1>1. TypeOK
  BY TypeInit
<1>2. \A s \in Session : /\ txn[s].at = "idle" /\ txn[s].job = NoJob
                          /\ txn[s].new = NoJob /\ txn[s].seen = NoJob
                          /\ txn[s].set = "none"
  BY DEF Init, IdleTxn
<1>3. ClaimInv /\ PhaseInv /\ SeenInv
  BY <1>2 DEF ClaimInv, PhaseInv, SeenInv
<1>4. RowInv
  BY <1>2 DEF RowInv, Init
<1>5. ExclusiveRows
  BY <1>2, JobIsNat DEF ExclusiveRows, Holds
<1>6. IndexInv
  <2>1. \A j \in Job : Indexed(j) => j \in Leased
    BY <1>2, JobIsNat DEF Indexed, Init, Active
  <2>2. QED
    BY <2>1 DEF IndexInv, Init
<1>7. QED
  BY <1>1, <1>3, <1>4, <1>5, <1>6 DEF IndInv

(* Every action keeps the invariant.                                       *)
LEMMA IndStep == IndInv /\ [Next]_vars => IndInv'
<1> SUFFICES ASSUME IndInv, [Next]_vars PROVE IndInv'
  OBVIOUS
<1> USE DEF Session
<1>0. TypeOK /\ TypeOK' /\ \A s \in Session : txn[s] \in Txn /\ Good(s, txn[s])
  BY TypeStep, EverySessionGood DEF IndInv, TypeOK
<1>1. ASSUME NEW w \in Worker, Claim(w) PROVE IndInv'
  <2>1. PICK j \in Job :
          /\ Claimable(w, j)
          /\ Step(w, [IdleTxn EXCEPT !.at = IF Spent(j) THEN "failed" ELSE "work",
                                     !.job = j])
    BY <1>1 DEF Claim, Step
  <2> DEFINE t == [IdleTxn EXCEPT !.at = IF Spent(j) THEN "failed" ELSE "work",
                                  !.job = j]
  <2>2. /\ t \in Txn /\ t.at \in {"failed", "work"} /\ t.job = j /\ t.req = NoKey
        /\ t.new = NoJob /\ t.seen = NoJob /\ t.set = "none"
    BY DEF IdleTxn, Txn, NoRev
  <2>3. txn[w].new = NoJob
    BY <1>0, <1>1 DEF Good, Claim
  <2> HIDE DEF t
  <2>4. Good(w, t)
    BY <2>1, <2>2, KindAssumption DEF Good, Claimable
  <2>5. \A i \in Job : t.job = i \/ (t.seen = i /\ t.set # "none") => ~Locked(w, i)
    BY <2>1, <2>2 DEF Claimable
  <2>6. QED
    BY <2>1, <2>2, <2>3, <2>4, <2>5, QuietStep DEF t
<1>2. ASSUME NEW w \in Worker, Finish(w) PROVE IndInv'
  <2>1. txn[w].outcome \in {"running", "superseded", "quarantined"}
    BY <1>0 DEF Txn
  <2>2. QED
    BY <1>2, <2>1, CommitClaimStep DEF Finish, Active, Settled, AttemptState
<1>3. ASSUME NEW w \in Worker, Retry(w) PROVE IndInv'
  BY <1>3, CommitClaimStep DEF Retry, Active, Settled, AttemptState
<1>4. ASSUME NEW w \in Worker, Quarantine(w) PROVE IndInv'
  BY <1>4, CommitClaimStep DEF Quarantine, Active, Settled, AttemptState
<1>5. ASSUME NEW w \in Worker, SettleClaim(w) PROVE IndInv'
  <2>1. PICK o \in {"superseded", "quarantined"} : Step(w, [txn[w] EXCEPT !.outcome = o])
    BY <1>5 DEF SettleClaim
  <2> DEFINE t == [txn[w] EXCEPT !.outcome = o]
  <2>2. /\ t \in Txn /\ t.at = txn[w].at /\ t.job = txn[w].job /\ t.req = txn[w].req
        /\ t.new = txn[w].new /\ t.seen = txn[w].seen /\ t.set = txn[w].set
    BY <1>0 DEF Txn
  <2> HIDE DEF t
  <2>3. Good(w, t) /\ t.set # "queued"
    BY <1>0, <1>5, <2>2 DEF Good, SettleClaim
  <2>4. QED
    BY <2>1, <2>2, <2>3, SameHoldings DEF t
<1>6. ASSUME NEW w \in Worker, Fail(w) PROVE IndInv'
  <2>1. PICK o \in {"running", "quarantined"} :
          Undo(w, [IdleTxn EXCEPT !.at = "failed", !.job = txn[w].job, !.outcome = o])
    BY <1>6 DEF Fail
  <2> DEFINE t == [IdleTxn EXCEPT !.at = "failed", !.job = txn[w].job, !.outcome = o]
  <2>2. /\ t.at = "failed" /\ t.job = txn[w].job /\ t.req = NoKey
        /\ t.new = NoJob /\ t.seen = NoJob /\ t.set = "none"
    BY DEF IdleTxn
  <2>3. t \in Txn /\ crashes' \in Nat
    BY <1>0, <1>6, FailedIsTxn DEF Txn, Fail, TypeOK
  <2> HIDE DEF t
  <2>4. QED
    BY <2>1, <2>2, <2>3, UndoStep DEF t
<1>7. ASSUME NEW w \in Worker, FollowUp(w) PROVE IndInv'
  <2>1. PICK k \in Key : \E r \in RevOf[k] : MayEnqueue(w, k) /\ Lookup(w, k, r)
    BY <1>7 DEF FollowUp
  <2>2. txn[w].new = NoJob /\ txn[w].seen = NoJob /\ txn[w].set = "none"
        /\ txn[w].job # NoJob
    BY <1>0, <1>7 DEF Good, FollowUp
  <2>3. key[txn[w].job] \in Key
    <3>1. txn[w].job \in Job /\ state[txn[w].job] # "absent"
      BY <1>0, <2>2 DEF Good, Active, Txn
    <3>2. QED
      BY <1>0, <3>1 DEF TypeOK, IndInv, RowInv
  <2>4. k \in Guarded => key[txn[w].job] # k
    BY <2>1, <2>3, KindAssumption DEF MayEnqueue
  <2>5. QED
    BY <2>1, <2>2, <2>4, LookupStep
<1>8. ASSUME NEW c \in Client, Request(c) PROVE IndInv'
  <2>1. /\ txn[c].new = NoJob /\ txn[c].seen = NoJob /\ txn[c].set = "none"
        /\ txn[c].job = NoJob
    BY <1>0, <1>8 DEF Good, Request
  <2>2. QED
    BY <1>8, <2>1, LookupStep DEF Request
<1>9. ASSUME NEW s \in Session, Revise(s) PROVE IndInv'
  <2> DEFINE t == [txn[s] EXCEPT !.at = "work", !.set = "rev"]
  <2>1. /\ t \in Txn /\ t.at = "work" /\ t.job = txn[s].job /\ t.req = txn[s].req
        /\ t.new = txn[s].new /\ t.seen = txn[s].seen /\ t.set = "rev"
    BY <1>0 DEF Txn
  <2>2. Step(s, t) /\ txn[s].new = NoJob /\ txn[s].set # "queued"
    BY <1>0, <1>9 DEF Revise, Good
  <2> HIDE DEF t
  <2>3. Good(s, t)
    BY <1>0, <1>9, <2>1, KindAssumption DEF Good, Revise
  <2>4. \A j \in Job : t.job = j \/ (t.seen = j /\ t.set # "none") => ~Locked(s, j)
    BY <1>9, <2>1, OwnLocks DEF Revise, Holds
  <2>5. QED
    BY <2>1, <2>2, <2>3, <2>4, QuietStep
<1>10. ASSUME NEW s \in Session, Supersede(s) PROVE IndInv'
  <2> DEFINE t == [txn[s] EXCEPT !.set = "superseded"]
  <2>1. /\ t \in Txn /\ t.at = "write" /\ t.job = txn[s].job /\ t.req = txn[s].req
        /\ t.new = txn[s].new /\ t.seen = txn[s].seen /\ t.set = "superseded"
    BY <1>0, <1>10 DEF Txn, Supersede
  <2>2. Step(s, t)
    BY <1>10 DEF Supersede
  <2> HIDE DEF t
  <2>3. Good(s, t)
    BY <1>0, <1>10, <2>1, KindAssumption DEF Good, Supersede
  <2>4. \A j \in Job : t.job = j \/ (t.seen = j /\ t.set # "none") => ~Locked(s, j)
    BY <1>10, <2>1, OwnLocks DEF Supersede, Holds
  <2>5. QED
    BY <2>1, <2>2, <2>3, <2>4, QuietStep
<1>11. ASSUME NEW s \in Session, Insert(s) PROVE IndInv'
  BY <1>0, <1>11, InsertStep
<1>12. ASSUME NEW s \in Session, Clash(s) PROVE IndInv'
  <2> DEFINE t == [txn[s] EXCEPT !.at = "clash"]
  <2>1. /\ t \in Txn /\ t.at = "clash" /\ t.job = txn[s].job /\ t.req = txn[s].req
        /\ t.new = txn[s].new /\ t.seen = txn[s].seen /\ t.set = txn[s].set
    BY <1>0 DEF Txn
  <2>2. Step(s, t) \/ Raise(s)
    BY <1>12 DEF Clash
  <2> HIDE DEF t
  <2>3. Good(s, t) /\ t.set # "queued"
    BY <1>0, <1>12, <2>1, KindAssumption DEF Good, Clash, MayInsert
  <2>4. QED
    BY <2>1, <2>2, <2>3, SameHoldings, RaiseStep
<1>13. ASSUME NEW s \in Session, Reread(s) PROVE IndInv'
  <2> DEFINE t == [txn[s] EXCEPT !.at = "work", !.arg = NoRev]
  <2>1. /\ t \in Txn /\ t.at = "work" /\ t.job = txn[s].job /\ t.req = txn[s].req
        /\ t.new = txn[s].new /\ t.seen = txn[s].seen /\ t.set = txn[s].set
    BY <1>0 DEF Txn, NoRev
  <2>2. Step(s, t) \/ Raise(s)
    BY <1>13 DEF Reread
  <2> HIDE DEF t
  <2>3. Good(s, t) /\ t.set # "queued"
    BY <1>0, <1>13, <2>1 DEF Good, Reread
  <2>4. QED
    BY <2>1, <2>2, <2>3, SameHoldings, RaiseStep
<1>14. ASSUME NEW c \in Client, Requeue(c) PROVE IndInv'
  <2>1. PICK j \in Job :
          /\ state[j] \in Settled /\ ~Locked(c, j)
          /\ key[j] \in Guarded => ~IndexBusy(c, key[j]) /\ ~IndexTaken(c, key[j])
          /\ Step(c, [IdleTxn EXCEPT !.at = "work", !.seen = j, !.set = "queued"])
    BY <1>14 DEF Requeue
  <2> DEFINE t == [IdleTxn EXCEPT !.at = "work", !.seen = j, !.set = "queued"]
  <2>2. /\ t \in Txn /\ t.at = "work" /\ t.job = NoJob /\ t.req = NoKey
        /\ t.new = NoJob /\ t.seen = j /\ t.set = "queued"
    BY DEF IdleTxn, Txn, NoRev
  <2>3. /\ txn[c].new = NoJob /\ txn[c].seen = NoJob /\ txn[c].set = "none"
        /\ txn[c].job = NoJob
    BY <1>0, <1>14 DEF Good, Requeue
  <2> HIDE DEF t
  <2>4. Good(c, t)
    BY <2>1, <2>2, JobIsNat DEF Good, Settled
  <2>5. \A i \in Job : t.job = i \/ (t.seen = i /\ t.set # "none") => ~Locked(c, i)
    BY <2>1, <2>2, JobIsNat
  <2>6. ASSUME NEW i \in Job, Indexed(i), key[i] = key[j], key[j] \in Guarded
        PROVE  FALSE
    <3>1. ~IndexBusy(c, key[j]) /\ ~IndexTaken(c, key[j])
      BY <2>1, <2>6
    <3>2. txn[c].set = "superseded"
      BY <2>3, <2>6, <3>1, IndexFree
    <3>3. QED
      BY <2>3, <3>2
  <2>7. QED
    BY <2>1, <2>2, <2>3, <2>4, <2>5, <2>6, QuietStep DEF t
<1>15. ASSUME NEW c \in Client, CommitClient(c) PROVE IndInv'
  BY <1>0, <1>15, CommitStep DEF CommitClient
<1>16. ASSUME NEW s \in Session, Crash(s) PROVE IndInv'
  <2>1. crashes' \in Nat
    BY <1>0, <1>16 DEF Crash, TypeOK
  <2>2. QED
    BY <1>16, <2>1, IdleIsTxn, UndoStep DEF Crash, IdleTxn
<1>17. CASE (\E j \in Job : Ripen(j)) \/ BeginMigration \/ EndMigration \/ UNCHANGED vars
  <2>1. state' = state /\ key' = key /\ txn' = txn
    BY <1>17 DEF Ripen, BeginMigration, EndMigration, vars
  <2>2. QED
    BY <1>0, <2>1 DEF IndInv, ClaimInv, PhaseInv, RowInv, SeenInv, ExclusiveRows,
                      Holds, IndexInv, Indexed, Replaces
<1>18. QED
  BY <1>1, <1>2, <1>3, <1>4, <1>5, <1>6, <1>7, <1>8, <1>9, <1>10, <1>11, <1>12,
     <1>13, <1>14, <1>15, <1>16, <1>17
     DEF Next, WorkerStep, EnqueueStep

(* The locks, uncommitted rows and index entries of all sessions agree.    *)
THEOREM IndInvHolds == Spec => []IndInv
BY IndInit, IndStep, PTL DEF Spec

(* SKIP LOCKED, row locks and savepoints keep two sessions from having     *)
(* uncommitted changes to one job row.                                     *)
THEOREM RowsAreExclusive == Spec => []ExclusiveRows
<1>1. IndInv => ExclusiveRows
  BY DEF IndInv
<1>2. QED
  BY <1>1, IndInvHolds, PTL

(* The partial unique indexes, which PostgreSQL checks insert by insert,   *)
(* amount to one active job per key for the kinds that have one.           *)
THEOREM GuardedKeysAreUnique == Spec => []OneActivePerGuardedKey
<1>1. IndInv => OneActivePerGuardedKey
  <2> SUFFICES ASSUME IndInv, NEW i \in Job, NEW j \in Job, i # j,
                      key[i] = key[j], key[i] \in Guarded,
                      state[i] \in Active, state[j] \in Active
               PROVE  FALSE
    BY DEF OneActivePerGuardedKey
  <2>1. PICK s \in Session : Replaces(s, i, j) \/ Replaces(s, j, i)
    BY DEF IndInv, IndexInv, Indexed
  <2>2. QED
    BY <2>1, JobIsNat DEF IndInv, RowInv, Replaces, Active
<1>2. QED
  BY <1>1, IndInvHolds, PTL

-----------------------------------------------------------------------------
(* The recorded attempts.                                                  *)

(* What the recorded attempts rest on besides IndInv: a row that is not    *)
(* committed has none, an operator's transaction only reopens one settled  *)
(* row, and a handler that rejects its source enqueues nothing.            *)
Unrecorded == \A j \in Job : state[j] = "absent" => attempts[j] = <<>>
Reopening(t) ==
    /\ t.job = NoJob /\ t.new = NoJob /\ t.seen \in Job
    /\ key[t.seen] \in Requeuable /\ state[t.seen] \in Settled
Reopened == \A s \in Session : txn[s].set = "queued" => Reopening(txn[s])
Rejecting(t) == t.job # NoJob /\ t.req = NoKey
Rejected == \A s \in Session : txn[s].outcome = "quarantined" => Rejecting(txn[s])

LogInv == Unrecorded /\ Reopened /\ Rejected /\ JobMatchesLastAttempt /\ AttemptBudget

-----------------------------------------------------------------------------
(* Closing a stale attempt keeps the number of attempts.                   *)
LEMMA PriorLength ==
    ASSUME TypeOK, NEW j \in Job
    PROVE  Len(Prior(j)) = Len(attempts[j])
<1> DEFINE a == attempts[j]
<1>1. a \in Seq(AttemptState) /\ "interrupted" \in AttemptState
  BY DEF TypeOK, AttemptState
<1>2. CASE a = <<>>
  <2>1. [a EXCEPT ![Len(a)] = "interrupted"] = a
    BY <1>2
  <2>2. QED
    BY <2>1 DEF Prior
<1>3. CASE a # <<>>
  <2>1. Len(a) \in 1 .. Len(a)
    BY <1>1, <1>3, EmptySeq, LenProperties
  <2>2. Len([a EXCEPT ![Len(a)] = "interrupted"]) = Len(a)
    BY <1>1, <2>1, ExceptSeq
  <2>3. QED
    BY <2>2 DEF Prior
<1>4. QED
  BY <1>2, <1>3

(* A commit of a claim appends its mark to the attempts of its own row and *)
(* leaves those of all other rows alone.                                   *)
LEMMA Appended ==
    ASSUME TypeOK, NEW w \in Worker, txn[w].job # NoJob,
           NEW own, NEW mark \in AttemptState, CommitClaim(w, own, mark),
           NEW j \in Job
    PROVE  IF j = txn[w].job
           THEN /\ attempts'[j] # <<>> /\ Last(j)' = mark
                /\ Len(attempts'[j]) = Len(attempts[j]) + 1
           ELSE attempts'[j] = attempts[j]
<1>1. txn[w].job \in Job /\ attempts \in [Job -> Seq(AttemptState)]
  BY DEF TypeOK, Txn, Session
<1>2. attempts' = [attempts EXCEPT ![txn[w].job] = Append(Prior(txn[w].job), mark)]
  BY DEF CommitClaim
<1>3. CASE j = txn[w].job
  <2>1. Prior(j) \in Seq(AttemptState) /\ Len(Prior(j)) = Len(attempts[j])
    BY PriorType, PriorLength
  <2>2. attempts'[j] = Append(Prior(j), mark)
    BY <1>1, <1>2, <1>3
  <2>3. /\ Len(Append(Prior(j), mark)) = Len(Prior(j)) + 1
        /\ Append(Prior(j), mark)[Len(Prior(j)) + 1] = mark
        /\ Append(Prior(j), mark) # <<>>
    BY <2>1, AppendProperties
  <2>4. QED
    BY <1>3, <2>1, <2>2, <2>3 DEF Last
<1>4. CASE j # txn[w].job
  BY <1>1, <1>2, <1>4
<1>5. QED
  BY <1>3, <1>4

-----------------------------------------------------------------------------
(* The commits.                                                            *)

(* While an operator's transaction is open its row stays settled: a commit *)
(* of another session changes rows that session has locked or inserted.    *)
LEMMA CommitKeepsReopening ==
    ASSUME IndInv, Reopened, Rejected, NEW s \in Session,
           txn' = [txn EXCEPT ![s] = IdleTxn], key' = key,
           \A j \in Job : \/ state'[j] = state[j]
                          \/ Holds(s, j)
                          \/ j = txn[s].new
    PROVE  Reopened' /\ Rejected'
<1>1. txn \in [Session -> Txn]
  BY DEF IndInv, TypeOK
<1>2. Rejected'
  BY <1>1 DEF Rejected, Rejecting, IdleTxn
<1>3. ASSUME NEW t \in Session, txn'[t].set = "queued"
      PROVE  Reopening(txn[t])' /\ txn'[t] = txn[t]
  <2>1. t # s /\ txn'[t] = txn[t]
    BY <1>1, <1>3 DEF IdleTxn
  <2>2. Reopening(txn[t]) /\ Holds(t, txn[t].seen)
    BY <1>3, <2>1 DEF Reopened, Holds
  <2>3. txn[t].seen \in Job /\ ~Holds(s, txn[t].seen)
    BY <2>1, <2>2 DEF IndInv, ExclusiveRows, Reopening
  <2>4. txn[t].seen # txn[s].new
    BY <2>2, JobIsNat DEF IndInv, RowInv, Reopening, Settled
  <2>5. state'[txn[t].seen] = state[txn[t].seen]
    BY <2>3, <2>4
  <2>6. QED
    BY <2>1, <2>2, <2>5 DEF Reopening
<1>4. QED
  BY <1>2, <1>3 DEF Reopened

(* A claim that ends in state `own' with attempt `mark' keeps the records  *)
(* when the two agree and the limit is respected.                          *)
LEMMA ClaimCommitted ==
    ASSUME IndInv, LogInv, NEW w \in Worker, txn[w].job # NoJob,
           NEW own, NEW mark \in AttemptState, CommitClaim(w, own, mark),
           \/ own \in {"completed", "superseded"} /\ mark = "succeeded"
           \/ own = "quarantined" /\ mark = "quarantined"
           \/ /\ own = "queued" /\ mark = "retry_wait"
              /\ Len(attempts[txn[w].job]) + 1 < MaxAttempts
           \/ /\ own = "blocked_infrastructure" /\ mark = "blocked_infrastructure"
              /\ Len(attempts[txn[w].job]) + 1 >= MaxAttempts
    PROVE  LogInv'
<1>1. w \in Session /\ txn[w] \in Txn /\ txn[w].job \in Job
  BY DEF IndInv, TypeOK, Txn, Session
<1>2. \A j \in Job :
        /\ j = txn[w].job => /\ attempts'[j] # <<>> /\ Last(j)' = mark
                             /\ Len(attempts'[j]) = Len(attempts[j]) + 1
        /\ j # txn[w].job => attempts'[j] = attempts[j] /\ Last(j)' = Last(j)
  BY Appended DEF IndInv, Last
<1>3. key' = key /\ \A j \in Job : state'[j] =
        IF j = txn[w].job THEN own
        ELSE IF j = txn[w].new THEN "queued"
        ELSE IF j = txn[w].seen /\ txn[w].set \in {"superseded", "queued"} THEN txn[w].set
        ELSE state[j]
  BY DEF CommitClaim, RowsAfter
<1>4. \A j \in Job : j = txn[w].new => state[j] = "absent" /\ attempts[j] = <<>>
  BY <1>1, JobIsNat DEF IndInv, RowInv, LogInv, Unrecorded
<1>5. Unrecorded'
  BY <1>1, <1>2, <1>3 DEF LogInv, Unrecorded
<1>6. Reopened' /\ Rejected'
  <2>1. \A j \in Job : state'[j] = state[j] \/ Holds(w, j) \/ j = txn[w].new
    BY <1>3 DEF Holds
  <2>2. txn' = [txn EXCEPT ![w] = IdleTxn]
    BY DEF CommitClaim
  <2>3. QED
    BY <1>1, <1>3, <2>1, <2>2, CommitKeepsReopening DEF LogInv
<1>7. JobMatchesLastAttempt'
  BY <1>1, <1>2, <1>3, <1>4 DEF LogInv, JobMatchesLastAttempt, Reopened, Reopening
<1>8. AttemptBudget'
  <2>1. \A j \in Job : Len(attempts[j]) \in Nat
    BY LenProperties DEF IndInv, TypeOK
  <2>2. QED
    BY <1>1, <1>2, <1>3, <1>4, <2>1, BoundsAssumption DEF LogInv, AttemptBudget
<1>9. QED
  BY <1>5, <1>6, <1>7, <1>8 DEF LogInv

(* A request's commit inserts rows, retires rows or reopens one.           *)
LEMMA ClientCommitted ==
    ASSUME IndInv, LogInv, NEW c \in Client, CommitClient(c)
    PROVE  LogInv'
<1>1. c \in Session /\ txn[c] \in Txn /\ txn[c].job = NoJob
  BY DEF IndInv, TypeOK, Session, CommitClient
<1>2. /\ key' = key /\ attempts' = attempts
      /\ \A j \in Job : state'[j] =
           IF j = txn[c].new THEN "queued"
           ELSE IF j = txn[c].seen /\ txn[c].set \in {"superseded", "queued"} THEN txn[c].set
           ELSE state[j]
  BY <1>1, JobIsNat DEF CommitClient, RowsAfter
<1>3. \A j \in Job : j = txn[c].new => state[j] = "absent" /\ attempts[j] = <<>>
  BY <1>1, JobIsNat DEF IndInv, RowInv, LogInv, Unrecorded
<1>4. \A j \in Job : Last(j)' = Last(j)
  BY <1>2 DEF Last
<1>5. Unrecorded'
  BY <1>2 DEF LogInv, Unrecorded
<1>6. Reopened' /\ Rejected'
  <2>1. \A j \in Job : state'[j] = state[j] \/ Holds(c, j) \/ j = txn[c].new
    BY <1>2 DEF Holds
  <2>2. txn' = [txn EXCEPT ![c] = IdleTxn]
    BY DEF CommitClient
  <2>3. QED
    BY <1>1, <1>2, <2>1, <2>2, CommitKeepsReopening DEF LogInv
<1>7. JobMatchesLastAttempt'
  BY <1>1, <1>2, <1>3, <1>4 DEF LogInv, JobMatchesLastAttempt, Reopened, Reopening
<1>8. AttemptBudget'
  BY <1>2, <1>3, <1>4 DEF LogInv, AttemptBudget
<1>9. QED
  BY <1>5, <1>6, <1>7, <1>8 DEF LogInv

-----------------------------------------------------------------------------
(* The steps before a commit.                                              *)

(* A step keeps the records when it leaves the committed rows alone, moves *)
(* row numbers only of rows that are not committed, and reopens or rejects *)
(* nothing but what may be.                                                *)
LEMMA NothingCommitted ==
    ASSUME IndInv, LogInv, UNCHANGED <<state, attempts>>,
           \A j \in Job : key'[j] = key[j] \/ state[j] = "absent",
           \A s \in Session :
               \/ txn'[s] = txn[s]
               \/ /\ txn'[s].set = "queued" => Reopening(txn'[s])
                  /\ txn'[s].outcome = "quarantined" => Rejecting(txn'[s])
    PROVE  LogInv'
<1>1. \A j \in Job : Last(j)' = Last(j)
  BY DEF Last
<1>2. Unrecorded'
  BY DEF LogInv, Unrecorded
<1>3. Reopened'
  <2>1. ASSUME NEW s \in Session, txn'[s].set = "queued" PROVE Reopening(txn'[s])
    BY <2>1 DEF LogInv, Reopened
  <2>2. ASSUME NEW s \in Session, Reopening(txn'[s]) PROVE Reopening(txn[s])'
    BY <2>2 DEF Reopening, Settled
  <2>3. QED
    BY <2>1, <2>2 DEF Reopened
<1>4. Rejected'
  BY DEF LogInv, Rejected, Rejecting
<1>5. JobMatchesLastAttempt'
  BY <1>1 DEF LogInv, JobMatchesLastAttempt
<1>6. AttemptBudget'
  BY <1>1 DEF LogInv, AttemptBudget
<1>7. QED
  BY <1>2, <1>3, <1>4, <1>5, <1>6 DEF LogInv

(* A step that changes one transaction and puts nothing back in the queue. *)
LEMMA Stepped ==
    ASSUME IndInv, LogInv, NEW s \in Session, NEW t, Step(s, t),
           t.set # "queued", t.outcome = "quarantined" => Rejecting(t)
    PROVE  LogInv'
<1>1. txn \in [Session -> Txn]
  BY DEF IndInv, TypeOK
<1>2. QED
  BY <1>1, NothingCommitted DEF Step

(* A rollback.                                                             *)
LEMMA RolledBack ==
    ASSUME IndInv, LogInv, NEW s \in Session, NEW t, Undo(s, t), t.set = "none",
           t.outcome = "quarantined" => Rejecting(t)
    PROVE  LogInv'
<1>1. txn \in [Session -> Txn] /\ key \in [Job -> Key \union {NoKey}]
  BY DEF IndInv, TypeOK
<1>2. txn[s].new # NoJob => txn[s].new \in Job /\ state[txn[s].new] = "absent"
  BY <1>1 DEF IndInv, RowInv, Txn
<1>3. QED
  BY <1>1, <1>2, NothingCommitted DEF Undo

(* A handler that raises: the transaction is gone, the failure is pending. *)
LEMMA Raised ==
    ASSUME IndInv, LogInv, NEW s \in Session, Raise(s)
    PROVE  LogInv'
<1>1. /\ IdleTxn.set = "none" /\ IdleTxn.outcome = "running"
      /\ [IdleTxn EXCEPT !.at = "failed", !.job = txn[s].job].set = "none"
      /\ [IdleTxn EXCEPT !.at = "failed", !.job = txn[s].job].outcome = "running"
  BY DEF IdleTxn
<1>2. QED
  BY <1>1, RolledBack DEF Raise

(* Looking for an active job of the key changes no row.                    *)
LEMMA LookedUp ==
    ASSUME IndInv, LogInv, NEW s \in Session, NEW k \in Key, NEW r \in RevOf[k],
           Lookup(s, k, r), txn[s].set = "none",
           txn[s].outcome # "quarantined"
    PROVE  LogInv'
<1>1. txn[s] \in Txn
  BY DEF IndInv, TypeOK
<1>2. PICK j \in Job \union {NoJob} :
        \/ Step(s, [txn[s] EXCEPT !.at = "work", !.req = k])
        \/ Step(s, [txn[s] EXCEPT !.at = "write", !.req = k, !.arg = r, !.seen = j])
  BY DEF Lookup
<1>3. /\ [txn[s] EXCEPT !.at = "work", !.req = k].set = "none"
      /\ [txn[s] EXCEPT !.at = "work", !.req = k].outcome = txn[s].outcome
      /\ [txn[s] EXCEPT !.at = "write", !.req = k, !.arg = r, !.seen = j].set = "none"
      /\ [txn[s] EXCEPT !.at = "write", !.req = k, !.arg = r, !.seen = j].outcome
           = txn[s].outcome
  BY <1>1 DEF Txn
<1>4. QED
  BY <1>2, <1>3, Stepped

-----------------------------------------------------------------------------
(* Jobs left running by a former process have a running attempt.           *)
LEMMA LogInit == Init => LogInv
<1> SUFFICES ASSUME Init PROVE LogInv
  OBVIOUS
<1>1. \A j \in Job : state[j] \in {"running", "absent"}
  BY DEF Init
<1>2. \A j \in Job : /\ attempts[j] \in {<<>>, <<"running">>, <<"retry_wait", "running">>}
                     /\ attempts[j] # <<>> <=> j \in Leased
                     /\ state[j] = "running" <=> j \in Leased
  BY DEF Init
<1>3. \A j \in Job : attempts[j] # <<>> => Last(j) = "running"
  <2>1. SUFFICES ASSUME NEW j \in Job,
                        attempts[j] \in {<<"running">>, <<"retry_wait", "running">>}
                 PROVE  Last(j) = "running"
    BY <1>2
  <2>2. CASE attempts[j] = <<"running">>
    BY <2>2, Len(<<"running">>) = 1, <<"running">>[1] = "running" DEF Last
  <2>3. CASE attempts[j] = <<"retry_wait", "running">>
    BY <2>3, Len(<<"retry_wait", "running">>) = 2, <<"retry_wait", "running">>[2] = "running"
       DEF Last
  <2>4. QED
    BY <2>1, <2>2, <2>3
<1>4. Unrecorded
  BY <1>2 DEF Unrecorded
<1>5. Reopened /\ Rejected
  BY DEF Init, IdleTxn, Reopened, Rejected
<1>6. JobMatchesLastAttempt
  BY <1>1, <1>2, <1>3 DEF JobMatchesLastAttempt
<1>7. AttemptBudget
  BY <1>1, <1>3 DEF AttemptBudget
<1>8. QED
  BY <1>4, <1>5, <1>6, <1>7 DEF LogInv

(* Every action keeps the records.                                         *)
LEMMA LogStep == IndInv /\ LogInv /\ [Next]_vars => LogInv'
<1> SUFFICES ASSUME IndInv, LogInv, [Next]_vars PROVE LogInv'
  OBVIOUS
<1> USE DEF Session
<1>0. \A s \in Session : txn[s] \in Txn
  BY DEF IndInv, TypeOK
<1>1. ASSUME NEW w \in Worker, Claim(w) PROVE LogInv'
  <2>1. PICK j \in Job : txn' = [txn EXCEPT ![w] =
          [IdleTxn EXCEPT !.at = IF Spent(j) THEN "failed" ELSE "work", !.job = j]]
    BY <1>1 DEF Claim
  <2>2. [IdleTxn EXCEPT !.at = IF Spent(j) THEN "failed" ELSE "work", !.job = j].set = "none"
        /\ [IdleTxn EXCEPT !.at = IF Spent(j) THEN "failed" ELSE "work", !.job = j].outcome
             = "running"
    BY DEF IdleTxn
  <2>3. UNCHANGED <<state, attempts, key>> /\ txn \in [Session -> Txn]
    BY <1>1 DEF Claim, IndInv, TypeOK
  <2>4. QED
    BY <2>1, <2>2, <2>3, NothingCommitted
<1>2. ASSUME NEW w \in Worker, Finish(w) PROVE LogInv'
  <2>1. txn[w].outcome \in {"running", "superseded", "quarantined"}
    BY <1>0 DEF Txn
  <2>2. QED
    BY <1>2, <2>1, ClaimCommitted DEF Finish, AttemptState
<1>3. ASSUME NEW w \in Worker, Retry(w) PROVE LogInv'
  <2>1. Len(attempts[txn[w].job]) + 1 < MaxAttempts \/ Len(attempts[txn[w].job]) + 1 >= MaxAttempts
    <3>1. txn[w].job \in Job
      BY <1>0, <1>3 DEF Retry, Txn
    <3>2. Len(attempts[txn[w].job]) \in Nat
      BY <3>1, LenProperties DEF IndInv, TypeOK
    <3>3. QED
      BY <3>2, BoundsAssumption
  <2>2. QED
    BY <1>3, <2>1, ClaimCommitted DEF Retry, AttemptState
<1>4. ASSUME NEW w \in Worker, Quarantine(w) PROVE LogInv'
  BY <1>4, ClaimCommitted DEF Quarantine, AttemptState
<1>5. ASSUME NEW w \in Worker, SettleClaim(w) PROVE LogInv'
  <2>1. PICK o \in {"superseded", "quarantined"} : Step(w, [txn[w] EXCEPT !.outcome = o])
    BY <1>5 DEF SettleClaim
  <2> DEFINE t == [txn[w] EXCEPT !.outcome = o]
  <2>2. t.set = txn[w].set /\ t.job = txn[w].job /\ t.req = txn[w].req
    BY <1>0 DEF Txn
  <2>3. t.set # "queued" /\ Rejecting(t)
    BY <1>5, <2>2 DEF SettleClaim, LogInv, Reopened, Reopening, Rejecting
  <2>4. QED
    BY <2>1, <2>3, Stepped
<1>6. ASSUME NEW w \in Worker, Fail(w) PROVE LogInv'
  <2>1. PICK o \in {"running", "quarantined"} :
          Undo(w, [IdleTxn EXCEPT !.at = "failed", !.job = txn[w].job, !.outcome = o])
    BY <1>6 DEF Fail
  <2> DEFINE t == [IdleTxn EXCEPT !.at = "failed", !.job = txn[w].job, !.outcome = o]
  <2>2. t.set = "none" /\ Rejecting(t)
    BY <1>6 DEF IdleTxn, Fail, Rejecting
  <2>3. QED
    BY <2>1, <2>2, RolledBack
<1>7. ASSUME NEW w \in Worker, FollowUp(w) PROVE LogInv'
  <2>1. PICK k \in Key : \E r \in RevOf[k] : MayEnqueue(w, k) /\ Lookup(w, k, r)
    BY <1>7 DEF FollowUp
  <2>2. txn[w].set = "none"
    BY <1>7 DEF FollowUp, IndInv, PhaseInv
  <2>3. QED
    BY <2>1, <2>2, LookedUp DEF MayEnqueue
<1>8. ASSUME NEW c \in Client, Request(c) PROVE LogInv'
  <2>1. txn[c].set = "none" /\ txn[c].job = NoJob
    BY <1>8 DEF Request, IndInv, PhaseInv
  <2>2. txn[c].outcome # "quarantined"
    BY <2>1 DEF LogInv, Rejected, Rejecting
  <2>3. QED
    BY <1>8, <2>1, <2>2, LookedUp DEF Request
<1>20. ASSUME NEW s \in Session, txn[s].at \in {"write", "clash"}
      PROVE  txn[s].set # "queued" /\ txn[s].outcome # "quarantined"
  BY <1>20, KindAssumption DEF IndInv, PhaseInv, LogInv, Rejected, Rejecting
<1>9. ASSUME NEW s \in Session, Revise(s) PROVE LogInv'
  <2>1. /\ [txn[s] EXCEPT !.at = "work", !.set = "rev"].set = "rev"
        /\ [txn[s] EXCEPT !.at = "work", !.set = "rev"].outcome = txn[s].outcome
    BY <1>0 DEF Txn
  <2>2. QED
    BY <1>9, <1>20, <2>1, Stepped DEF Revise
<1>10. ASSUME NEW s \in Session, Supersede(s) PROVE LogInv'
  <2>1. /\ [txn[s] EXCEPT !.set = "superseded"].set = "superseded"
        /\ [txn[s] EXCEPT !.set = "superseded"].outcome = txn[s].outcome
    BY <1>0 DEF Txn
  <2>2. QED
    BY <1>10, <1>20, <2>1, Stepped DEF Supersede
<1>11. ASSUME NEW s \in Session, Insert(s) PROVE LogInv'
  <2>1. PICK j \in Job :
          /\ NextRow(j)
          /\ key' = [key EXCEPT ![j] = txn[s].req]
          /\ txn' = [txn EXCEPT ![s] = [txn[s] EXCEPT !.at = "work", !.new = j,
                                                     !.arg = NoRev]]
    BY <1>11 DEF Insert
  <2>2. key[j] = NoKey
    BY <2>1 DEF NextRow, Job
  <2>3. state[j] = "absent"
    BY <2>2 DEF IndInv, RowInv
  <2> DEFINE t == [txn[s] EXCEPT !.at = "work", !.new = j, !.arg = NoRev]
  <2>4. t.set = txn[s].set /\ t.outcome = txn[s].outcome
    BY <1>0 DEF Txn
  <2>5. t.set # "queued" /\ t.outcome # "quarantined"
    BY <1>11, <1>20, <2>4 DEF Insert, MayInsert
  <2>6. UNCHANGED <<state, attempts>> /\ txn \in [Session -> Txn]
        /\ key \in [Job -> Key \union {NoKey}]
    BY <1>11 DEF Insert, IndInv, TypeOK
  <2>7. QED
    BY <2>1, <2>3, <2>5, <2>6, NothingCommitted
<1>12. ASSUME NEW s \in Session, Clash(s) PROVE LogInv'
  <2>1. /\ [txn[s] EXCEPT !.at = "clash"].set = txn[s].set
        /\ [txn[s] EXCEPT !.at = "clash"].outcome = txn[s].outcome
    BY <1>0 DEF Txn
  <2>2. QED
    BY <1>12, <1>20, <2>1, Stepped, Raised DEF Clash, MayInsert
<1>13. ASSUME NEW s \in Session, Reread(s) PROVE LogInv'
  <2>1. /\ [txn[s] EXCEPT !.at = "work", !.arg = NoRev].set = txn[s].set
        /\ [txn[s] EXCEPT !.at = "work", !.arg = NoRev].outcome = txn[s].outcome
    BY <1>0 DEF Txn
  <2>2. QED
    BY <1>13, <1>20, <2>1, Stepped, Raised DEF Reread
<1>14. ASSUME NEW c \in Client, Requeue(c) PROVE LogInv'
  <2>1. PICK j \in Job :
          /\ key[j] \in Requeuable /\ state[j] \in Settled
          /\ Step(c, [IdleTxn EXCEPT !.at = "work", !.seen = j, !.set = "queued"])
    BY <1>14 DEF Requeue
  <2> DEFINE t == [IdleTxn EXCEPT !.at = "work", !.seen = j, !.set = "queued"]
  <2>2. Reopening(t) /\ t.outcome = "running"
    BY <2>1 DEF IdleTxn, Reopening
  <2>3. UNCHANGED <<state, attempts, key>> /\ txn \in [Session -> Txn]
    BY <2>1 DEF Step, IndInv, TypeOK
  <2>4. QED
    BY <2>1, <2>2, <2>3, NothingCommitted DEF Step
<1>15. ASSUME NEW c \in Client, CommitClient(c) PROVE LogInv'
  BY <1>15, ClientCommitted
<1>16. ASSUME NEW j \in Job, Ripen(j) PROVE LogInv'
  BY <1>16, NothingCommitted DEF Ripen
<1>17. ASSUME NEW s \in Session, Crash(s) PROVE LogInv'
  <2>1. IdleTxn.set = "none" /\ IdleTxn.outcome = "running"
    BY DEF IdleTxn
  <2>2. QED
    BY <1>17, <2>1, RolledBack DEF Crash
<1>18. CASE BeginMigration \/ EndMigration \/ UNCHANGED vars
  BY <1>18, NothingCommitted DEF BeginMigration, EndMigration, vars
<1>19. QED
  BY <1>1, <1>2, <1>3, <1>4, <1>5, <1>6, <1>7, <1>8, <1>9, <1>10, <1>11, <1>12,
     <1>13, <1>14, <1>15, <1>16, <1>17, <1>18
     DEF Next, WorkerStep, EnqueueStep

-----------------------------------------------------------------------------
(* Records and jobs of the queue agree, in every reachable state.          *)
LEMMA LogInvHolds == Spec => []LogInv
BY IndInvHolds, LogInit, LogStep, PTL DEF Spec

(* A job row and its newest attempt tell the same story: the final succeed *)
(* of run_once overwrites nothing that a handler, a retry, a takeover or a *)
(* crash settled or left.                                                  *)
THEOREM RecordsAgree == Spec => []JobMatchesLastAttempt
<1>1. LogInv => JobMatchesLastAttempt
  BY DEF LogInv
<1>2. QED
  BY <1>1, LogInvHolds, PTL

(* A job is retried only below its limit and blocked only at it, however   *)
(* its attempts are lost, taken over or reopened.                          *)
THEOREM BudgetRespected == Spec => []AttemptBudget
<1>1. LogInv => AttemptBudget
  BY DEF LogInv
<1>2. QED
  BY <1>1, LogInvHolds, PTL

-----------------------------------------------------------------------------
(* JobQueue implements JobLedger, for any sessions, keys and bounds: every *)
(* step of a transaction is a stutter of the ledger but its commit, which  *)
(* is one step of it.                                                      *)

(* The ledger's `target': what each committed row was enqueued for.        *)
Target == [j \in Job |-> IF state[j] = "absent" THEN NoKey ELSE key[j]]

-----------------------------------------------------------------------------
(* A step that moves row numbers only of rows that are not committed is    *)
(* not seen in the ledger.                                                 *)
LEMMA Unseen ==
    ASSUME UNCHANGED <<state, attempts>>,
           \A j \in Job : key'[j] = key[j] \/ state[j] = "absent"
    PROVE  UNCHANGED Ledger!ledger
BY DEF Ledger!ledger

(* A rollback takes back only rows nobody has seen.                        *)
LEMMA UnseenUndo ==
    ASSUME IndInv, NEW s \in Session, NEW t, Undo(s, t)
    PROVE  UNCHANGED Ledger!ledger
<1>1. txn[s] \in Txn /\ key \in [Job -> Key \union {NoKey}]
  BY DEF IndInv, TypeOK
<1>2. txn[s].new # NoJob => txn[s].new \in Job /\ state[txn[s].new] = "absent"
  BY <1>1 DEF IndInv, RowInv, Txn
<1>3. QED
  BY <1>1, <1>2, Unseen DEF Undo

(* A step of an open transaction is not seen in the ledger.                *)
LEMMA UnseenStep ==
    ASSUME NEW s, NEW t, Step(s, t)
    PROVE  UNCHANGED Ledger!ledger
BY Unseen DEF Step

(* What is unique among the committed rows after a step is unambiguous in  *)
(* the ledger.                                                             *)
LEMMA NotAmbiguous ==
    ASSUME IndInv', NEW k \in Key
    PROVE  Ledger!Unambiguous(k)
<1> SUFFICES ASSUME k \in Guarded, NEW i \in Job, NEW j \in Job,
                    Target'[i] = k, Target'[j] = k,
                    state'[i] \in Active, state'[j] \in Active, i # j
             PROVE  FALSE
  BY DEF Ledger!Unambiguous, Ledger!Active, Active, Target
<1>1. key'[i] = k /\ key'[j] = k
  BY DEF Target, Active
<1>2. PICK s \in Session : Replaces(s, i, j)' \/ Replaces(s, j, i)'
  BY <1>1 DEF IndInv, IndexInv, Indexed
<1>3. QED
  BY <1>2, JobIsNat DEF IndInv, RowInv, Replaces, Active

-----------------------------------------------------------------------------
(* The row a transaction has inserted and the row it has retired.          *)
Inserted(s) == txn[s].new
Retired(s) == IF txn[s].set = "superseded" THEN txn[s].seen ELSE NoJob

(* They are a legal enqueue of the ledger, for the key of the request.     *)
LEMMA EnqueueSeen ==
    ASSUME IndInv, IndInv', NEW s \in Session, txn[s].set # "queued",
           NEW own, own # "absent",
           txn[s].job # NoJob => txn[s].job \in Job /\ state[txn[s].job] # "absent",
           state' = RowsAfter(s, own), key' = key, NEW k \in Key,
           Inserted(s) # NoJob => k = txn[s].req
    PROVE  Ledger!Enqueue(Retired(s), Inserted(s), k)
<1>1. txn[s] \in Txn /\ key \in [Job -> Key \union {NoKey}]
  BY DEF IndInv, TypeOK
<1>2. /\ Inserted(s) # NoJob => /\ Inserted(s) \in Job /\ state[Inserted(s)] = "absent"
                                /\ key[Inserted(s)] = k
      /\ Retired(s) # NoJob => /\ Retired(s) \in Job /\ state[Retired(s)] # "absent"
                               /\ key[Retired(s)] \in Identity
  BY <1>1 DEF IndInv, RowInv, SeenInv, Inserted, Retired, Txn
<1>3. Retired(s) # NoJob => Target[Retired(s)] \in Identity
  BY <1>2 DEF Target
<1>4. Inserted(s) # NoJob => Target[Inserted(s)] = NoKey
  BY <1>2 DEF Target
<1>5. \A j \in Job : state'[j] =
        IF j = txn[s].job THEN own
        ELSE IF j = txn[s].new THEN "queued"
        ELSE IF j = txn[s].seen /\ txn[s].set \in {"superseded", "queued"} THEN txn[s].set
        ELSE state[j]
  BY DEF RowsAfter
<1>6. \A j \in Job : Target'[j] = IF j = Inserted(s) THEN k ELSE Target[j]
  <2> SUFFICES ASSUME NEW j \in Job
               PROVE  Target'[j] = IF j = Inserted(s) THEN k ELSE Target[j]
    OBVIOUS
  <2>1. state'[j] = "absent" <=> state[j] = "absent" /\ j # Inserted(s)
    BY <1>1, <1>2, <1>5, JobIsNat DEF IndInv, SeenInv, Inserted, Retired, Txn
  <2>2. QED
    BY <1>2, <2>1, JobIsNat DEF Target
<1>7. Target' = IF Inserted(s) = NoJob THEN Target ELSE [Target EXCEPT ![Inserted(s)] = k]
  BY <1>6, JobIsNat DEF Target
<1>8. Ledger!Unambiguous(k)
  BY NotAmbiguous
<1>9. QED
  BY <1>3, <1>4, <1>7, <1>8 DEF Ledger!Enqueue, Target

-----------------------------------------------------------------------------
(* A commit of a claim whose handler succeeded or superseded its job.      *)
LEMMA SucceedSeen ==
    ASSUME IndInv, LogInv, IndInv', NEW w \in Worker, txn[w].job # NoJob,
           NEW own \in {"completed", "superseded"},
           CommitClaim(w, own, "succeeded")
    PROVE  Ledger!Next
<1> DEFINE j == txn[w].job
           r == Retired(w)
           n == Inserted(w)
<1>1. w \in Session /\ txn[w] \in Txn /\ j \in Job /\ key \in [Job -> Key \union {NoKey}]
  BY DEF IndInv, TypeOK, Txn, Session
<1>2. txn[w].set # "queued"
  BY <1>1 DEF LogInv, Reopened, Reopening
<1>3. state[j] \in Active /\ state[j] # "absent" /\ key[j] # NoKey
  BY <1>1 DEF IndInv, ClaimInv, RowInv, Active
<1>4. n \in (Job \ {j}) \union {NoJob}
  BY <1>1, <1>3 DEF IndInv, RowInv, Inserted, Txn
<1>5. r \in (Job \ {j}) \union {NoJob}
  BY <1>1, KindAssumption DEF IndInv, ClaimInv, SeenInv, Retired, Txn
<1>6. PICK k \in Key : n # NoJob => k = txn[w].req
  BY <1>1, <1>3 DEF IndInv, RowInv, Inserted
<1>7. state' = RowsAfter(w, own) /\ key' = key
      /\ attempts' = [attempts EXCEPT ![j] = Append(Prior(j), "succeeded")]
  BY DEF CommitClaim
<1>8. state' = [Ledger!StatusAfter(r, n) EXCEPT ![j] = own]
  BY <1>1, <1>2, <1>4, <1>5, <1>7, JobIsNat
     DEF RowsAfter, Ledger!StatusAfter, Retired, Inserted
<1>9. Ledger!Enqueue(r, n, k)
  <2>1. own # "absent"
    OBVIOUS
  <2>2. QED
    BY <1>1, <1>2, <1>3, <1>6, <1>7, <2>1, EnqueueSeen
<1>10. Ledger!Record(j, "succeeded")
  BY <1>7 DEF Ledger!Record, Ledger!Past, Prior
<1> HIDE DEF r, n
<1>11. Ledger!Succeed(j)
  BY <1>3, <1>4, <1>5, <1>6, <1>8, <1>9, <1>10 DEF Ledger!Succeed, Ledger!Active, Active
<1>12. QED
  BY <1>1, <1>11 DEF Ledger!Next

(* A commit of a claim that failed or whose handler rejected the source.   *)
LEMMA FailureSeen ==
    ASSUME IndInv, NEW w \in Worker, txn[w].job # NoJob,
           txn[w].at = "failed" \/ txn[w].req = NoKey,
           NEW own \in Active \union Settled, NEW mark, CommitClaim(w, own, mark),
           \/ own = "quarantined" /\ mark = "quarantined"
           \/ /\ own = "queued" /\ mark = "retry_wait"
              /\ Len(attempts[txn[w].job]) + 1 < MaxAttempts
           \/ /\ own = "blocked_infrastructure" /\ mark = "blocked_infrastructure"
              /\ Len(attempts[txn[w].job]) + 1 >= MaxAttempts
    PROVE  Ledger!Next
<1> DEFINE j == txn[w].job
<1>1. w \in Session /\ txn[w] \in Txn /\ j \in Job /\ state \in [Job -> Active \union Settled \union {"absent"}]
  BY DEF IndInv, TypeOK, Txn, Session
<1>2. txn[w].new = NoJob /\ txn[w].seen = NoJob /\ txn[w].set = "none"
  BY <1>1 DEF IndInv, PhaseInv
<1>3. state[j] \in Active
  BY <1>1 DEF IndInv, ClaimInv
<1>4. state' = [state EXCEPT ![j] = own] /\ key' = key
      /\ attempts' = [attempts EXCEPT ![j] = Append(Prior(j), mark)]
  BY <1>1, <1>2, JobIsNat DEF CommitClaim, RowsAfter
<1>5. Target' = Target
  BY <1>1, <1>3, <1>4 DEF Target, Active, Settled
<1>6. Ledger!Record(j, mark)
  BY <1>4 DEF Ledger!Record, Ledger!Past, Prior
<1>7. Ledger!FailAttempt(j)
  BY <1>3, <1>4, <1>5, <1>6 DEF Ledger!FailAttempt, Ledger!Active, Active, Target
<1>8. QED
  BY <1>1, <1>7 DEF Ledger!Next

(* A commit of a request: an enqueue, an operator's reopening, or nothing. *)
LEMMA RequestSeen ==
    ASSUME IndInv, LogInv, IndInv', NEW c \in Client, CommitClient(c)
    PROVE  Ledger!Next \/ UNCHANGED Ledger!ledger
<1> DEFINE r == Retired(c)
           n == Inserted(c)
<1>1. /\ c \in Session /\ txn[c] \in Txn /\ key \in [Job -> Key \union {NoKey}]
      /\ state \in [Job -> Active \union Settled \union {"absent"}]
  BY DEF IndInv, TypeOK, Session
<1>2. /\ state' = RowsAfter(c, "absent") /\ txn[c].job = NoJob
      /\ UNCHANGED <<attempts, key>>
  BY DEF CommitClient
<1>3. CASE txn[c].set = "queued"
  <2>1. PICK j \in Job : /\ j = txn[c].seen /\ txn[c].new = NoJob
                         /\ key[j] \in Requeuable /\ state[j] \in Settled
    BY <1>1, <1>3 DEF LogInv, Reopened, Reopening
  <2>2. state' = [state EXCEPT ![j] = "queued"]
    BY <1>1, <1>2, <1>3, <2>1, JobIsNat DEF RowsAfter
  <2>3. Target' = Target /\ Target[j] = key[j]
    BY <1>1, <1>2, <2>1, <2>2 DEF Target, Settled
  <2>4. PICK k \in Key : k = key[j]
    BY <2>1, KindAssumption
  <2>5. Ledger!Unambiguous(k)
    BY NotAmbiguous
  <2>6. Ledger!Unambiguous(Target[j])
    BY <2>3, <2>4, <2>5 DEF Ledger!Unambiguous, Target
  <2>7. Ledger!Reopen(j)
    BY <1>2, <2>1, <2>2, <2>3, <2>6 DEF Ledger!Reopen, Ledger!Settled, Settled, Target
  <2>8. QED
    BY <2>1, <2>7 DEF Ledger!Next
<1>4. CASE txn[c].set # "queued" /\ (n # NoJob \/ r # NoJob)
  <2>1. n \in Job \union {NoJob} /\ r \in Job \union {NoJob}
    BY <1>1 DEF Inserted, Retired, Txn
  <2>2. PICK k \in Key : k = txn[c].req
    BY <1>1, <1>4, KindAssumption DEF IndInv, RowInv, SeenInv, Inserted, Retired
  <2>3. state' = RowsAfter(c, "none")
    BY <1>2, JobIsNat DEF RowsAfter
  <2>4. state' = Ledger!StatusAfter(r, n)
    BY <1>2, <1>4, JobIsNat DEF RowsAfter, Ledger!StatusAfter, Retired, Inserted
  <2>5. Ledger!Enqueue(r, n, k)
    <3>1. "none" # "absent" /\ txn[c].set # "queued"
      BY <1>4
    <3>2. QED
      BY <1>1, <1>2, <2>2, <2>3, <3>1, EnqueueSeen
  <2> HIDE DEF r, n
  <2>6. Ledger!Ask
    BY <1>2, <2>1, <2>2, <2>4, <2>5 DEF Ledger!Ask
  <2>7. QED
    BY <2>6 DEF Ledger!Next
<1>5. CASE txn[c].set # "queued" /\ n = NoJob /\ r = NoJob
  <2>1. state' = state
    BY <1>1, <1>2, <1>5, JobIsNat DEF RowsAfter, Retired, Inserted, IndInv, SeenInv
  <2>2. QED
    BY <1>2, <2>1, Unseen
<1>6. QED
  BY <1>3, <1>4, <1>5

-----------------------------------------------------------------------------
(* The queue starts as a ledger does.                                      *)
LEMMA LedgerInit == Init => Ledger!Init
<1> SUFFICES ASSUME Init PROVE Ledger!Init
  OBVIOUS
<1>1. \A j \in Job : /\ state[j] \in {"absent", "running"}
                     /\ state[j] = "running" <=> j \in Leased
                     /\ key[j] # NoKey <=> j \in Leased
                     /\ attempts[j] # <<>> <=> j \in Leased
  BY DEF Init
<1>2. Target \in [Job -> Key \union {NoKey}]
  BY DEF Init, Target
<1>3. \A j \in Job : Target[j] # NoKey <=> state[j] = "running"
  BY <1>1 DEF Target
<1>4. \A i, j \in Job : Target[i] = Target[j] /\ Target[i] # NoKey => i = j
  BY <1>1 DEF Init, Target
<1>5. state \in [Job -> {"absent", "running"}]
  BY DEF Init
<1>6. QED
  BY <1>1, <1>2, <1>3, <1>4, <1>5 DEF Init, Ledger!Init, Target

(* Every step is a step of the ledger or is not seen in it.                *)
LEMMA LedgerStep ==
    IndInv /\ LogInv /\ IndInv' /\ [Next]_vars => [Ledger!Next]_(Ledger!ledger)
<1> SUFFICES ASSUME IndInv, LogInv, IndInv', [Next]_vars
             PROVE  Ledger!Next \/ UNCHANGED Ledger!ledger
  OBVIOUS
<1> USE DEF Session
<1>0. \A s \in Session : txn[s] \in Txn
  BY DEF IndInv, TypeOK
<1>1. ASSUME NEW w \in Worker, Finish(w) PROVE Ledger!Next
  <2>1. txn[w].outcome \in {"running", "superseded", "quarantined"} /\ txn[w].job # NoJob
    BY <1>0, <1>1 DEF Txn, Finish
  <2>2. CASE txn[w].outcome = "quarantined"
    <3>1. txn[w].req = NoKey
      BY <2>2 DEF LogInv, Rejected, Rejecting
    <3>2. CommitClaim(w, "quarantined", "quarantined")
      BY <1>1, <2>2 DEF Finish
    <3>3. QED
      BY <2>1, <3>1, <3>2, FailureSeen DEF Settled
  <2>3. CASE txn[w].outcome # "quarantined"
    BY <1>1, <2>1, <2>3, SucceedSeen DEF Finish
  <2>4. QED
    BY <2>2, <2>3
<1>2. ASSUME NEW w \in Worker, Retry(w) PROVE Ledger!Next
  <2>1. txn[w].job \in Job /\ txn[w].job # NoJob /\ txn[w].at = "failed"
    BY <1>0, <1>2 DEF Retry, Txn
  <2>2. Len(attempts[txn[w].job]) \in Nat
    BY <2>1, LenProperties DEF IndInv, TypeOK
  <2>3. CASE Len(attempts[txn[w].job]) + 1 >= MaxAttempts
    BY <1>2, <2>1, <2>3, FailureSeen DEF Retry, Settled
  <2>4. CASE ~(Len(attempts[txn[w].job]) + 1 >= MaxAttempts)
    <3>1. Len(attempts[txn[w].job]) + 1 < MaxAttempts
      BY <2>2, <2>4, BoundsAssumption
    <3>2. QED
      BY <1>2, <2>1, <2>4, <3>1, FailureSeen DEF Retry, Active
  <2>5. QED
    BY <2>3, <2>4
<1>3. ASSUME NEW w \in Worker, Quarantine(w) PROVE Ledger!Next
  BY <1>3, FailureSeen DEF Quarantine, Settled
<1>4. ASSUME NEW c \in Client, CommitClient(c)
      PROVE  Ledger!Next \/ UNCHANGED Ledger!ledger
  BY <1>4, RequestSeen
<1>5. ASSUME NEW w \in Worker, Claim(w) PROVE UNCHANGED Ledger!ledger
  BY <1>5, Unseen DEF Claim
<1>6. ASSUME NEW w \in Worker, SettleClaim(w) PROVE UNCHANGED Ledger!ledger
  BY <1>6, UnseenStep DEF SettleClaim
<1>7. ASSUME NEW s \in Session, Raise(s) PROVE UNCHANGED Ledger!ledger
  BY <1>7, UnseenUndo DEF Raise
<1>8. ASSUME NEW w \in Worker, Fail(w) PROVE UNCHANGED Ledger!ledger
  BY <1>8, UnseenUndo DEF Fail
<1>9. ASSUME NEW s \in Session, NEW k \in Key, NEW r \in RevOf[k], Lookup(s, k, r)
      PROVE  UNCHANGED Ledger!ledger
  BY <1>9, UnseenStep DEF Lookup
<1>10. ASSUME NEW s \in Session, Revise(s) \/ Supersede(s) \/ Clash(s) \/ Reread(s)
       PROVE  UNCHANGED Ledger!ledger
  BY <1>7, <1>10, UnseenStep DEF Revise, Supersede, Clash, Reread
<1>11. ASSUME NEW s \in Session, Insert(s) PROVE UNCHANGED Ledger!ledger
  <2>1. PICK j \in Job : NextRow(j) /\ key' = [key EXCEPT ![j] = txn[s].req]
    BY <1>11 DEF Insert
  <2>2. key[j] = NoKey
    BY <2>1 DEF NextRow, Job
  <2>3. state[j] = "absent" /\ key \in [Job -> Key \union {NoKey}]
    BY <2>2 DEF IndInv, RowInv, TypeOK
  <2>4. QED
    BY <1>11, <2>1, <2>3, Unseen DEF Insert
<1>12. ASSUME NEW c \in Client, Requeue(c) PROVE UNCHANGED Ledger!ledger
  BY <1>12, UnseenStep DEF Requeue
<1>13. ASSUME NEW s \in Session, Crash(s) PROVE UNCHANGED Ledger!ledger
  BY <1>13, UnseenUndo DEF Crash
<1>14. ASSUME NEW j \in Job, Ripen(j) PROVE UNCHANGED Ledger!ledger
  BY <1>14, Unseen DEF Ripen
<1>15. CASE BeginMigration \/ EndMigration \/ UNCHANGED vars
  BY <1>15, Unseen DEF BeginMigration, EndMigration, vars
<1>16. QED
  BY <1>1, <1>2, <1>3, <1>4, <1>5, <1>6, <1>8, <1>9, <1>10, <1>11, <1>12, <1>13,
     <1>14, <1>15 DEF Next, WorkerStep, EnqueueStep, FollowUp, Request

(* What JobLedger promises of the committed rows holds for the queue: an   *)
(* attempt with all it enqueues is one step, a failed one leaves nothing   *)
(* but its record, a lost one nothing at all.                              *)
THEOREM LedgerImplemented == Spec => ImplementsLedger
<1>1. Spec => [](IndInv /\ LogInv)
  BY IndInvHolds, LogInvHolds, PTL
<1>2. Spec => Ledger!Init /\ [][Ledger!Next]_(Ledger!ledger)
  BY <1>1, LedgerInit, LedgerStep, PTL DEF Spec
<1>3. QED
  BY <1>2 DEF ImplementsLedger, Ledger!Spec

=============================================================================
