------------------------------ MODULE JobQueue ------------------------------
(***************************************************************************)
(* The durable job queue: repositories/jobs.py, its partial unique indexes *)
(* (models/workflow.py) and the transaction discipline of                  *)
(* ProcessingWorker.run_once.                                              *)
(*                                                                         *)
(* PostgreSQL runs every session at READ COMMITTED.  The variables `state',*)
(* `attempts', `rev' and `ripe' are the COMMITTED rows; what a session has *)
(* written and not committed is in txn[s].  A worker claims a row, runs    *)
(* the handler in a savepoint and commits claim, work and outcome at once, *)
(* so other sessions keep seeing a claimed job as queued, but locked.      *)
(*                                                                         *)
(* A job is identified by the key it was enqueued for: the pair (target,   *)
(* kind), e.g. (record, selection_refresh).  Job numbers are allocated in  *)
(* insertion order and stand for (created_at, id).                         *)
(*                                                                         *)
(* Bounds: MaxJobs rows, one enqueue per transaction, MaxLog attempts per  *)
(* job (only operator requeues reach it), MaxCrashes lost sessions.        *)
(***************************************************************************)
EXTENDS Integers, Sequences, FiniteSets

CONSTANTS
    Worker,       \* worker slots of all pools
    Client,       \* HTTP requests and scheduler ticks
    Key,          \* (target, kind) pairs
    Guarded,      \* keys whose kind has a partial unique index on active jobs
    Handled,      \* guarded keys whose enqueue catches IntegrityError
    Identity,     \* musicbrainz_refresh keys: another identity supersedes
    Provider,     \* provider kinds: no run after a takeover over the limit
    Serves,       \* the keys each worker slot's pool may claim
    Follow,       \* the keys the handler of a key may enqueue
    RevOf,        \* the revisions or identities a request for a key carries
    Requeuable,   \* keys of source jobs an operator may put back in the queue
    Leased,       \* rows found committed as running by a former process
    MaxJobs, MaxAttempts, MaxLog, MaxCrashes

NoJob == 0
NoRev == 0
NoKey == "no_key"
Job == 1 .. MaxJobs
Session == Worker \union Client

ASSUME BoundsAssumption ==
    /\ MaxJobs \in Nat /\ MaxAttempts \in Nat \ {0} /\ MaxLog \in Nat
    /\ MaxCrashes \in Nat
ASSUME KindAssumption ==
    /\ NoKey \notin Key
    /\ Handled \subseteq Guarded /\ Guarded \subseteq Key
    /\ Identity \subseteq Handled /\ Provider \subseteq Key
    /\ Requeuable \subseteq Key
    /\ Serves \in [Worker -> SUBSET Key]
    /\ Follow \in [Key -> SUBSET Key] /\ \A k \in Key : k \notin Follow[k]
    /\ RevOf \in [Key -> SUBSET Nat]
    /\ Leased \subseteq Job
ASSUME SessionAssumption == Worker \intersect Client = {}

Active == {"queued", "running"}
Settled == {"completed", "quarantined", "blocked_infrastructure", "superseded"}
AttemptState == {"running", "interrupted", "succeeded", "quarantined",
                 "retry_wait", "blocked_infrastructure"}

VARIABLES
    state,     \* committed job state; "absent" until the insert commits
    attempts,  \* committed attempt states of each job, oldest first
    rev,       \* metadata revision (or identity) the job is to act on
    ripe,      \* next_attempt_at, or the lease of a running job, has passed
    key,       \* what each row, committed or not, was inserted for
    txn,       \* the open transaction of each session
    storage,   \* StorageConfigRecord.state
    crashes

vars == <<state, attempts, rev, ripe, key, txn, storage, crashes>>

(***************************************************************************)
(* A transaction.  `job' is the claimed row and `outcome' what the handler *)
(* decided so far; `req', `arg' are the key and revision it enqueues;      *)
(* `seen' is the active row its SELECT returned; `set' what it wrote to    *)
(* that row; `new' the row it inserted.                                    *)
(***************************************************************************)
IdleTxn == [at |-> "idle", job |-> NoJob, outcome |-> "running",
            req |-> NoKey, arg |-> NoRev, seen |-> NoJob, set |-> "none",
            new |-> NoJob]

Txn == [at: {"idle", "work", "write", "clash", "failed"},
        job: Job \union {NoJob},
        outcome: {"running", "superseded", "quarantined"},
        req: Key \union {NoKey}, arg: Nat,
        seen: Job \union {NoJob},
        set: {"none", "rev", "superseded", "queued"},
        new: Job \union {NoJob}]

TypeOK ==
    /\ state \in [Job -> Active \union Settled \union {"absent"}]
    /\ attempts \in [Job -> Seq(AttemptState)]
    /\ rev \in [Job -> Nat]
    /\ ripe \in [Job -> BOOLEAN]
    /\ key \in [Job -> Key \union {NoKey}]
    /\ txn \in [Session -> Txn]
    /\ storage \in {"ready", "migrating"}
    /\ crashes \in Nat

Init ==
    /\ key \in [Job -> Key \union {NoKey}]
    /\ \A j \in Job : key[j] # NoKey <=> j \in Leased
    /\ \A i, j \in Leased : i # j => key[i] # key[j]
    /\ state = [j \in Job |-> IF j \in Leased THEN "running" ELSE "absent"]
    /\ attempts \in [Job -> {<<>>, <<"running">>, <<"retry_wait", "running">>}]
    /\ \A j \in Job : attempts[j] # <<>> <=> j \in Leased
    /\ rev = [j \in Job |-> NoRev]
    /\ ripe = [j \in Job |-> FALSE]
    /\ txn = [s \in Session |-> IdleTxn]
    /\ storage = "ready"
    /\ crashes = 0

-----------------------------------------------------------------------------
(* Rows, row locks and visibility.                                         *)

(* s has an uncommitted change to row j, and so its row lock.              *)
Holds(s, j) ==
    \/ txn[s].job = j
    \/ txn[s].seen = j /\ txn[s].set # "none"

(* Fault: the claim and the updates take no row lock.                      *)
NoRowLock(s, j) == FALSE

Locked(s, j) == \E t \in Session \ {s} : Holds(t, j)

(* The state of row j as a statement of s reads it.                        *)
Visible(s, j) ==
    IF txn[s].job = j THEN txn[s].outcome
    ELSE IF txn[s].new = j THEN "queued"
    ELSE IF txn[s].seen = j /\ txn[s].set = "superseded" THEN "superseded"
    ELSE state[j]

ActiveFor(s, k) == {j \in Job : key[j] = k /\ Visible(s, j) \in Active}

(* j is what `ORDER BY created_at DESC' makes a SELECT for k return.        *)
Reads(s, k, j) ==
    \/ j = NoJob /\ ActiveFor(s, k) = {}
    \/ j \in ActiveFor(s, k) /\ \A i \in ActiveFor(s, k) : i <= j

(* The number of the next inserted row.                                    *)
NextRow(j) ==
    /\ \A i \in j .. MaxJobs : key[i] = NoKey
    /\ j > 1 => key[j - 1] # NoKey

(* The partial unique index on k: an uncommitted entry or an uncommitted   *)
(* change of an indexed row makes an insert wait; a committed active row   *)
(* makes it fail.                                                          *)
IndexBusy(s, k) ==
    \/ \E t \in Session \ {s} : txn[t].new # NoJob /\ key[txn[t].new] = k
    \/ \E t \in Session \ {s} : txn[t].set = "queued" /\ key[txn[t].seen] = k
    \/ \E j \in Job : key[j] = k /\ state[j] \in Active /\ Locked(s, j)

(* Fault: the enqueue trusts its SELECT, no index backs it.                *)
NoIndex(s, k) == FALSE

IndexTaken(s, k) == ActiveFor(s, k) # {}

(* The committed attempts of j once its present claim has been flushed: a  *)
(* takeover marks the stale attempt interrupted.                           *)
Prior(j) ==
    IF state[j] = "running"
    THEN [attempts[j] EXCEPT ![Len(attempts[j])] = "interrupted"]
    ELSE attempts[j]

-----------------------------------------------------------------------------
(* Claim and end of a worker transaction.                                  *)

(* Fault: a job left running by a dead process is never taken over.        *)
ClaimableQueued(w, j) ==
    state[j] = "queued" /\ ripe[j] /\ key[j] \in Serves[w] /\ ~Locked(w, j)

Claimable(w, j) ==
    /\ state[j] \in Active
    /\ ripe[j]
    /\ key[j] \in Serves[w]
    /\ ~Locked(w, j)

(* A provider job taken over after its limit.                              *)
Spent(j) ==
    /\ state[j] = "running" /\ key[j] \in Provider
    /\ Len(attempts[j]) >= MaxAttempts

(* run_once: wait for the shared relocation gate, refuse while the output  *)
(* is being moved, then claim the oldest claimable row, skipping locked    *)
(* ones.  A provider job taken over past its limit skips the handler.      *)
Claim(w) ==
    /\ txn[w].at = "idle"
    /\ storage = "ready"
    /\ \E j \in Job :
         /\ Claimable(w, j)
         /\ \A i \in Job : Claimable(w, i) => j <= i
         /\ txn' = [txn EXCEPT ![w] =
              [IdleTxn EXCEPT !.at = IF Spent(j) THEN "failed" ELSE "work",
                              !.job = j]]
    /\ UNCHANGED <<state, attempts, rev, ripe, key, storage, crashes>>

(* What a commit of s makes of the rows it changed; `own' is the claimed   *)
(* row's new state.                                                        *)
RowsAfter(s, own) ==
    [j \in Job |->
        IF j = txn[s].job THEN own
        ELSE IF j = txn[s].new THEN "queued"
        ELSE IF j = txn[s].seen /\ txn[s].set \in {"superseded", "queued"}
             THEN txn[s].set
        ELSE state[j]]

RevAfter(s) ==
    IF txn[s].set = "rev" THEN [rev EXCEPT ![txn[s].seen] = txn[s].arg] ELSE rev

(* New rows and rows put back by an operator are due at once.              *)
RipeAfter(s) ==
    [j \in Job |-> ripe[j] \/ j = txn[s].new
                           \/ (j = txn[s].seen /\ txn[s].set = "queued")]

(* Commit of the claim with its outcome: `own' for the job, `mark' for the *)
(* attempt.                                                                *)
CommitClaim(w, own, mark) ==
    LET j == txn[w].job
    IN  /\ state' = RowsAfter(w, own)
        /\ attempts' = [attempts EXCEPT ![j] = Append(Prior(j), mark)]
        /\ rev' = RevAfter(w)
        /\ ripe' = [RipeAfter(w) EXCEPT ![j] = FALSE]
        /\ txn' = [txn EXCEPT ![w] = IdleTxn]
        /\ UNCHANGED <<key, storage, crashes>>

(* Fault: the final `succeed' completes a job whose attempt was settled.   *)
FinishCompletes(w) ==
    /\ txn[w].at = "work" /\ txn[w].job # NoJob
    /\ CommitClaim(w, "completed",
                   IF txn[w].outcome = "quarantined" THEN "quarantined" ELSE "succeeded")

(* The handler returned: the attempt succeeds unless the handler itself    *)
(* settled the claim (a rejected, replaced or outdated source).            *)
Finish(w) ==
    /\ txn[w].at = "work" /\ txn[w].job # NoJob
    /\ CASE txn[w].outcome = "running"     -> CommitClaim(w, "completed", "succeeded")
         [] txn[w].outcome = "superseded"  -> CommitClaim(w, "superseded", "succeeded")
         [] txn[w].outcome = "quarantined" -> CommitClaim(w, "quarantined", "quarantined")

(* Fault: the attempt being recorded is not counted.                       *)
RetryOffByOne(w) ==
    /\ txn[w].at = "failed" /\ txn[w].job # NoJob /\ txn[w].outcome = "running"
    /\ IF Len(attempts[txn[w].job]) >= MaxAttempts
       THEN CommitClaim(w, "blocked_infrastructure", "blocked_infrastructure")
       ELSE CommitClaim(w, "queued", "retry_wait")

(* A retryable failure, recorded after the savepoint was rolled back.      *)
Retry(w) ==
    /\ txn[w].at = "failed" /\ txn[w].job # NoJob /\ txn[w].outcome = "running"
    /\ IF Len(attempts[txn[w].job]) + 1 >= MaxAttempts
       THEN CommitClaim(w, "blocked_infrastructure", "blocked_infrastructure")
       ELSE CommitClaim(w, "queued", "retry_wait")

(* Corrupt audio, a failed decode or unusable metadata.                    *)
Quarantine(w) ==
    /\ txn[w].at = "failed" /\ txn[w].job # NoJob
    /\ txn[w].outcome = "quarantined"
    /\ CommitClaim(w, "quarantined", "quarantined")

-----------------------------------------------------------------------------
(* Steps of a handler and of the enqueues it or a client makes.            *)

Step(s, t) ==
    /\ txn' = [txn EXCEPT ![s] = t]
    /\ UNCHANGED <<state, attempts, rev, ripe, key, storage, crashes>>

(* The fence of _process (a replaced source or an outdated source          *)
(* revision) and requeue_changed_source settle the claim as superseded; a  *)
(* QuarantineSource outcome settles it as quarantined.                     *)
SettleClaim(w) ==
    /\ txn[w].at = "work" /\ txn[w].job # NoJob
    /\ txn[w].outcome = "running" /\ txn[w].req = NoKey
    /\ \E o \in {"superseded", "quarantined"} : Step(w, [txn[w] EXCEPT !.outcome = o])

(* Fault: the handler runs outside a savepoint.                            *)
NoSavepoint(s, t) ==
    /\ txn' = [txn EXCEPT ![s] = [t EXCEPT !.new = txn[s].new]]
    /\ UNCHANGED <<state, attempts, rev, ripe, key, storage>>

(* Rolling back a session's rows: an uncommitted insert disappears.        *)
Undo(s, t) ==
    /\ txn' = [txn EXCEPT ![s] = t]
    /\ key' = IF txn[s].new = NoJob THEN key ELSE [key EXCEPT ![txn[s].new] = NoKey]
    /\ rev' = IF txn[s].new = NoJob THEN rev ELSE [rev EXCEPT ![txn[s].new] = NoRev]
    /\ UNCHANGED <<state, attempts, ripe, storage>>

(* An exception leaves the handler: a worker keeps its claim and goes on   *)
(* after the savepoint, a client's request fails.                          *)
Raise(s) ==
    /\ Undo(s, IF s \in Worker
               THEN [IdleTxn EXCEPT !.at = "failed", !.job = txn[s].job]
               ELSE IdleTxn)
    /\ UNCHANGED crashes

(* The handler fails after any prefix of its work, for a reason that is    *)
(* retried or, with decoder evidence, quarantined.                         *)
Fail(w) ==
    /\ txn[w].at \in {"work", "write", "clash"} /\ txn[w].job # NoJob
    /\ \E o \in {"running", "quarantined"} :
         Undo(w, [IdleTxn EXCEPT !.at = "failed", !.job = txn[w].job, !.outcome = o])
    /\ UNCHANGED crashes

(* MaxJobs bounds the rows: a request that may insert needs a number.      *)
Room ==
    LET inserting == {s \in Session : txn[s].at = "write" /\ txn[s].set # "rev"}
    IN  \E n \in Job : NextRow(n) /\ n + Cardinality(inserting) <= MaxJobs

(* Every enqueue first reads the newest active row of its key.  A row that *)
(* already carries what is asked for is reused without a write.            *)
Carries(j, r) == j # NoJob /\ (r = NoRev \/ rev[j] = r)

Lookup(s, k, r) ==
    \E j \in Job \union {NoJob} :
      /\ Reads(s, k, j)
      /\ \/ /\ Carries(j, r)
            /\ Step(s, [txn[s] EXCEPT !.at = "work", !.req = k])
         \/ /\ ~Carries(j, r) /\ Room
            /\ Step(s, [txn[s] EXCEPT !.at = "write", !.req = k, !.arg = r,
                                      !.seen = j])

(* A handler enqueues follow-up work in its own transaction; after         *)
(* requeue_changed_source that is its own key.                             *)
MayEnqueue(w, k) ==
    LET own == key[txn[w].job] IN
    \/ txn[w].outcome = "running" /\ k \in Follow[own]
    \/ txn[w].outcome = "superseded" /\ k = own /\ k \notin Guarded

FollowUp(w) ==
    /\ txn[w].at = "work" /\ txn[w].job # NoJob /\ txn[w].req = NoKey
    /\ \E k \in Key : \E r \in RevOf[k] : MayEnqueue(w, k) /\ Lookup(w, k, r)

(* An HTTP request or the scheduler enqueues.                              *)
Request(c) ==
    /\ txn[c].at = "idle"
    /\ \E k \in Key : \E r \in RevOf[k] : Lookup(c, k, r)

(* Generic enqueue with a revision the active row does not carry: the      *)
(* UPDATE waits for the row lock and then hits the row whatever its state. *)
Revise(s) ==
    /\ txn[s].at = "write" /\ txn[s].seen # NoJob
    /\ txn[s].req \notin Identity
    /\ ~Locked(s, txn[s].seen)
    /\ Step(s, [txn[s] EXCEPT !.at = "work", !.set = "rev"])

(* enqueue_musicbrainz_refresh retires the active row of another identity. *)
Supersede(s) ==
    /\ txn[s].at = "write" /\ txn[s].seen # NoJob
    /\ txn[s].req \in Identity /\ txn[s].set = "none"
    /\ ~Locked(s, txn[s].seen)
    /\ Step(s, [txn[s] EXCEPT !.set = "superseded"])

MayInsert(s) ==
    /\ txn[s].at = "write"
    /\ txn[s].seen = NoJob \/ txn[s].set = "superseded"

Insert(s) ==
    LET k == txn[s].req IN
    /\ MayInsert(s)
    /\ k \in Guarded => ~IndexBusy(s, k) /\ ~IndexTaken(s, k)
    /\ \E j \in Job :
         /\ NextRow(j)
         /\ key' = [key EXCEPT ![j] = k]
         /\ rev' = [rev EXCEPT ![j] = txn[s].arg]
         /\ txn' = [txn EXCEPT ![s] = [txn[s] EXCEPT !.at = "work", !.new = j,
                                                     !.arg = NoRev]]
    /\ UNCHANGED <<state, attempts, ripe, storage, crashes>>

(* The unique index refuses the insert.  Only folder_release_selection     *)
(* lets the IntegrityError out.                                            *)
Clash(s) ==
    LET k == txn[s].req IN
    /\ MayInsert(s)
    /\ k \in Guarded /\ ~IndexBusy(s, k) /\ IndexTaken(s, k)
    /\ IF k \in Handled
       THEN Step(s, [txn[s] EXCEPT !.at = "clash"])
       ELSE Raise(s)

(* The second SELECT after an IntegrityError: reuse the winner, or raise   *)
(* when it has been settled in between.                                    *)
Reread(s) ==
    /\ txn[s].at = "clash"
    /\ IF ActiveFor(s, txn[s].req) # {}
       THEN Step(s, [txn[s] EXCEPT !.at = "work", !.arg = NoRev])
       ELSE Raise(s)

(* The destination-conflict cleanup endpoint, under the storage lock, puts *)
(* the source's newest non-analysis job back in the queue, whatever its    *)
(* state (on an active row this only clears the retry delay, as Ripen).    *)
Requeue(c) ==
    /\ txn[c].at = "idle" /\ storage = "ready"
    /\ \A t \in Client : txn[t].set # "queued"
    /\ \E j \in Job :
         /\ key[j] \in Requeuable /\ state[j] \in Settled
         /\ \A i \in Job : key[i] = key[j] /\ state[i] # "absent" => i <= j
         /\ Len(attempts[j]) < MaxLog
         /\ ~Locked(c, j)
         /\ key[j] \in Guarded => ~IndexBusy(c, key[j]) /\ ~IndexTaken(c, key[j])
         /\ Step(c, [IdleTxn EXCEPT !.at = "work", !.seen = j, !.set = "queued"])

(* A client's transaction commits.                                         *)
CommitClient(c) ==
    /\ txn[c].at = "work" /\ txn[c].job = NoJob
    /\ state' = RowsAfter(c, "absent")
    /\ rev' = RevAfter(c)
    /\ ripe' = RipeAfter(c)
    /\ txn' = [txn EXCEPT ![c] = IdleTxn]
    /\ UNCHANGED <<attempts, key, storage, crashes>>

-----------------------------------------------------------------------------
(* The environment.                                                        *)

(* The retry delay of a queued job, or the lease of a running one, passes. *)
Ripen(j) ==
    /\ state[j] \in Active /\ ~ripe[j]
    /\ ripe' = [ripe EXCEPT ![j] = TRUE]
    /\ UNCHANGED <<state, attempts, rev, key, txn, storage, crashes>>

(* A session is lost, with its process or its connection, at any point     *)
(* before its commit: PostgreSQL rolls everything back, the attempt too.   *)
Crash(s) ==
    /\ txn[s].at # "idle"
    /\ crashes < MaxCrashes
    /\ crashes' = crashes + 1
    /\ Undo(s, IdleTxn)

(* move_output takes the relocation gate exclusively, so it waits until no *)
(* worker transaction holds it shared.                                     *)
BeginMigration ==
    /\ storage = "ready"
    /\ \A w \in Worker : txn[w].at = "idle"
    /\ \A c \in Client : txn[c].set # "queued"
    /\ storage' = "migrating"
    /\ UNCHANGED <<state, attempts, rev, ripe, key, txn, crashes>>

EndMigration ==
    /\ storage = "migrating"
    /\ storage' = "ready"
    /\ UNCHANGED <<state, attempts, rev, ripe, key, txn, crashes>>

WorkerStep(w) == Finish(w) \/ Retry(w) \/ Quarantine(w) \/ SettleClaim(w)
                 \/ Fail(w) \/ FollowUp(w)
EnqueueStep(s) == Revise(s) \/ Supersede(s) \/ Insert(s) \/ Clash(s) \/ Reread(s)

Next ==
    \/ \E w \in Worker : Claim(w) \/ WorkerStep(w)
    \/ \E c \in Client : Request(c) \/ Requeue(c) \/ CommitClient(c)
    \/ \E s \in Session : EnqueueStep(s) \/ Crash(s)
    \/ \E j \in Job : Ripen(j)
    \/ BeginMigration \/ EndMigration

Spec == Init /\ [][Next]_vars

-----------------------------------------------------------------------------
(* Safety.                                                                 *)

Last(j) == attempts[j][Len(attempts[j])]

(* No two sessions ever have an uncommitted change to the same job row:    *)
(* SKIP LOCKED keeps workers from claiming a row that is being run or      *)
(* rewritten, and the row lock keeps enqueues from rewriting a running one.*)
ExclusiveRows ==
    \A s, t \in Session : \A j \in Job : Holds(s, j) /\ Holds(t, j) => s = t

(* For the kinds that have a partial unique index, two committed jobs of   *)
(* one key are never active together, whatever enqueues, takeovers,        *)
(* retries, savepoint rollbacks, operator requeues and crashes interleave. *)
OneActivePerGuardedKey ==
    \A i, j \in Job :
        /\ key[i] = key[j] /\ key[i] \in Guarded
        /\ state[i] \in Active /\ state[j] \in Active
        => i = j

(* A job row and its newest attempt tell the same story, except for rows   *)
(* retired by a newer identity or put back in the queue by an operator.    *)
JobMatchesLastAttempt ==
    \A j \in Job :
        /\ state[j] = "completed" => attempts[j] # <<>> /\ Last(j) = "succeeded"
        /\ state[j] = "quarantined" => attempts[j] # <<>> /\ Last(j) = "quarantined"
        /\ state[j] = "blocked_infrastructure" =>
             attempts[j] # <<>> /\ Last(j) = "blocked_infrastructure"
        /\ state[j] = "running" => attempts[j] # <<>> /\ Last(j) = "running"
        /\ state[j] = "queued" /\ key[j] \notin Requeuable /\ attempts[j] # <<>> =>
             Last(j) = "retry_wait"

(* A job waits for another attempt only while its limit is not used up,    *)
(* and is blocked only when it is: neither crashes nor takeovers change    *)
(* the count of the attempts that were recorded.                           *)
AttemptBudget ==
    \A j \in Job :
        /\ attempts[j] # <<>> /\ Last(j) = "retry_wait" => Len(attempts[j]) < MaxAttempts
        /\ state[j] = "blocked_infrastructure" => Len(attempts[j]) >= MaxAttempts

-----------------------------------------------------------------------------
(* The inductive invariant behind ExclusiveRows and OneActivePerGuardedKey.*)

(* A claim belongs to a worker, its row stays active until the commit, and *)
(* the handler enqueues no guarded key that is the claim's own.            *)
ClaimInv ==
    \A s \in Session : txn[s].job # NoJob =>
        /\ s \in Worker
        /\ state[txn[s].job] \in Active
        /\ txn[s].req \in Guarded => key[txn[s].job] # txn[s].req

(* What a session may have read and written at each point of its enqueue.  *)
PhaseInv ==
    \A s \in Session :
        /\ txn[s].at = "idle" => txn[s].job = NoJob
        /\ \/ txn[s].at \in {"idle", "failed"}
           \/ txn[s].job # NoJob /\ txn[s].req = NoKey
           => txn[s].new = NoJob /\ txn[s].seen = NoJob /\ txn[s].set = "none"
        /\ txn[s].at \in {"write", "clash"} =>
             /\ txn[s].req \in Key /\ txn[s].new = NoJob
             /\ txn[s].set \in {"none", "superseded"}

(* Row numbers are taken before their rows are committed.                  *)
RowInv ==
    /\ \A j \in Job : key[j] = NoKey => state[j] = "absent"
    /\ \A s \in Session : txn[s].new # NoJob =>
         /\ txn[s].req \in Key /\ key[txn[s].new] = txn[s].req
         /\ state[txn[s].new] = "absent"
    /\ \A s, t \in Session : txn[s].new # NoJob /\ txn[s].new = txn[t].new => s = t

SeenInv ==
    \A s \in Session :
        /\ txn[s].set # "none" => txn[s].seen # NoJob
        /\ txn[s].seen # NoJob => state[txn[s].seen] # "absent"
        /\ txn[s].seen # NoJob /\ txn[s].set # "queued" =>
             key[txn[s].seen] = txn[s].req
        /\ txn[s].set = "superseded" => txn[s].req \in Identity

(* An entry of a partial unique index, committed or not.                   *)
Indexed(j) ==
    \/ state[j] \in Active
    \/ \E s \in Session : txn[s].new = j
    \/ \E s \in Session : txn[s].seen = j /\ txn[s].set = "queued"

(* s retires row i and puts row j in its place.                            *)
Replaces(s, i, j) == txn[s].seen = i /\ txn[s].set = "superseded" /\ txn[s].new = j

(* Two entries of one guarded key exist only while one session replaces    *)
(* one by the other.                                                       *)
IndexInv ==
    \A i, j \in Job :
        key[i] = key[j] /\ key[i] \in Guarded /\ Indexed(i) /\ Indexed(j) =>
            i = j \/ \E s \in Session : Replaces(s, i, j) \/ Replaces(s, j, i)

(* The index entries, locks and uncommitted rows of all sessions agree.    *)
IndInv == /\ TypeOK /\ ClaimInv /\ PhaseInv /\ RowInv /\ SeenInv
          /\ ExclusiveRows /\ IndexInv

-----------------------------------------------------------------------------
(* Refinement: a transaction is one step of the ledger, taken when it      *)
(* commits.  An uncommitted row does not exist yet.                        *)
Ledger == INSTANCE JobLedger WITH
    status <- state,
    log <- attempts,
    target <- [j \in Job |-> IF state[j] = "absent" THEN NoKey ELSE key[j]]

(* The transactions of workers, requests, the scheduler and operators      *)
(* appear atomic to whoever reads committed rows; an attempt that fails    *)
(* keeps none of the rows its handler wrote.                               *)
ImplementsLedger == Ledger!Spec

-----------------------------------------------------------------------------
(* Liveness.  Slots poll for ever and a handler ends (its external calls   *)
(* have timeouts); a request's transaction ends; the clock moves.  Nothing *)
(* obliges a client to request, an operator to move the output, or a       *)
(* session to crash.                                                       *)
Fairness ==
    /\ \A w \in Worker : SF_vars(Claim(w)) /\ WF_vars(WorkerStep(w))
    /\ \A c \in Client : WF_vars(CommitClient(c))
    /\ \A s \in Session : SF_vars(EnqueueStep(s))
    /\ \A j \in Job : WF_vars(Ripen(j))
    /\ WF_vars(EndMigration)

FairSpec == Spec /\ Fairness

(* Every queued job is eventually settled, in spite of retries, takeovers, *)
(* lock waits, output moves and a bounded number of crashes.               *)
JobsSettle == \A j \in Job : state[j] \in Active ~> state[j] \in Settled
=============================================================================
