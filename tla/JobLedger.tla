----------------------------- MODULE JobLedger -----------------------------
(***************************************************************************)
(* What the job queue promises to anyone who reads its committed rows:     *)
(* an attempt and everything it enqueues happen at once, a failed attempt  *)
(* leaves nothing but its record, a lost one leaves nothing at all.        *)
(* JobQueue implements this specification.                                 *)
(***************************************************************************)
EXTENDS Integers, Sequences

CONSTANTS Job, NoJob, Key, NoKey,
          Guarded,     \* keys with at most one active job
          Identity,    \* keys whose active job a newer request may retire
          Requeuable,  \* keys whose settled jobs an operator may reopen
          MaxAttempts

VARIABLES status,  \* state of each job
          log,     \* outcomes of its attempts, oldest first
          target   \* what each existing job was enqueued for

ledger == <<status, log, target>>

Active == {"queued", "running"}
Settled == {"completed", "quarantined", "blocked_infrastructure", "superseded"}

Init ==
    /\ status \in [Job -> {"absent", "running"}]
    /\ target \in [Job -> Key \union {NoKey}]
    /\ log \in [Job -> {<<>>, <<"running">>, <<"retry_wait", "running">>}]
    /\ \A j \in Job : /\ target[j] # NoKey <=> status[j] = "running"
                      /\ log[j] # <<>> <=> status[j] = "running"
    /\ \A i, j \in Job : target[i] = target[j] /\ target[i] # NoKey => i = j

(* One active job per guarded key once the step is done.                   *)
Unambiguous(k) ==
    k \in Guarded =>
        \A i, j \in Job : /\ target'[i] = k /\ target'[j] = k
                          /\ status'[i] \in Active /\ status'[j] \in Active
                          => i = j

(* Row r is retired and row n is enqueued for k; either may be NoJob.      *)
Enqueue(r, n, k) ==
    /\ r # NoJob => target[r] \in Identity
    /\ n # NoJob => target[n] = NoKey
    /\ target' = IF n = NoJob THEN target ELSE [target EXCEPT ![n] = k]
    /\ Unambiguous(k)

StatusAfter(r, n) ==
    [j \in Job |-> IF j = n THEN "queued"
                   ELSE IF j = r THEN "superseded" ELSE status[j]]

(* The attempts of j before its present one; a stale one was interrupted.  *)
Past(j) ==
    IF status[j] = "running"
    THEN [log[j] EXCEPT ![Len(log[j])] = "interrupted"]
    ELSE log[j]

Record(j, mark) == log' = [log EXCEPT ![j] = Append(Past(j), mark)]

(* A successful attempt of j completes or supersedes it and may enqueue.   *)
Succeed(j) ==
    /\ status[j] \in Active
    /\ Record(j, "succeeded")
    /\ \E r, n \in (Job \ {j}) \union {NoJob}, k \in Key,
          own \in {"completed", "superseded"} :
         /\ status' = [StatusAfter(r, n) EXCEPT ![j] = own]
         /\ Enqueue(r, n, k)

(* A failed attempt is recorded and nothing else happens; it is retried    *)
(* while the budget lasts.                                                 *)
FailAttempt(j) ==
    /\ status[j] \in Active
    /\ \/ /\ Record(j, "quarantined")
          /\ status' = [status EXCEPT ![j] = "quarantined"]
       \/ /\ Record(j, "retry_wait") /\ Len(log[j]) + 1 < MaxAttempts
          /\ status' = [status EXCEPT ![j] = "queued"]
       \/ /\ Record(j, "blocked_infrastructure") /\ Len(log[j]) + 1 >= MaxAttempts
          /\ status' = [status EXCEPT ![j] = "blocked_infrastructure"]
    /\ UNCHANGED target

(* A request of a client or of the scheduler.                              *)
Ask ==
    /\ \E r, n \in Job \union {NoJob}, k \in Key :
         status' = StatusAfter(r, n) /\ Enqueue(r, n, k)
    /\ UNCHANGED log

Reopen(j) ==
    /\ status[j] \in Settled /\ target[j] \in Requeuable
    /\ status' = [status EXCEPT ![j] = "queued"]
    /\ UNCHANGED <<log, target>>
    /\ Unambiguous(target[j])

Next == Ask \/ \E j \in Job : Succeed(j) \/ FailAttempt(j) \/ Reopen(j)

Spec == Init /\ [][Next]_ledger
=============================================================================
