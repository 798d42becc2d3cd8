--------------------------- MODULE RequestPacing ---------------------------
(***************************************************************************)
(* How outgoing provider requests are spaced, and how a saved setting      *)
(* reaches the live process.                                               *)
(*                                                                         *)
(* Two services pace requests.  "metadata" is the transport of MusicBrainz *)
(* and AcoustID: its slots are reserved in a schedule row of the database. *)
(* "lyrics" is the LRCLIB transport: one lookup at a time under a lock,    *)
(* with a pacer in memory and a retry budget.  They share no state but the *)
(* settings, so a behaviour exercises one of them, chosen by Init.         *)
(*                                                                         *)
(* Time is a number of ticks.  It passes only while some call may wait for *)
(* it: a thread whose step is due takes it, except that steps are late by  *)
(* MaxLate ticks in all.  A request of "lyrics" ends within its timeout.   *)
(* Other bounds: MaxEvents for calls, which cost 3, saves and restarts,    *)
(* which cost 2; Hints as Retry-After values.                              *)
(***************************************************************************)
EXTENDS Integers, FiniteSetsExt

CONSTANTS
    Caller,       \* worker threads that fetch from the provider
    Client,       \* clients of the settings API
    Delay,        \* request delays that a client saves, 0 included
    FirstDelay,   \* the delay in force before anybody saves one
    Timeout,      \* lyrics: timeout of one request
    MaxAttempts,  \* lyrics: attempts of one lookup
    Hints,        \* Retry-After values of a provider
    MaxLate, MaxEvents,
    None

\* Among the delays are none at all, the first and a longest one.
ASSUME DelayAssumption ==
    /\ Delay \subseteq Nat /\ {0, FirstDelay} \subseteq Delay
    /\ \E longest \in Delay : \A delay \in Delay : longest >= delay
ASSUME NoneAssumption == None \notin Caller \union Nat
ASSUME TimeoutAssumption == Timeout \in Nat \ {0} /\ MaxAttempts \in Nat \ {0}
ASSUME BoundAssumption == {MaxLate, MaxEvents} \subseteq Nat /\ Hints \subseteq Nat

VARIABLES
    service,    \* the service this behaviour exercises
    now,        \* the clock
    late,       \* for how many ticks a step that was due was not taken
    call,       \* what each caller is doing
    nextStart,  \* the next free slot: next_start_at of the schedule row, or of the pacer
    lock,       \* lyrics: the caller that holds the request lock, or None
    lastEnd,    \* lyrics: when the last lookup ended, or None
    saved,      \* the delay in the settings table
    live,       \* the delay last applied to the process
    save,       \* what each settings client is doing
    overlapped, \* history: saves overlapped, and neither a save alone nor a restart came after
    origin, paced, least, \* history: since when, how many paced requests went out, the least delay
    events      \* how much of the bound MaxEvents is used

calls == <<call, nextStart, lock, lastEnd, origin, paced, least>>
settings == <<saved, live, save, overlapped>>
vars == <<service, now, late, calls, settings, events>>

Idle == [at |-> "idle", attempt |-> 0, delay |-> 0, until |-> 0, deadline |-> 0, since |-> 0]
NoSave == [at |-> "idle", row |-> 0, wanted |-> 0]

\* LiveTransport tries three times.
TransportAttempts == 3
Attempts == IF service = "metadata" THEN TransportAttempts ELSE MaxAttempts
RetryBudget == Timeout * MaxAttempts
LongestDelay == Max(Delay)

Larger(a, b) == IF a > b THEN a ELSE b
Smaller(a, b) == IF a < b THEN a ELSE b

Init ==
    /\ service \in {"metadata", "lyrics"}
    /\ now = 0 /\ late = 0
    /\ call = [c \in Caller |-> Idle]
    /\ nextStart = 0
    /\ lock = None
    /\ lastEnd = None
    /\ saved = FirstDelay
    /\ live = FirstDelay
    /\ save = [w \in Client |-> NoSave]
    /\ overlapped = FALSE
    /\ origin = 0 /\ paced = 0 /\ least = LongestDelay
    /\ events = 0

\* What a call, a save or a restart takes of the bound MaxEvents.
Spend(cost) == events + cost <= MaxEvents /\ events' = events + cost

At(c, places) == call[c].at \in places
Goes(c, at) == [call EXCEPT ![c].at = at]

-----------------------------------------------------------------------------
(* One request: it leaves in its slot and is answered, or fails.           *)

\* The slot has come.  Only a request that was given a slot counts as paced.
Send(c) ==
    /\ At(c, {"paced"})
    /\ now >= call[c].until
    /\ service = "lyrics" => now < call[c].deadline
    /\ LET remaining == IF service = "lyrics" THEN Smaller(Timeout, call[c].deadline - now) ELSE Timeout
       IN call' = [call EXCEPT ![c].at = "sent", ![c].until = now + remaining]
    /\ paced' = IF call[c].delay > 0 THEN paced + 1 ELSE paced
    /\ UNCHANGED <<service, now, late, nextStart, lock, lastEnd, origin, least, settings, events>>

\* Fault: the end of a lookup that has failed leaves the lock behind.
LockedEnd(c) ==
    /\ call' = [call EXCEPT ![c] = Idle]
    /\ lock' = IF lock = c /\ now < call[c].deadline THEN None ELSE lock
    /\ lastEnd' = IF lock = c THEN now ELSE lastEnd
    /\ UNCHANGED <<service, now, late, nextStart, origin, paced, least, settings, events>>
\* A call is over; the lock of a lyrics lookup is released and the end noted, whatever the outcome.
Ended(c) ==
    /\ call' = [call EXCEPT ![c] = Idle]
    /\ lock' = IF lock = c THEN None ELSE lock
    /\ lastEnd' = IF lock = c THEN now ELSE lastEnd
    /\ UNCHANGED <<service, now, late, nextStart, origin, paced, least, settings, events>>

\* A good answer, a refusal that is not retried, any answer to the last attempt or, for lyrics, one
\* that comes when the budget is spent.
Answered(c) == At(c, {"sent"}) /\ Ended(c)

\* Fault: the provider's hint is slept whatever is left of the budget.
PatientRetry(c, hint) ==
    /\ At(c, {"sent"})
    /\ call[c].attempt < Attempts
    /\ service = "lyrics" => call[c].deadline > now
    /\ call' = [call EXCEPT ![c].at = "backoff", ![c].until = now + hint]
    /\ UNCHANGED <<service, now, late, nextStart, lock, lastEnd, origin, paced, least, settings, events>>
\* A status that is retried, with or without a hint; LRCLIB is also retried without an answer.
RetryLater(c, hint) ==
    /\ At(c, {"sent"})
    /\ call[c].attempt < Attempts
    /\ IF service = "metadata"
       THEN call' = [call EXCEPT ![c].at = "backoff", ![c].until = now + hint]
       ELSE /\ call[c].deadline > now
            /\ call' = [call EXCEPT ![c].at = "backoff",
                                    ![c].until = now + Smaller(hint, call[c].deadline - now)]
    /\ UNCHANGED <<service, now, late, nextStart, lock, lastEnd, origin, paced, least, settings, events>>

\* The retry delay is over: the next attempt starts, inside the budget.
TryAgain(c) ==
    /\ At(c, {"backoff"})
    /\ now >= call[c].until
    /\ service = "lyrics" => now < call[c].deadline
    /\ call' = [call EXCEPT ![c].at = IF service = "metadata" THEN "asking" ELSE "turn",
                            ![c].attempt = @ + 1, ![c].until = 0]
    /\ UNCHANGED <<service, now, late, nextStart, lock, lastEnd, origin, paced, least, settings, events>>

\* The budget of a lyrics lookup is spent before, or while, it waits for its next attempt.
OutOfBudget(c) ==
    /\ service = "lyrics"
    /\ \/ At(c, {"turn"})
       \/ At(c, {"paced", "backoff"}) /\ now >= call[c].until
    /\ now >= call[c].deadline
    /\ Ended(c)

-----------------------------------------------------------------------------
(* The slots of MusicBrainz and AcoustID are rows of the database.         *)

StartMetadataGet(c) ==
    /\ service = "metadata" /\ At(c, {"idle"})
    /\ call' = [call EXCEPT ![c].at = "asking", ![c].attempt = 1]
    /\ Spend(3)
    /\ UNCHANGED <<service, now, late, nextStart, lock, lastEnd, origin, paced, least, settings>>

\* A provider whose pacing is switched off in memory is not asked for a slot; else the clock is read.
CheckSwitch(c) ==
    /\ service = "metadata" /\ At(c, {"asking"})
    /\ call' = IF live = 0 THEN [call EXCEPT ![c].at = "paced", ![c].delay = 0, ![c].until = now]
                           ELSE [call EXCEPT ![c].at = "stamped", ![c].until = now]
    /\ UNCHANGED <<service, now, late, nextStart, lock, lastEnd, origin, paced, least, settings, events>>

\* The interval is what the settings table says, whatever the memory says.
ReadInterval(c) ==
    /\ At(c, {"stamped"})
    /\ call' = IF saved = 0 THEN [call EXCEPT ![c].at = "paced", ![c].delay = 0, ![c].until = now]
                            ELSE [call EXCEPT ![c].at = "reserving", ![c].delay = saved]
    /\ UNCHANGED <<service, now, late, nextStart, lock, lastEnd, origin, paced, least, settings, events>>

\* The slot after the last one reserved, and not before the clock that the caller read; the row is
\* locked from the read to the commit.
Slot(seen) == Larger(nextStart, seen)

\* Fault: the slots of others are not looked at.
ImpatientReserve(c, seen, interval) ==
    /\ call' = [call EXCEPT ![c].at = "paced", ![c].delay = interval, ![c].until = seen]
    /\ nextStart' = seen + interval
    /\ least' = IF interval > 0 THEN Smaller(least, interval) ELSE least
Reserve(c, seen, interval) ==
    /\ call' = [call EXCEPT ![c].at = "paced", ![c].delay = interval, ![c].until = Slot(seen)]
    /\ nextStart' = Slot(seen) + interval
    /\ least' = IF interval > 0 THEN Smaller(least, interval) ELSE least

ReserveRow(c) ==
    /\ At(c, {"reserving"})
    /\ Reserve(c, call[c].until, call[c].delay)
    /\ UNCHANGED <<service, now, late, lock, lastEnd, origin, paced, settings, events>>

-----------------------------------------------------------------------------
(* LRCLIB lookups hold one lock from the gap before them to their end.     *)

StartLyricsGet(c) ==
    /\ service = "lyrics" /\ At(c, {"idle"})
    /\ call' = Goes(c, "queued")
    /\ Spend(3)
    /\ UNCHANGED <<service, now, late, nextStart, lock, lastEnd, origin, paced, least, settings>>

\* The lock, then the gap after the lookup before, as long as the delay in force now.
Acquire(c) ==
    /\ At(c, {"queued"}) /\ lock = None
    /\ lock' = c
    /\ call' = [call EXCEPT ![c].at = "gap", ![c].since = now,
                            ![c].until = IF lastEnd = None THEN now ELSE Larger(now, lastEnd + live)]
    /\ UNCHANGED <<service, now, late, nextStart, lastEnd, origin, paced, least, settings, events>>

\* The settings are read again and the retry budget starts to run.
Begin(c) ==
    /\ At(c, {"gap"}) /\ now >= call[c].until
    /\ call' = [call EXCEPT ![c].at = "turn", ![c].attempt = 1, ![c].delay = live, ![c].until = 0,
                            ![c].deadline = now + RetryBudget]
    /\ UNCHANGED <<service, now, late, nextStart, lock, lastEnd, origin, paced, least, settings, events>>

\* Every attempt reserves a slot of the pacer, unless the budget is spent.
TakeTurn(c) ==
    /\ At(c, {"turn"}) /\ now < call[c].deadline
    /\ Reserve(c, now, call[c].delay)
    /\ UNCHANGED <<service, now, late, lock, lastEnd, origin, paced, settings, events>>

-----------------------------------------------------------------------------
(* Settings: a save reads, loads each row again, writes what differs from  *)
(* the row it loaded, commits, and then tells the process.                 *)

SavesUnderWay == {w \in Client : save[w].at # "idle"}

\* PUT /api/settings chooses the delay; PUT /api/settings/matching keeps the one it reads, and then
\* loads the rows to save them.
StartSave(w, delay) ==
    /\ save[w].at = "idle"
    /\ Spend(2)
    /\ save' = [save EXCEPT ![w] = [at |-> "loaded", row |-> saved, wanted |-> delay]]
    /\ overlapped' = (SavesUnderWay # {})
    /\ UNCHANGED <<service, now, late, calls, saved, live>>
StartMatchingSave(w) ==
    /\ save[w].at = "idle"
    /\ Spend(2)
    /\ save' = [save EXCEPT ![w] = [at |-> "read", row |-> saved, wanted |-> saved]]
    /\ overlapped' = (overlapped \/ SavesUnderWay # {})
    /\ UNCHANGED <<service, now, late, calls, saved, live>>
LoadRow(w) ==
    /\ save[w].at = "read"
    /\ save' = [save EXCEPT ![w].row = saved, ![w].at = "kept"]
    /\ UNCHANGED <<service, now, late, calls, saved, live, overlapped, events>>

\* Fault: a saved change waits for the next start of the process.
SilentCommit(w) ==
    /\ save[w].at \in {"loaded", "kept"}
    /\ saved' = IF save[w].wanted # save[w].row THEN save[w].wanted ELSE saved
    /\ save' = [save EXCEPT ![w] = NoSave]
    /\ UNCHANGED <<service, now, late, calls, live, overlapped, events>>
\* The row is written if it changes; only PUT /api/settings then calls back.
Commit(w) ==
    /\ save[w].at \in {"loaded", "kept"}
    /\ saved' = IF save[w].wanted # save[w].row THEN save[w].wanted ELSE saved
    /\ save' = [save EXCEPT ![w] = IF @.at = "loaded" THEN [@ EXCEPT !.at = "committed"] ELSE NoSave]
    /\ UNCHANGED <<service, now, late, calls, live, overlapped, events>>

Apply(w) ==
    /\ save[w].at = "committed"
    /\ live' = save[w].wanted
    /\ save' = [save EXCEPT ![w] = NoSave]
    /\ UNCHANGED <<service, now, late, calls, saved, overlapped, events>>

-----------------------------------------------------------------------------
(* The process and the clock.                                              *)

\* Seeding the schedule at startup leaves a row that exists alone; the pacer forgets.
SlotAfterRestart == IF service = "metadata" THEN nextStart ELSE now
Restart ==
    /\ Spend(2)
    /\ call' = [c \in Caller |-> Idle]
    /\ lock' = None /\ lastEnd' = None
    /\ nextStart' = SlotAfterRestart
    /\ origin' = IF service = "metadata" THEN origin ELSE now
    /\ paced' = IF service = "metadata" THEN paced ELSE 0
    /\ live' = saved
    /\ save' = [w \in Client |-> NoSave]
    /\ overlapped' = FALSE
    /\ UNCHANGED <<service, now, late, least, saved>>

\* A caller sleeps, or a request is out; the step of a caller could be taken now.
Waits(c) == At(c, {"gap", "paced", "sent", "backoff"})
Due(c) ==
    \/ At(c, {"asking", "stamped", "reserving", "turn"})
    \/ At(c, {"queued"}) /\ lock = None
    \/ Waits(c) /\ now >= call[c].until

Tick ==
    /\ \E c \in Caller : Waits(c) \/ Due(c)
    /\ now' = now + 1
    /\ late' = IF \E c \in Caller : Due(c) THEN late + 1 ELSE late
    /\ late' <= MaxLate
    /\ UNCHANGED <<service, call, nextStart, lock, lastEnd, origin, paced, least, settings, events>>

-----------------------------------------------------------------------------
CallStep(c) ==
    \/ Send(c) \/ Answered(c) \/ TryAgain(c) \/ OutOfBudget(c)
    \/ \E hint \in Hints : RetryLater(c, hint)
    \/ CheckSwitch(c) \/ ReadInterval(c) \/ ReserveRow(c)
    \/ Acquire(c) \/ Begin(c) \/ TakeTurn(c)

SaveStep(w) == LoadRow(w) \/ Commit(w) \/ Apply(w)

Next ==
    \/ \E c \in Caller : StartMetadataGet(c) \/ StartLyricsGet(c) \/ CallStep(c)
    \/ \E w \in Client : SaveStep(w) \/ StartMatchingSave(w) \/ \E delay \in Delay : StartSave(w, delay)
    \/ Restart
    \/ Tick

Spec == Init /\ [][Next]_vars

\* Threads run, the clock advances, requests end.  Nobody has to start a call, save or restart.
Fairness ==
    /\ WF_vars(Tick)
    /\ \A c \in Caller : WF_vars(CallStep(c))
FairSpec == Spec /\ Fairness

-----------------------------------------------------------------------------
TypeOK ==
    /\ service \in {"metadata", "lyrics"}
    /\ {now, late, nextStart, saved, live, origin, paced, least, events} \subseteq Nat
    /\ call \in [Caller -> [at : {"idle", "asking", "stamped", "reserving", "queued", "gap", "turn",
                                  "paced", "sent", "backoff"},
                            attempt : 0 .. Larger(TransportAttempts, MaxAttempts), delay : Delay,
                            until : Nat, deadline : Nat, since : Nat]]
    /\ lock \in Caller \union {None}
    /\ lastEnd \in Nat \union {None}
    /\ save \in [Client -> [at : {"idle", "read", "loaded", "kept", "committed"},
                            row : Delay, wanted : Delay]]
    /\ overlapped \in BOOLEAN

\* However many threads and retries there are, however the delay changes and however often the
\* process starts again, paced requests never outrun the least delay that was in force: by the time
\* the n-th one leaves, n - 1 delays have passed.  (Reservations of wait / wait_for_turn.)
RateHeld == paced > 0 => (paced - 1) * least <= now - origin

\* One LRCLIB lookup cannot keep the others waiting longer than the gap before it, its retry
\* budget, and one slot of the pacer that was reserved under the longest delay.
BudgetKept == lock # None => now - call[lock].since <= 2 * LongestDelay + RetryBudget + MaxLate

\* A saved delay is the delay in force, on disk and in memory, when no save is under way.  Saves
\* that overlap may leave the two different, for as long as no PUT /api/settings without another
\* save beside it and no restart follows: either brings them together again, whatever came before.
SavedIsLive == ~overlapped /\ SavesUnderWay = {} => live = saved

\* Every call of a provider returns, whatever the provider answers.
EveryGetReturns == \A c \in Caller : ~At(c, {"idle"}) ~> At(c, {"idle"})
=============================================================================
