------------------------ MODULE RequestPacingProofs ------------------------
(* Proofs about request pacing, for any threads, clients, delays, timeouts,*)
(* hints and bounds.                                                       *)
EXTENDS RequestPacing, FiniteSetTheorems, TLAPS

(* The delays have a longest one.                                          *)
LEMMA Longest ==
    /\ LongestDelay \in Delay /\ LongestDelay \in Nat
    /\ \A delay \in Delay : delay \in Nat /\ delay <= LongestDelay
<1>1. PICK longest \in Delay : \A delay \in Delay : longest >= delay
  BY DelayAssumption
<1>2. LongestDelay \in Delay /\ \A delay \in Delay : LongestDelay >= delay
  BY <1>1 DEF LongestDelay, Max
<1>3. QED
  BY <1>2, DelayAssumption

-----------------------------------------------------------------------------
(* Settings.                                                               *)
Saving == {"idle", "read", "loaded", "kept", "committed"}
SaveType ==
    /\ saved \in Delay /\ live \in Delay
    /\ save \in [Client -> [at : Saving, row : Delay, wanted : Delay]]

(* A save that is alone finds what it has loaded; one that will not tell   *)
(* the process began when memory was what the row is.                      *)
SaveAlone(w) ==
    /\ \A v \in Client \ {w} : save[v].at = "idle"
    /\ save[w].at \in {"read", "loaded", "kept"} => save[w].row = saved
    /\ save[w].at \in {"read", "kept"} => save[w].wanted = saved /\ live = saved
    /\ save[w].at = "committed" => save[w].wanted = saved
SettingsInv ==
    /\ SaveType
    /\ ~overlapped => \A w \in Client : save[w].at # "idle" => SaveAlone(w)
    /\ SavedIsLive

(* The initial settings.                                                   *)
LEMMA InitSettings == Init => SettingsInv
BY DelayAssumption DEF Init, SettingsInv, SaveType, SaveAlone, SavedIsLive, Saving, NoSave

(* The steps of a save.                                                    *)
LEMMA StartSaveKeeps ==
    ASSUME SettingsInv, NEW w \in Client, NEW s \in [at : {"loaded", "read"}, row : {saved}, wanted : Delay],
           save[w].at = "idle", save' = [save EXCEPT ![w] = s],
           s.at = "read" => s.wanted = saved,
           overlapped' = ((s.at = "read" /\ overlapped) \/ SavesUnderWay # {}),
           UNCHANGED <<saved, live>>
    PROVE  SettingsInv'
<1> USE DEF SettingsInv
<1>1. SaveType'
  BY DEF SaveType, Saving
<1>2. \A v \in Client \ {w} : save'[v] = save[v]
  BY DEF SaveType
<1>3. save'[w] = s
  BY DEF SaveType
<1>4. ~overlapped' => /\ s.at = "read" => ~overlapped
                      /\ \A v \in Client : save[v].at = "idle"
  BY DEF SavesUnderWay
<1>5. ~overlapped' /\ s.at = "read" => live = saved
  BY <1>4 DEF SavedIsLive, SavesUnderWay
<1>6. ~overlapped' => \A v \in Client : save'[v].at # "idle" => SaveAlone(v)'
  BY <1>2, <1>3, <1>4, <1>5 DEF SaveAlone
<1>7. SavedIsLive'
  BY <1>3 DEF SavedIsLive, SavesUnderWay
<1>8. QED
  BY <1>1, <1>6, <1>7

(* The later steps of a save: while it is alone, it only moves on.         *)
LEMMA SaveStepKeeps ==
    ASSUME SettingsInv, NEW w \in Client, SaveStep(w)
    PROVE  SettingsInv'
<1> USE DEF SettingsInv, SaveStep, LoadRow, Commit, Apply
<1>1. SaveType'
  BY DelayAssumption DEF SaveType, Saving, NoSave
<1>2. /\ \A v \in Client \ {w} : save'[v] = save[v]
      /\ save[w].at # "idle" /\ overlapped' = overlapped
      /\ save[w].row \in Delay /\ save[w].wanted \in Delay
  BY DEF SaveType
<1>3. CASE LoadRow(w)
  <2>1. save'[w].at = "kept" /\ save'[w].row = saved /\ save'[w].wanted = save[w].wanted
    BY <1>3 DEF SaveType
  <2>2. UNCHANGED <<saved, live>> /\ save[w].at = "read"
    BY <1>3
  <2>3. ~overlapped' => \A v \in Client : save'[v].at # "idle" => SaveAlone(v)'
    BY <1>2, <2>1, <2>2 DEF SaveAlone
  <2>4. SavedIsLive'
    BY <2>1 DEF SavedIsLive, SavesUnderWay
  <2>5. QED
    BY <1>1, <2>3, <2>4
<1>4. CASE Commit(w)
  <2>1. /\ save[w].at \in {"loaded", "kept"} /\ live' = live
        /\ saved' = IF save[w].wanted # save[w].row THEN save[w].wanted ELSE saved
        /\ save'[w] = IF save[w].at = "loaded" THEN [save[w] EXCEPT !.at = "committed"] ELSE NoSave
    BY <1>4 DEF SaveType
  <2>2. /\ save[w].at = "loaded" => save'[w].at = "committed" /\ save'[w].wanted = save[w].wanted
        /\ save[w].at = "kept" => save'[w].at = "idle"
    BY <2>1 DEF SaveType, NoSave
  <2>3. ~overlapped => /\ SaveAlone(w) /\ save[w].row = saved
                       /\ saved' = save[w].wanted
                       /\ save[w].at = "kept" => saved' = saved /\ live = saved
    BY <1>2, <2>1 DEF SaveAlone
  <2>4. ~overlapped' => \A v \in Client : save'[v].at # "idle" => SaveAlone(v)'
    BY <1>2, <2>1, <2>2, <2>3 DEF SaveAlone
  <2>5. SavedIsLive'
    BY <1>2, <2>1, <2>2, <2>3 DEF SavedIsLive, SavesUnderWay
  <2>6. QED
    BY <1>1, <2>4, <2>5
<1>5. CASE Apply(w)
  <2>1. /\ save[w].at = "committed" /\ live' = save[w].wanted /\ saved' = saved
        /\ save'[w].at = "idle"
    BY <1>5 DEF SaveType, NoSave
  <2>2. ~overlapped => SaveAlone(w) /\ live' = saved'
    BY <1>2, <2>1 DEF SaveAlone
  <2>3. ~overlapped' => \A v \in Client : save'[v].at = "idle"
    BY <1>2, <2>1, <2>2 DEF SaveAlone
  <2>4. QED
    BY <1>1, <1>2, <2>2, <2>3 DEF SavedIsLive
<1>6. QED
  BY <1>3, <1>4, <1>5

(* Every other step leaves the settings alone, or starts the process.      *)
LEMMA NextSettings == SettingsInv /\ [Next]_vars => SettingsInv'
<1> SUFFICES ASSUME SettingsInv, [Next]_vars PROVE SettingsInv'
  OBVIOUS
<1>1. CASE UNCHANGED settings
  BY <1>1 DEF settings, SettingsInv, SaveType, SaveAlone, SavedIsLive, SavesUnderWay
<1>2. ASSUME NEW c \in Caller, StartMetadataGet(c) \/ StartLyricsGet(c) \/ CallStep(c)
      PROVE  UNCHANGED settings
  BY <1>2 DEF StartMetadataGet, StartLyricsGet, CallStep, Send, Answered, Ended, TryAgain, OutOfBudget,
              RetryLater, CheckSwitch, ReadInterval, ReserveRow, Acquire, Begin, TakeTurn
<1>3. ASSUME NEW w \in Client, SaveStep(w) PROVE SettingsInv'
  BY <1>3, SaveStepKeeps
<1>4. ASSUME NEW w \in Client, StartMatchingSave(w) PROVE SettingsInv'
  <2>1. saved \in Delay
    BY DEF SettingsInv, SaveType
  <2>2. QED
    BY <1>4, <2>1, StartSaveKeeps DEF StartMatchingSave
<1>5. ASSUME NEW w \in Client, NEW delay \in Delay, StartSave(w, delay) PROVE SettingsInv'
  BY <1>5, StartSaveKeeps DEF StartSave
<1>6. CASE Restart
  <2>1. \A w \in Client : save'[w] = NoSave
    BY <1>6 DEF Restart
  <2>2. live' = saved /\ saved' = saved
    BY <1>6 DEF Restart
  <2>3. SaveType'
    BY <1>6, DelayAssumption DEF Restart, SettingsInv, SaveType, NoSave, Saving
  <2>4. QED
    BY <2>1, <2>2, <2>3 DEF SettingsInv, SavedIsLive, NoSave
<1>7. CASE Tick
  BY <1>1, <1>7 DEF Tick
<1>8. QED
  BY <1>1, <1>2, <1>3, <1>4, <1>5, <1>6, <1>7 DEF Next, vars

(* After a save that no other overlaps, and after every start of the       *)
(* process, the delay in force is the one in the settings table, whatever  *)
(* saves overlapped before.                                                *)
THEOREM SettingsApplied == Spec => []SavedIsLive
<1>1. SettingsInv => SavedIsLive
  BY DEF SettingsInv
<1>2. QED
  BY <1>1, InitSettings, NextSettings, PTL DEF Spec

-----------------------------------------------------------------------------
(* The clock.                                                              *)
Held == {"gap", "turn", "paced", "sent", "backoff"}
ClockType ==
    /\ {now, late, nextStart} \subseteq Nat /\ late <= MaxLate
    /\ service \in {"metadata", "lyrics"}
    /\ call \in [Caller -> [at : {"idle", "asking", "stamped", "reserving", "queued"} \union Held,
                            attempt : Nat, delay : Delay, until : Nat, deadline : Nat, since : Nat]]
    /\ lock \in Caller \union {None}
    /\ lastEnd \in Nat \union {None}

(* The call that holds the lock is never later than its place allows: it   *)
(* waits for a known moment, and when that has come every further tick is  *)
(* one of the MaxLate.                                                     *)
GapEnd(h) == h.since + LongestDelay
LookupEnd(h) == GapEnd(h) + RetryBudget + late
OnTime(h) ==
    /\ h.at \in Held
    /\ now <= LookupEnd(h) + LongestDelay
    /\ h.at # "paced" => nextStart <= now + LongestDelay
    /\ h.at = "gap" => h.until <= GapEnd(h) /\ now <= GapEnd(h) + late
    /\ h.at # "gap" => h.deadline <= LookupEnd(h)
    /\ h.at = "turn" => now <= LookupEnd(h)
    /\ h.at = "paced" => h.until <= h.deadline + LongestDelay /\ nextStart <= h.until + LongestDelay
    /\ h.at \in {"sent", "backoff"} => h.until <= h.deadline

HolderInv ==
    IF service = "metadata"
    THEN lock = None /\ \A c \in Caller : call[c].at \notin {"queued", "gap", "turn"}
    ELSE /\ \A c \in Caller : c # lock => call[c].at \in {"idle", "queued"}
         /\ lock = None => nextStart <= now + LongestDelay
         /\ lastEnd # None => lastEnd <= now
         /\ lock # None => OnTime(call[lock])

ClockInv == ClockType /\ SaveType /\ HolderInv

(* Sums of the bounds are counts.                                          *)
LEMMA Counts == {LongestDelay, RetryBudget, Timeout, MaxLate} \subseteq Nat
BY Longest, TimeoutAssumption, BoundAssumption DEF RetryBudget

(* The initial state.                                                      *)
LEMMA InitClock == Init => ClockInv
BY Counts, DelayAssumption, BoundAssumption
   DEF Init, ClockInv, ClockType, HolderInv, Idle, Held, SaveType, Saving, NoSave

(* A step of one call that keeps clock and settings: what has to be shown  *)
(* is its own new place.                                                   *)
LEMMA CallMoves ==
    ASSUME ClockInv, NEW c \in Caller,
           NEW h \in [at : {"idle", "asking", "stamped", "reserving", "queued"} \union Held,
                     attempt : Nat, delay : Delay, until : Nat, deadline : Nat, since : Nat],
           call' = [call EXCEPT ![c] = h], nextStart' \in Nat, lock' \in {lock, c, None},
           lastEnd' \in {lastEnd, now},
           UNCHANGED <<service, now, late, settings>>,
           service = "metadata" => lock' = None /\ h.at \notin {"queued", "gap", "turn"},
           service = "lyrics" =>
             /\ lock \in {c, None} \/ (lock' = lock /\ h.at \in {"idle", "queued"} /\ nextStart' = nextStart)
             /\ lock' # c => h.at \in {"idle", "queued"}
             /\ lock' = None => nextStart' <= now + LongestDelay
             /\ lock' = c => OnTime(h)'
    PROVE  ClockInv'
<1> USE DEF ClockInv, settings
<1>1. ClockType' /\ SaveType'
  BY DEF ClockType, SaveType
<1>2. \A d \in Caller : call'[d] = IF d = c THEN h ELSE call[d]
  BY DEF ClockType
<1>3. CASE service = "metadata"
  BY <1>1, <1>2, <1>3 DEF HolderInv
<1>4. CASE service = "lyrics"
  <2>1. \A d \in Caller : d # lock' => call'[d].at \in {"idle", "queued"}
    BY <1>2, <1>4, NoneAssumption DEF HolderInv, ClockType
  <2>2. lastEnd' # None => lastEnd' <= now'
    BY <1>4 DEF HolderInv, ClockType
  <2>3. lock' # None => OnTime(call[lock])'
    <3>1. CASE lock' = c
      BY <1>2, <1>4, <3>1 DEF OnTime, GapEnd, LookupEnd
    <3>2. CASE lock' # c /\ lock' # None
      <4>1. lock' = lock /\ nextStart' = nextStart /\ call'[lock] = call[lock] /\ lock # None
        BY <1>2, <1>4, <3>2 DEF ClockType
      <4>2. OnTime(call[lock])
        BY <1>4, <4>1 DEF HolderInv
      <4>3. QED
        BY <4>1, <4>2 DEF OnTime, GapEnd, LookupEnd
    <3>3. QED
      BY <3>1, <3>2
  <2>4. QED
    BY <1>1, <1>4, <2>1, <2>2, <2>3 DEF HolderInv
<1>5. QED
  BY <1>3, <1>4 DEF ClockType

(* The fields of a call, and where the holder of the lock may be.          *)
Place == {"idle", "asking", "stamped", "reserving", "queued"} \union Held
Calls == [at : Place, attempt : Nat, delay : Delay, until : Nat, deadline : Nat, since : Nat]
LEMMA Holder ==
    ASSUME ClockInv, NEW c \in Caller
    PROVE  /\ call[c] \in Calls /\ c # None
           /\ service = "lyrics" /\ call[c].at \notin {"idle", "queued"} =>
                lock = c /\ OnTime(call[c])
           /\ service = "metadata" => lock = None /\ call[c].at \notin {"queued", "gap", "turn"}
BY NoneAssumption DEF ClockInv, ClockType, HolderInv, Calls, Place

(* A call ends: the lock is free, and no slot lies far ahead.              *)
LEMMA EndKeeps ==
    ASSUME ClockInv, NEW c \in Caller, Answered(c) \/ OutOfBudget(c)
    PROVE  ClockInv'
<1> USE DEF Answered, OutOfBudget, Ended, At
<1>1. /\ Idle \in Calls /\ Idle.at = "idle"
      /\ call' = [call EXCEPT ![c] = Idle]
  BY DelayAssumption DEF Idle, Calls, Place
<1>2. call[c].at \in {"sent", "turn", "paced", "backoff"}
  OBVIOUS
<1>3. ASSUME service = "lyrics"
      PROVE  lock = c /\ nextStart <= now + LongestDelay
  <2>1. lock = c /\ OnTime(call[c]) /\ call[c] \in Calls
    BY <1>2, <1>3, Holder
  <2>2. call[c].at = "paced" => now >= call[c].until
    OBVIOUS
  <2>3. QED
    BY <2>1, <2>2, Counts DEF OnTime, ClockInv, ClockType, Calls
<1>4. /\ lock' \in {lock, c, None} /\ lastEnd' \in {lastEnd, now} /\ nextStart' = nextStart
      /\ nextStart \in Nat /\ UNCHANGED <<service, now, late, settings>>
      /\ service = "lyrics" => lock' = None
      /\ service = "metadata" => lock' = None
  BY <1>3, Holder DEF ClockInv, ClockType
<1>5. PICK h \in Calls : h = Idle
  BY <1>1
<1>6. QED
  BY <1>1, <1>3, <1>4, <1>5, CallMoves, Holder DEF Calls, Place

(* A call goes from one waiting place to the next.                         *)
LEMMA SendKeeps ==
    ASSUME ClockInv, NEW c \in Caller, Send(c)
    PROVE  ClockInv'
<1> USE DEF Send, At
<1> DEFINE wait == IF service = "lyrics" THEN Smaller(Timeout, call[c].deadline - now) ELSE Timeout
<1>1. /\ wait \in Nat /\ now + wait \in Nat
      /\ service = "lyrics" => now + wait <= call[c].deadline
  <2>1. call[c].deadline \in Nat /\ now \in Nat /\ Timeout \in Nat
    BY Holder, Counts DEF Calls, ClockInv, ClockType
  <2>2. QED
    BY <2>1 DEF Smaller
<1>2. call' = [call EXCEPT ![c].at = "sent", ![c].until = now + wait]
  OBVIOUS
<1> HIDE DEF wait
<1>3. PICK h \in Calls : h = [call[c] EXCEPT !.at = "sent", !.until = now + wait]
  BY <1>1, Holder DEF Calls, Place, Held
<1>4. /\ h.at = "sent" /\ h.until = now + wait /\ h.deadline = call[c].deadline
      /\ h.since = call[c].since /\ call' = [call EXCEPT ![c] = h]
  BY <1>2, <1>3, Holder DEF Calls, ClockInv, ClockType
<1>5. ASSUME service = "lyrics"
      PROVE  lock = c /\ OnTime(h)'
  <2>1. lock = c /\ OnTime(call[c]) /\ call[c] \in Calls
    BY <1>5, Holder
  <2>2. QED
    BY <1>1, <1>4, <1>5, <2>1, Counts
       DEF OnTime, GapEnd, LookupEnd, Held, Calls, ClockInv, ClockType
<1>6. nextStart' \in Nat /\ UNCHANGED <<service, now, late, settings, lock, lastEnd>>
  BY DEF ClockInv, ClockType
<1> HIDE DEF Send, At
<1>7. QED
  BY <1>4, <1>5, <1>6, CallMoves, Holder DEF Calls, Place, ClockInv, ClockType

(* A hint of the provider is cut to what is left of the budget.            *)
LEMMA RetryKeeps ==
    ASSUME ClockInv, NEW c \in Caller, NEW hint \in Hints, RetryLater(c, hint)
    PROVE  ClockInv'
<1> USE DEF RetryLater, At
<1> DEFINE rest == IF service = "metadata" THEN hint ELSE Smaller(hint, call[c].deadline - now)
<1>1. /\ rest \in Nat /\ now + rest \in Nat
      /\ service = "lyrics" => now + rest <= call[c].deadline
  <2>1. call[c].deadline \in Nat /\ now \in Nat /\ hint \in Nat
    BY Holder, BoundAssumption DEF Calls, ClockInv, ClockType
  <2>2. QED
    BY <2>1 DEF Smaller
<1>2. call' = [call EXCEPT ![c].at = "backoff", ![c].until = now + rest]
  BY DEF ClockInv, ClockType
<1> HIDE DEF rest
<1>3. PICK h \in Calls : h = [call[c] EXCEPT !.at = "backoff", !.until = now + rest]
  BY <1>1, Holder DEF Calls, Place, Held
<1>4. /\ h.at = "backoff" /\ h.until = now + rest /\ h.deadline = call[c].deadline
      /\ h.since = call[c].since /\ call' = [call EXCEPT ![c] = h]
  BY <1>2, <1>3, Holder DEF Calls, ClockInv, ClockType
<1>5. ASSUME service = "lyrics"
      PROVE  lock = c /\ OnTime(h)'
  <2>1. lock = c /\ OnTime(call[c]) /\ call[c] \in Calls
    BY <1>5, Holder
  <2>2. QED
    BY <1>1, <1>4, <1>5, <2>1, Counts
       DEF OnTime, GapEnd, LookupEnd, Held, Calls, ClockInv, ClockType
<1>6. nextStart' \in Nat /\ UNCHANGED <<service, now, late, settings, lock, lastEnd>>
  BY DEF ClockInv, ClockType
<1>7. QED
  BY <1>4, <1>5, <1>6, CallMoves, Holder DEF Calls, Place, ClockInv, ClockType

(* The next attempt starts inside the budget.                              *)
LEMMA TryAgainKeeps ==
    ASSUME ClockInv, NEW c \in Caller, TryAgain(c)
    PROVE  ClockInv'
<1> USE DEF TryAgain, At
<1>1. PICK at \in {"asking", "turn"} :
        at = IF service = "metadata" THEN "asking" ELSE "turn"
  OBVIOUS
<1>2. PICK h \in Calls : h = [call[c] EXCEPT !.at = at, !.attempt = @ + 1, !.until = 0]
  BY Holder DEF Calls, Place, Held, ClockInv, ClockType
<1>3. /\ h.at = at /\ h.deadline = call[c].deadline
      /\ h.since = call[c].since /\ call' = [call EXCEPT ![c] = h]
  BY <1>1, <1>2, Holder DEF Calls, ClockInv, ClockType
<1>4. ASSUME service = "lyrics"
      PROVE  lock = c /\ OnTime(h)'
  <2>1. lock = c /\ OnTime(call[c]) /\ call[c] \in Calls
    BY <1>4, Holder
  <2>2. QED
    BY <1>1, <1>3, <1>4, <2>1, Counts
       DEF OnTime, GapEnd, LookupEnd, Held, Calls, ClockInv, ClockType
<1>5. nextStart' \in Nat /\ UNCHANGED <<service, now, late, settings, lock, lastEnd>>
  BY DEF ClockInv, ClockType
<1>6. QED
  BY <1>1, <1>3, <1>4, <1>5, CallMoves, Holder DEF Calls, Place, ClockInv, ClockType

(* MusicBrainz and AcoustID: the lock plays no part.                       *)
LEMMA MetadataKeeps ==
    ASSUME ClockInv, NEW c \in Caller,
           StartMetadataGet(c) \/ CheckSwitch(c) \/ ReadInterval(c) \/ ReserveRow(c)
    PROVE  ClockInv'
<1>1. /\ call[c] \in Calls /\ {live, saved} \subseteq Delay /\ {now, nextStart} \subseteq Nat
      /\ Delay \subseteq Nat
  BY Holder, DelayAssumption DEF ClockInv, ClockType, SaveType
<1>2. /\ service = "metadata" /\ lock' = lock /\ lock = None /\ lastEnd' = lastEnd
      /\ UNCHANGED <<service, now, late, settings>>
  <2>1. service = "lyrics" => call[c].at \in {"idle", "queued"} \union Held
    BY Holder DEF OnTime
  <2>2. QED
    BY <2>1, Holder
       DEF At, StartMetadataGet, CheckSwitch, ReadInterval, ReserveRow, Held, ClockInv, ClockType
<1>3. \E h \in Calls : call' = [call EXCEPT ![c] = h] /\ h.at \notin {"queued", "gap", "turn"}
  <2>1. CASE StartMetadataGet(c)
    <3>1. PICK h \in Calls : h = [call[c] EXCEPT !.at = "asking", !.attempt = 1]
      BY <1>1 DEF Calls, Place
    <3>2. call' = [call EXCEPT ![c] = h] /\ h.at = "asking"
      BY <1>1, <2>1, <3>1 DEF StartMetadataGet, Calls, ClockInv, ClockType
    <3>3. QED
      BY <3>2
  <2>2. CASE CheckSwitch(c)
    <3>1. PICK h \in Calls :
            h = IF live = 0 THEN [call[c] EXCEPT !.at = "paced", !.delay = 0, !.until = now]
                ELSE [call[c] EXCEPT !.at = "stamped", !.until = now]
      BY <1>1, DelayAssumption DEF Calls, Place, Held
    <3>2. call' = [call EXCEPT ![c] = h] /\ h.at \in {"paced", "stamped"}
      BY <1>1, <2>2, <3>1 DEF CheckSwitch, Calls, ClockInv, ClockType
    <3>3. QED
      BY <3>2
  <2>3. CASE ReadInterval(c)
    <3>1. PICK h \in Calls :
            h = IF saved = 0 THEN [call[c] EXCEPT !.at = "paced", !.delay = 0, !.until = now]
                ELSE [call[c] EXCEPT !.at = "reserving", !.delay = saved]
      BY <1>1, DelayAssumption DEF Calls, Place, Held
    <3>2. call' = [call EXCEPT ![c] = h] /\ h.at \in {"paced", "reserving"}
      BY <1>1, <2>3, <3>1 DEF ReadInterval, Calls, ClockInv, ClockType
    <3>3. QED
      BY <3>2
  <2>4. CASE ReserveRow(c)
    <3>1. PICK h \in Calls :
            h = [call[c] EXCEPT !.at = "paced", !.delay = call[c].delay, !.until = Slot(call[c].until)]
      BY <1>1 DEF Calls, Place, Held, Slot, Larger
    <3>2. call' = [call EXCEPT ![c] = h] /\ h.at = "paced"
      BY <1>1, <2>4, <3>1 DEF ReserveRow, Reserve, Calls, ClockInv, ClockType
    <3>3. QED
      BY <3>2
  <2>5. QED
    BY <2>1, <2>2, <2>3, <2>4
<1>4. nextStart' \in Nat
  BY <1>1 DEF StartMetadataGet, CheckSwitch, ReadInterval, ReserveRow, Reserve, Slot, Larger, Calls
<1>5. PICK h \in Calls : call' = [call EXCEPT ![c] = h] /\ h.at \notin {"queued", "gap", "turn"}
  BY <1>3
<1>6. QED
  BY <1>2, <1>4, <1>5, CallMoves DEF Calls, Place

(* LRCLIB: the lock, the gap, the settings and the slot.                   *)
LEMMA LyricsKeeps ==
    ASSUME ClockInv, NEW c \in Caller,
           StartLyricsGet(c) \/ Acquire(c) \/ Begin(c) \/ TakeTurn(c)
    PROVE  ClockInv'
<1>1. /\ call[c] \in Calls /\ live \in Delay /\ {now, nextStart, late} \subseteq Nat
      /\ Delay \subseteq Nat /\ c # None
  BY Holder, DelayAssumption DEF ClockInv, ClockType, SaveType
<1>2. service = "lyrics"
  BY Holder DEF StartLyricsGet, Acquire, Begin, TakeTurn, At, ClockInv, ClockType
<1>3. /\ lastEnd' = lastEnd /\ UNCHANGED <<service, now, late, settings>>
  BY DEF StartLyricsGet, Acquire, Begin, TakeTurn
<1>4. CASE StartLyricsGet(c)
  <2>1. PICK h \in Calls : h = [call[c] EXCEPT !.at = "queued"]
    BY <1>1 DEF Calls, Place
  <2>2. /\ call' = [call EXCEPT ![c] = h] /\ h.at = "queued"
        /\ lock' = lock /\ nextStart' = nextStart
    BY <1>1, <1>4, <2>1 DEF StartLyricsGet, Goes, Calls, ClockInv, ClockType
  <2>3. lock # c /\ (lock = None => nextStart <= now + LongestDelay)
    BY <1>1, <1>2, <1>4 DEF StartLyricsGet, At, ClockInv, HolderInv, OnTime, Held
  <2>4. QED
    BY <1>1, <1>2, <1>3, <2>2, <2>3, CallMoves DEF Calls, Place
<1>5. CASE Acquire(c)
  <2>1. PICK start \in Nat : start = IF lastEnd = None THEN now ELSE Larger(now, lastEnd + live)
    BY <1>1 DEF Larger, ClockInv, ClockType
  <2>2. now <= start /\ start <= now + LongestDelay
    <3>1. live <= LongestDelay /\ live \in Nat
      BY <1>1, Longest
    <3>2. lastEnd # None => lastEnd <= now /\ lastEnd \in Nat
      BY <1>2 DEF ClockInv, ClockType, HolderInv
    <3>3. QED
      BY <1>1, <2>1, <3>1, <3>2, Counts DEF Larger
  <2>3. PICK h \in Calls : h = [call[c] EXCEPT !.at = "gap", !.since = now, !.until = start]
    BY <1>1, <2>1 DEF Calls, Place, Held
  <2>4. /\ call' = [call EXCEPT ![c] = h] /\ h.at = "gap" /\ h.since = now /\ h.until = start
        /\ lock' = c /\ lock = None /\ nextStart' = nextStart
    BY <1>1, <1>5, <2>1, <2>3 DEF Acquire, Calls, ClockInv, ClockType
  <2>5. nextStart <= now + LongestDelay
    BY <1>2, <2>4 DEF ClockInv, HolderInv
  <2>6. OnTime(h)'
    BY <1>1, <1>3, <2>2, <2>4, <2>5, Counts DEF OnTime, GapEnd, LookupEnd, Held
  <2>7. QED
    BY <1>1, <1>2, <1>3, <2>4, <2>6, CallMoves DEF Calls, Place
<1>6. CASE Begin(c)
  <2>1. lock = c /\ OnTime(call[c]) /\ call[c].at = "gap"
    BY <1>2, <1>6, Holder DEF Begin, At
  <2>2. PICK h \in Calls : h = [call[c] EXCEPT !.at = "turn", !.attempt = 1, !.delay = live, !.until = 0,
                                             !.deadline = now + RetryBudget]
    <3>1. now + RetryBudget \in Nat /\ 0 \in Nat /\ 1 \in Nat
      BY <1>1, Counts
    <3>2. QED
      BY <1>1, <3>1 DEF Calls, Place, Held
  <2>3. /\ call' = [call EXCEPT ![c] = h] /\ h.at = "turn" /\ h.since = call[c].since
        /\ h.deadline = now + RetryBudget /\ lock' = c /\ nextStart' = nextStart
    BY <1>1, <1>6, <2>1, <2>2 DEF Begin, Calls, ClockInv, ClockType
  <2>4. OnTime(h)'
    BY <1>1, <1>3, <2>1, <2>3, Counts DEF OnTime, GapEnd, LookupEnd, Held, Calls
  <2>5. QED
    BY <1>1, <1>2, <1>3, <2>1, <2>3, <2>4, CallMoves DEF Calls, Place
<1>7. CASE TakeTurn(c)
  <2>1. lock = c /\ OnTime(call[c]) /\ call[c].at = "turn" /\ now < call[c].deadline
    BY <1>2, <1>7, Holder DEF TakeTurn, At
  <2>2. PICK slot \in Nat : slot = Slot(now)
    BY <1>1 DEF Slot, Larger
  <2>3. slot <= now + LongestDelay /\ now <= slot
    BY <1>1, <2>1, <2>2, Counts DEF OnTime, Slot, Larger
  <2>4. call[c].delay \in Nat /\ call[c].delay <= LongestDelay
    BY <1>1, Longest DEF Calls
  <2>5. PICK h \in Calls : h = [call[c] EXCEPT !.at = "paced", !.until = slot]
    BY <1>1, <2>2 DEF Calls, Place, Held
  <2>6. /\ call' = [call EXCEPT ![c] = h] /\ h.at = "paced" /\ h.since = call[c].since
        /\ h.deadline = call[c].deadline /\ h.until = slot
        /\ lock' = c /\ nextStart' = slot + call[c].delay
    BY <1>1, <1>7, <2>1, <2>2, <2>5 DEF TakeTurn, Reserve, Calls, ClockInv, ClockType
  <2>7. OnTime(h)'
    BY <1>1, <1>3, <2>1, <2>3, <2>4, <2>6, Counts DEF OnTime, GapEnd, LookupEnd, Held, Calls
  <2>8. nextStart' \in Nat
    BY <2>2, <2>4, <2>6
  <2>9. QED
    BY <1>1, <1>2, <1>3, <2>1, <2>6, <2>7, <2>8, CallMoves DEF Calls, Place
<1>8. QED
  BY <1>4, <1>5, <1>6, <1>7

(* Time passes: where nothing waits for it, a tick is one of the MaxLate.  *)
LEMMA TickKeeps ==
    ASSUME ClockInv, Tick
    PROVE  ClockInv'
<1>1. /\ now \in Nat /\ late \in Nat /\ now' = now + 1 /\ late' \in {late, late + 1} /\ late' <= MaxLate
      /\ UNCHANGED <<service, call, nextStart, lock, lastEnd, settings>>
  BY DEF Tick, ClockInv, ClockType
<1>2. ClockType' /\ SaveType'
  BY <1>1 DEF ClockInv, ClockType, SaveType, settings
<1>3. ASSUME service = "lyrics", lock # None
      PROVE  OnTime(call[lock])'
  <2>1. PICK c \in Caller : c = lock
    BY <1>3 DEF ClockInv, ClockType
  <2>2. OnTime(call[c]) /\ call[c] \in Calls
    BY <1>3, <2>1, Holder DEF ClockInv, HolderInv
  <2>3. now >= call[c].until \/ call[c].at = "turn" => late' = late + 1
    BY <2>2 DEF Tick, Due, Waits, At, OnTime, Held
  <2>4. nextStart \in Nat
    BY DEF ClockInv, ClockType
  <2>5. call'[c] = call[c]
    BY <1>1
  <2>6. OnTime(call[c])'
    BY <1>1, <2>2, <2>3, <2>4, <2>5, Counts DEF OnTime, GapEnd, LookupEnd, Held, Calls
  <2>7. QED
    BY <1>1, <2>1, <2>6
<1>4. HolderInv'
  <2>1. nextStart \in Nat /\ (lastEnd # None => lastEnd \in Nat)
    BY DEF ClockInv, ClockType
  <2>2. CASE service = "metadata"
    BY <1>1, <2>2 DEF ClockInv, HolderInv
  <2>3. CASE service = "lyrics"
    <3>1. lock = None => nextStart <= now + LongestDelay
      BY <2>3 DEF ClockInv, HolderInv
    <3>2. lock' = None => nextStart' <= now' + LongestDelay
      BY <1>1, <2>1, <3>1, Counts
    <3>3. lastEnd' # None => lastEnd' <= now'
      BY <1>1, <2>1, <2>3 DEF ClockInv, HolderInv
    <3>4. QED
      BY <1>1, <1>3, <2>3, <3>2, <3>3 DEF ClockInv, HolderInv
  <2>4. QED
    BY <2>2, <2>3 DEF ClockInv, ClockType
<1>5. QED
  BY <1>2, <1>4 DEF ClockInv

(* A start of the process forgets all calls, and the pacer of LRCLIB.      *)
LEMMA RestartKeeps ==
    ASSUME ClockInv, SettingsInv', Restart
    PROVE  ClockInv'
<1>1. /\ UNCHANGED <<service, now, late>> /\ lock' = None /\ lastEnd' = None
      /\ nextStart' = (IF service = "metadata" THEN nextStart ELSE now)
      /\ \A c \in Caller : call'[c] = Idle
  BY DEF Restart, SlotAfterRestart
<1>2. /\ now \in Nat /\ nextStart' \in Nat /\ Idle.at = "idle"
  BY <1>1 DEF ClockInv, ClockType, Idle
<1>3. ClockType'
  BY <1>1, <1>2, DelayAssumption DEF Restart, ClockInv, ClockType, Idle
<1>4. HolderInv'
  BY <1>1, <1>2, Counts DEF HolderInv, ClockInv, ClockType
<1>5. QED
  BY <1>3, <1>4 DEF ClockInv, SettingsInv

(* Every step keeps the invariant of the clock.                            *)
LEMMA NextClock == ClockInv /\ SettingsInv' /\ [Next]_vars => ClockInv'
<1> SUFFICES ASSUME ClockInv, SettingsInv', [Next]_vars PROVE ClockInv'
  OBVIOUS
<1>1. ASSUME UNCHANGED <<service, now, late, calls>> PROVE ClockInv'
  BY <1>1 DEF calls, ClockInv, SettingsInv, ClockType, HolderInv, OnTime, GapEnd, LookupEnd
<1>2. ASSUME NEW c \in Caller, StartMetadataGet(c) \/ StartLyricsGet(c) \/ CallStep(c)
      PROVE  ClockInv'
  BY <1>2, EndKeeps, SendKeeps, RetryKeeps, TryAgainKeeps, MetadataKeeps, LyricsKeeps DEF CallStep
<1>3. ASSUME NEW w \in Client,
             SaveStep(w) \/ StartMatchingSave(w) \/ \E delay \in Delay : StartSave(w, delay)
      PROVE  ClockInv'
  BY <1>1, <1>3 DEF SaveStep, LoadRow, Commit, Apply, StartMatchingSave, StartSave, calls
<1>4. CASE Restart
  BY <1>4, RestartKeeps
<1>5. CASE Tick
  BY <1>5, TickKeeps
<1>6. CASE UNCHANGED vars
  BY <1>1, <1>6 DEF vars
<1>7. QED
  BY <1>2, <1>3, <1>4, <1>5, <1>6 DEF Next

(* However long a provider takes to answer, and whatever it asks to wait,  *)
(* one lookup holds the others up for a bounded time only.                 *)
THEOREM LookupBounded == Spec => []BudgetKept
<1>1. SettingsInv /\ [Next]_vars => SettingsInv'
  BY NextSettings
<1>2. ClockInv => BudgetKept
  <2>1. SUFFICES ASSUME ClockInv, lock # None
                 PROVE  now - call[lock].since <= 2 * LongestDelay + RetryBudget + MaxLate
    BY DEF BudgetKept
  <2>2. PICK c \in Caller : c = lock
    BY <2>1 DEF ClockInv, ClockType
  <2>3. OnTime(call[c]) /\ call[c] \in Calls
    BY <2>1, <2>2, Holder DEF ClockInv, ClockType, HolderInv
  <2>4. now \in Nat /\ late \in Nat /\ late <= MaxLate
    BY <2>1 DEF ClockInv, ClockType
  <2>5. now - call[c].since <= 2 * LongestDelay + RetryBudget + MaxLate
    BY <2>3, <2>4, Counts DEF OnTime, GapEnd, LookupEnd, Calls
  <2>6. QED
    BY <2>2, <2>5
<1>3. QED
  BY <1>1, <1>2, InitSettings, InitClock, NextClock, PTL DEF Spec

-----------------------------------------------------------------------------
(* The pace: the requests that hold a slot and have not left yet, and how  *)
(* many requests are out by some moment if these leave in their slots.     *)
Reserved == {c \in Caller : call[c].at = "paced" /\ call[c].delay > 0}
LeavingBy(t) == {c \in Reserved : call[c].until <= t}
OutBy(t) == paced + Cardinality(LeavingBy(t))

(* Every slot given out has moved the next free one on by the least delay, *)
(* and by any moment to come no more slots are due than delays have passed *)
(* and one.  A count of the requests that left is not enough: a slot that  *)
(* is due may leave after later ones.                                      *)
PaceType == /\ {origin, paced, least} \subseteq Nat
            /\ IsFiniteSet(Reserved)
PaceInv ==
    /\ PaceType
    /\ (paced + Cardinality(Reserved)) * least <= nextStart - origin
    /\ \A t \in Nat : t >= now /\ OutBy(t) > 0 => (OutBy(t) - 1) * least <= t - origin

(* Products of counts.                                                     *)
LEMMA Product ==
    ASSUME NEW a \in Nat, NEW b \in Nat, NEW c \in Nat, NEW d \in Nat, a <= b, c <= d
    PROVE  a * c <= b * d /\ a * c \in Nat
OBVIOUS

(* A product that grows by one of the factor.                              *)
LEMMA OneMore ==
    ASSUME NEW a \in Nat, NEW b \in Nat
    PROVE  (a + 1) * b = a * b + b /\ a * b \in Nat
OBVIOUS

(* What leaves by some moment holds a slot.                                *)
LEMMA Leaving ==
    ASSUME PaceType, NEW t
    PROVE  /\ IsFiniteSet(LeavingBy(t))
           /\ Cardinality(LeavingBy(t)) \in Nat /\ Cardinality(Reserved) \in Nat
           /\ Cardinality(LeavingBy(t)) <= Cardinality(Reserved)
           /\ OutBy(t) \in Nat /\ OutBy(t) <= paced + Cardinality(Reserved)
<1>1. LeavingBy(t) \subseteq Reserved
  BY DEF LeavingBy
<1>2. /\ IsFiniteSet(LeavingBy(t)) /\ Cardinality(LeavingBy(t)) <= Cardinality(Reserved)
  BY <1>1, FS_Subset DEF PaceType
<1>3. Cardinality(LeavingBy(t)) \in Nat /\ Cardinality(Reserved) \in Nat
  BY <1>2, FS_CardinalityType DEF PaceType
<1>4. QED
  BY <1>2, <1>3 DEF OutBy, PaceType

(* Steps that give out no slot and send no paced request.                  *)
LEMMA NoneReserved ==
    ASSUME ClockInv, PaceInv, Reserved' \subseteq Reserved,
           \A c \in Reserved' : call'[c].until = call[c].until,
           now' \in Nat, now' >= now, nextStart' = nextStart, UNCHANGED <<origin, paced, least>>
    PROVE  PaceInv'
<1> USE DEF PaceInv
<1>1. /\ PaceType'
      /\ Cardinality(Reserved') \in Nat /\ Cardinality(Reserved') <= Cardinality(Reserved)
      /\ Cardinality(Reserved) \in Nat
  BY FS_Subset, FS_CardinalityType DEF PaceType
<1>2. /\ nextStart \in Nat /\ now \in Nat /\ {origin, paced, least} \subseteq Nat
  BY DEF ClockInv, ClockType, PaceType
<1>3. (paced' + Cardinality(Reserved')) * least' <= nextStart' - origin'
  <2>1. (paced + Cardinality(Reserved')) * least <= (paced + Cardinality(Reserved)) * least
    BY <1>1, <1>2, Product
  <2>2. /\ (paced + Cardinality(Reserved')) * least \in Int
        /\ (paced + Cardinality(Reserved)) * least \in Int
    BY <1>1, <1>2
  <2>3. QED
    BY <1>2, <2>1, <2>2
<1>4. ASSUME NEW t \in Nat, t >= now', OutBy(t)' > 0
      PROVE  (OutBy(t)' - 1) * least' <= t - origin'
  <2>1. LeavingBy(t)' \subseteq LeavingBy(t)
    BY DEF LeavingBy
  <2>2. /\ Cardinality(LeavingBy(t)') \in Nat
        /\ Cardinality(LeavingBy(t)') <= Cardinality(LeavingBy(t))
        /\ Cardinality(LeavingBy(t)) \in Nat
    BY <2>1, Leaving, FS_Subset, FS_CardinalityType
  <2>3. OutBy(t)' \in Nat /\ OutBy(t) \in Nat /\ OutBy(t)' <= OutBy(t)
    BY <1>2, <2>2 DEF OutBy
  <2>4. (OutBy(t) - 1) * least <= t - origin
    BY <1>2, <1>4, <2>3
  <2>5. /\ OutBy(t)' - 1 \in Nat /\ OutBy(t) - 1 \in Nat /\ OutBy(t)' - 1 <= OutBy(t) - 1
    BY <1>4, <2>3
  <2>6. (OutBy(t)' - 1) * least <= (OutBy(t) - 1) * least
    BY <1>2, <2>5, Product
  <2>7. (OutBy(t)' - 1) * least \in Int /\ (OutBy(t) - 1) * least \in Int
    BY <1>2, <2>5
  <2>8. QED
    BY <1>2, <2>4, <2>6, <2>7
<1>5. QED
  BY <1>1, <1>3, <1>4

(* A paced request that leaves was due: it is out by every later moment,   *)
(* as it was before.                                                       *)
LEMMA SendPaced ==
    ASSUME ClockInv, PaceInv, NEW c \in Caller, Send(c), call[c].delay > 0
    PROVE  PaceInv'
<1> USE DEF PaceInv
<1>1. /\ call[c] \in Calls /\ c \in Reserved /\ call[c].until <= now /\ now' = now
      /\ {now, nextStart} \subseteq Nat /\ {origin, paced, least} \subseteq Nat
      /\ paced' = paced + 1 /\ UNCHANGED <<nextStart, origin, least>>
  BY Holder DEF Send, At, Reserved, ClockInv, ClockType, PaceType, Calls
<1>2. /\ call'[c].at = "sent"
      /\ \A d \in Caller \ {c} : call'[d] = call[d]
  BY <1>1 DEF Send, ClockInv, ClockType, Calls
<1>3. Reserved' = Reserved \ {c}
  BY <1>2 DEF Reserved
<1>4. /\ IsFiniteSet(Reserved') /\ Cardinality(Reserved) \in Nat
      /\ Cardinality(Reserved') = Cardinality(Reserved) - 1
  BY <1>1, <1>3, FS_RemoveElement, FS_CardinalityType DEF PaceType
<1>5. paced' + Cardinality(Reserved') = paced + Cardinality(Reserved)
  BY <1>1, <1>4
<1>6. ASSUME NEW t \in Nat, t >= now
      PROVE  OutBy(t)' = OutBy(t)
  <2>1. LeavingBy(t)' = LeavingBy(t) \ {c} /\ c \in LeavingBy(t)
    BY <1>1, <1>2, <1>3, <1>6 DEF LeavingBy, Reserved, Calls
  <2>2. /\ Cardinality(LeavingBy(t)') = Cardinality(LeavingBy(t)) - 1
        /\ Cardinality(LeavingBy(t)) \in Nat
    BY <2>1, Leaving, FS_RemoveElement
  <2>3. QED
    BY <1>1, <2>2 DEF OutBy
<1>7. PaceType'
  BY <1>1, <1>4 DEF PaceType
<1>8. QED
  BY <1>1, <1>5, <1>6, <1>7

(* A new slot lies at or after the next free one, and moves that on by its *)
(* own delay, which is not below the least.                                *)
LEMMA ReservePaced ==
    ASSUME ClockInv, PaceInv, NEW c \in Caller, NEW seen \in Nat, NEW interval \in Nat,
           call[c].at # "paced", interval = call[c].delay,
           Reserve(c, seen, interval), UNCHANGED <<now, origin, paced>>
    PROVE  PaceInv'
<1>1. PICK slot \in Nat : slot = Slot(seen) /\ nextStart <= slot
  BY DEF Slot, Larger, ClockInv, ClockType
<1>2. /\ call[c] \in Calls
      /\ {now, nextStart} \subseteq Nat /\ {origin, paced, least} \subseteq Nat
      /\ nextStart' = slot + interval
      /\ least' = IF interval > 0 THEN Smaller(least, interval) ELSE least
  BY <1>1, Holder DEF Reserve, ClockInv, ClockType, PaceInv, PaceType
<1>3. PICK m \in Nat : m = least' /\ m <= least /\ (interval > 0 => m <= interval)
  BY <1>2 DEF Smaller
<1>4. /\ call'[c].at = "paced" /\ call'[c].delay = interval /\ call'[c].until = slot
      /\ \A d \in Caller \ {c} : call'[d] = call[d]
  BY <1>1, <1>2 DEF Reserve, ClockInv, ClockType, Calls
<1>5. c \notin Reserved /\ Cardinality(Reserved) \in Nat
  BY FS_CardinalityType DEF Reserved, PaceInv, PaceType
<1>6. /\ Reserved' = IF interval > 0 THEN Reserved \union {c} ELSE Reserved
      /\ IsFiniteSet(Reserved')
      /\ Cardinality(Reserved') = IF interval > 0 THEN Cardinality(Reserved) + 1 ELSE Cardinality(Reserved)
  <2>1. Reserved' = IF interval > 0 THEN Reserved \union {c} ELSE Reserved
    BY <1>4, <1>5 DEF Reserved
  <2>2. QED
    BY <1>5, <2>1, FS_AddElement DEF PaceInv, PaceType
<1>7. PICK n \in Nat : n = paced + Cardinality(Reserved)
  BY <1>2, <1>5
<1>8. n * m <= nextStart - origin /\ n * m \in Nat
  <2>1. n * m <= n * least /\ n * m \in Nat
    BY <1>2, <1>3, <1>7, Product
  <2>2. n * least <= nextStart - origin /\ n * least \in Nat
    BY <1>2, <1>7 DEF PaceInv
  <2>3. QED
    BY <1>2, <2>1, <2>2
<1>9. (paced' + Cardinality(Reserved')) * m <= nextStart' - origin'
  <2>1. CASE interval > 0
    <3>1. paced' + Cardinality(Reserved') = n + 1
      BY <1>5, <1>6, <1>7, <2>1, <1>2
    <3>2. (n + 1) * m = n * m + m
      BY <1>3, OneMore
    <3>3. n * m + m <= nextStart' - origin'
      BY <1>1, <1>2, <1>3, <1>8, <2>1
    <3>4. QED
      BY <3>1, <3>2, <3>3
  <2>2. CASE ~(interval > 0)
    <3>1. paced' + Cardinality(Reserved') = n
      BY <1>6, <1>7, <2>2
    <3>2. n * m <= nextStart' - origin'
      BY <1>1, <1>2, <1>8
    <3>3. QED
      BY <3>1, <3>2
  <2>3. QED
    BY <2>1, <2>2
<1>10. ASSUME NEW t \in Nat, t >= now', OutBy(t)' > 0
       PROVE  (OutBy(t)' - 1) * least' <= t - origin'
  <2>1. OutBy(t) \in Nat /\ OutBy(t) <= n /\ IsFiniteSet(LeavingBy(t)) /\ Cardinality(LeavingBy(t)) \in Nat
    BY <1>7, Leaving DEF PaceInv
  <2>2. CASE interval > 0 /\ slot <= t
    <3>1. LeavingBy(t)' = LeavingBy(t) \union {c} /\ c \notin LeavingBy(t)
      BY <1>4, <1>5, <1>6, <2>2 DEF LeavingBy, Reserved
    <3>2. Cardinality(LeavingBy(t)') = Cardinality(LeavingBy(t)) + 1
      BY <2>1, <3>1, FS_AddElement
    <3>3. OutBy(t)' - 1 = OutBy(t)
      BY <1>2, <2>1, <3>2 DEF OutBy
    <3>4. OutBy(t) * m <= n * m /\ OutBy(t) * m \in Nat
      BY <1>3, <2>1, Product
    <3>5. QED
      BY <1>1, <1>2, <1>3, <1>8, <2>2, <3>3, <3>4
  <2>3. CASE ~(interval > 0 /\ slot <= t)
    <3>1. LeavingBy(t)' = LeavingBy(t)
      BY <1>4, <1>5, <1>6, <2>3 DEF LeavingBy, Reserved
    <3>2. OutBy(t)' = OutBy(t)
      BY <3>1 DEF OutBy
    <3>3. (OutBy(t) - 1) * least <= t - origin
      BY <1>10, <1>2, <3>2 DEF PaceInv
    <3>4. OutBy(t) - 1 \in Nat
      BY <1>10, <2>1, <3>2
    <3>5. (OutBy(t) - 1) * m <= (OutBy(t) - 1) * least /\ (OutBy(t) - 1) * m \in Nat
      BY <1>2, <1>3, <3>4, Product
    <3>6. (OutBy(t) - 1) * least \in Int
      BY <1>2, <3>4
    <3>7. QED
      BY <1>2, <1>3, <3>2, <3>3, <3>5, <3>6
  <2>4. QED
    BY <2>2, <2>3
<1>11. PaceType'
  BY <1>2, <1>3, <1>6 DEF PaceType
<1>12. (paced' + Cardinality(Reserved')) * least' <= nextStart' - origin'
  BY <1>3, <1>9
<1>13. QED
  BY <1>10, <1>11, <1>12 DEF PaceInv

(* A start of the process forgets the slots of MusicBrainz and AcoustID    *)
(* that nobody took, and counts LRCLIB from then on.                       *)
LEMMA RestartPace ==
    ASSUME ClockInv, PaceInv, Restart
    PROVE  PaceInv'
<1>1. Reserved' = {}
  BY DEF Restart, Idle, Reserved
<1>2. now' = now /\ now \in Nat
  BY DEF Restart, ClockInv, ClockType
<1>3. CASE service = "metadata"
  BY <1>1, <1>2, <1>3, NoneReserved DEF Restart, SlotAfterRestart
<1>4. CASE service = "lyrics"
  <2>1. origin' = now /\ paced' = 0 /\ least' = least /\ nextStart' = now
    BY <1>4 DEF Restart, SlotAfterRestart
  <2>2. \A t : LeavingBy(t)' = {}
    BY <1>1 DEF LeavingBy
  <2>3. \A t : OutBy(t)' = 0
    BY <2>1, <2>2, FS_EmptySet DEF OutBy
  <2>4. PaceType'
    BY <1>1, <1>2, <2>1, FS_EmptySet DEF PaceType, PaceInv
  <2>5. (paced' + Cardinality(Reserved')) * least' <= nextStart' - origin'
    BY <1>1, <1>2, <2>1, FS_EmptySet DEF PaceInv, PaceType
  <2>6. QED
    BY <2>3, <2>4, <2>5 DEF PaceInv
<1>5. QED
  BY <1>3, <1>4 DEF ClockInv, ClockType

(* The steps of a call: a slot is given out, a paced request leaves, or    *)
(* the pace is not touched.                                                *)
LEMMA CallPace ==
    ASSUME ClockInv, PaceInv, NEW c \in Caller, StartMetadataGet(c) \/ StartLyricsGet(c) \/ CallStep(c)
    PROVE  PaceInv'
<1>1. call[c] \in Calls /\ {now, nextStart} \subseteq Nat /\ {live, saved} \subseteq Nat /\ Delay \subseteq Nat
  BY Holder, DelayAssumption DEF ClockInv, ClockType, SaveType
<1>2. ASSUME NEW h, call' = [call EXCEPT ![c] = h], h.at # "paced" \/ h.delay = 0,
             UNCHANGED <<now, nextStart, origin, paced, least>>
      PROVE  PaceInv'
  <2>1. \A d \in Caller : call'[d] = IF d = c THEN h ELSE call[d]
    BY <1>2 DEF ClockInv, ClockType
  <2>2. Reserved' \subseteq Reserved /\ \A d \in Reserved' : call'[d].until = call[d].until
    BY <1>2, <2>1 DEF Reserved
  <2>3. QED
    BY <1>1, <1>2, <2>2, NoneReserved
<1>3. CASE Send(c)
  <2>1. CASE call[c].delay > 0
    BY <1>3, <2>1, SendPaced
  <2>2. CASE ~(call[c].delay > 0)
    <3>1. call'[c].at = "sent" /\ \A d \in Caller \ {c} : call'[d] = call[d]
      BY <1>1, <1>3 DEF Send, ClockInv, ClockType, Calls
    <3>2. Reserved' \subseteq Reserved /\ \A d \in Reserved' : call'[d].until = call[d].until
      BY <3>1 DEF Reserved
    <3>3. now' = now /\ UNCHANGED <<nextStart, origin, paced, least>>
      BY <1>3, <2>2 DEF Send
    <3>4. QED
      BY <1>1, <3>2, <3>3, NoneReserved
  <2>3. QED
    BY <2>1, <2>2
<1>4. CASE Answered(c) \/ OutOfBudget(c)
  BY <1>2, <1>4 DEF Answered, OutOfBudget, Ended, Idle
<1>5. CASE TryAgain(c) \/ (\E hint \in Hints : RetryLater(c, hint)) \/ Acquire(c) \/ Begin(c)
           \/ StartMetadataGet(c) \/ StartLyricsGet(c) \/ CheckSwitch(c) \/ ReadInterval(c)
  <2>1. /\ call'[c].at # "paced" \/ call'[c].delay = 0
        /\ \A d \in Caller \ {c} : call'[d] = call[d]
        /\ UNCHANGED <<now, nextStart, origin, paced, least>>
    BY <1>1, <1>5 DEF TryAgain, RetryLater, Acquire, Begin, StartMetadataGet, StartLyricsGet, Goes,
                      CheckSwitch, ReadInterval, ClockInv, ClockType, Calls
  <2>2. Reserved' \subseteq Reserved /\ \A d \in Reserved' : call'[d].until = call[d].until
    BY <2>1 DEF Reserved
  <2>3. QED
    BY <1>1, <2>1, <2>2, NoneReserved
<1>6. CASE ReserveRow(c)
  BY <1>1, <1>6, ReservePaced DEF ReserveRow, At, Calls
<1>7. CASE TakeTurn(c)
  BY <1>1, <1>7, ReservePaced DEF TakeTurn, At, Calls
<1>8. QED
  BY <1>3, <1>4, <1>5, <1>6, <1>7 DEF CallStep

(* The initial pace.                                                       *)
LEMMA InitPace == Init => PaceInv
<1> SUFFICES ASSUME Init PROVE PaceInv
  OBVIOUS
<1>1. /\ Reserved = {} /\ paced = 0 /\ origin = 0 /\ nextStart = 0 /\ least \in Nat
  BY Counts DEF Init, Idle, Reserved
<1>2. \A t : LeavingBy(t) = {}
  BY <1>1 DEF LeavingBy
<1>3. \A t : OutBy(t) = 0
  BY <1>1, <1>2, FS_EmptySet DEF OutBy
<1>4. PaceType /\ (paced + Cardinality(Reserved)) * least <= nextStart - origin
  BY <1>1, FS_EmptySet DEF PaceType
<1>5. QED
  BY <1>3, <1>4 DEF PaceInv

(* Every step keeps the pace.                                              *)
LEMMA NextPace == ClockInv /\ PaceInv /\ [Next]_vars => PaceInv'
<1> SUFFICES ASSUME ClockInv, PaceInv, [Next]_vars PROVE PaceInv'
  OBVIOUS
<1>1. ASSUME UNCHANGED calls, now' \in Nat, now' >= now PROVE PaceInv'
  <2>1. Reserved' = Reserved
    BY <1>1 DEF calls, Reserved
  <2>2. QED
    BY <1>1, <2>1, NoneReserved DEF calls
<1>2. now \in Nat
  BY DEF ClockInv, ClockType
<1>3. ASSUME NEW c \in Caller, StartMetadataGet(c) \/ StartLyricsGet(c) \/ CallStep(c)
      PROVE  PaceInv'
  BY <1>3, CallPace
<1>4. ASSUME NEW w \in Client,
             SaveStep(w) \/ StartMatchingSave(w) \/ \E delay \in Delay : StartSave(w, delay)
      PROVE  PaceInv'
  BY <1>1, <1>2, <1>4 DEF SaveStep, LoadRow, Commit, Apply, StartMatchingSave, StartSave
<1>5. CASE Restart
  BY <1>5, RestartPace
<1>6. CASE Tick
  BY <1>1, <1>2, <1>6 DEF Tick, calls
<1>7. CASE UNCHANGED vars
  BY <1>1, <1>2, <1>7 DEF vars
<1>8. QED
  BY <1>3, <1>4, <1>5, <1>6, <1>7 DEF Next

(* Retries, threads, saves of the delay and starts of the process, in any  *)
(* number and order: paced requests are never denser than the least delay. *)
THEOREM RequestsPaced == Spec => []RateHeld
<1>1. SettingsInv /\ [Next]_vars => SettingsInv'
  BY NextSettings
<1>2. ClockInv /\ PaceInv => RateHeld
  <2>1. SUFFICES ASSUME ClockInv, PaceInv, paced > 0
                 PROVE  (paced - 1) * least <= now - origin
    BY DEF RateHeld
  <2>2. /\ now \in Nat /\ PaceType /\ {origin, paced, least} \subseteq Nat
    BY <2>1 DEF ClockInv, ClockType, PaceInv, PaceType
  <2>3. OutBy(now) \in Nat /\ paced <= OutBy(now)
    BY <2>2, Leaving DEF OutBy
  <2>4. (OutBy(now) - 1) * least <= now - origin
    BY <2>1, <2>2, <2>3 DEF PaceInv
  <2>5. paced - 1 \in Nat /\ OutBy(now) - 1 \in Nat /\ paced - 1 <= OutBy(now) - 1
    BY <2>1, <2>2, <2>3
  <2>6. (paced - 1) * least <= (OutBy(now) - 1) * least /\ (paced - 1) * least \in Nat
    BY <2>2, <2>5, Product
  <2>7. (OutBy(now) - 1) * least \in Int
    BY <2>2, <2>5
  <2>8. QED
    BY <2>2, <2>4, <2>6, <2>7
<1>3. QED
  BY <1>1, <1>2, InitSettings, InitClock, NextClock, InitPace, NextPace, PTL DEF Spec
=============================================================================
