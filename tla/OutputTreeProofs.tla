-------------------------- MODULE OutputTreeProofs --------------------------
(* Proofs about OutputTree, for any records, workers, roots, jobs and      *)
(* bounds.                                                                 *)
(*                                                                         *)
(* Inv says what each session knows while it holds the gate, that nobody   *)
(* else can have changed it, that every row names the root in use, and     *)
(* where a move stands: before the rows switch the old root is what its    *)
(* manifest says; after, the new one has all of it, and the old one has    *)
(* lost the managed files that were passed.  One lemma for each action     *)
(* shows that Inv survives it.                                             *)
EXTENDS OutputTree, TLAPS

(* What a session that executes a job knows while it holds the gate.       *)
Holds(s) == task[s].at \in {"publish", "lyrics", "written", "exposed"}
InPlace(s) ==
    task[s].rec \in Losable \/ tree[storage.root][Audio(task[s].rec)] = task[s].content

SessionInv(s) ==
    /\ Holds(s) => task[s].rec \in Record /\ task[s].root = storage.root
    /\ task[s].at \in {"publish", "exposed"} => task[s].content # None
    /\ task[s].at = "saw" => task[s].rec \in Record
    /\ task[s].at = "publish" => ~Uncleaned(task[s].rec)
    /\ task[s].at = "exposed" =>
         /\ attempt[task[s].rec] = [root |-> task[s].root, content |-> task[s].content]
         /\ InPlace(s)
    /\ task[s].at \in {"lyrics", "written"} => pub[task[s].rec].state # "none"
    /\ task[s].at = "written" => tree[storage.root][Lrc(task[s].rec)] # None
    /\ task[s].at \in {"wants", "moved"} => s = Maintenance /\ storage.state = "migrating"

(* A record has one session at work, and who holds the gate exclusively    *)
(* holds it alone.                                                         *)
Apart(s, t) ==
    /\ Holds(s) /\ Holds(t) => task[s].rec # task[t].rec
    /\ Excludes(s) => ~Shares(t) /\ ~Excludes(t)

TaskInv == \A s \in Session : SessionInv(s) /\ \A t \in Session \ {s} : Apart(s, t)

(* All rows name the root in use; what was promised is content.            *)
RecordInv(r) ==
    /\ pub[r].root = storage.root
    /\ pub[r].state # "none" => pub[r].content # None
    /\ Uncleaned(r) => attempt[r].root = storage.root /\ attempt[r].content # None

Served(r) ==
    r \notin Losable /\ Current(r) =>
        \/ tree[pub[r].root][Audio(r)] = pub[r].content
        \/ /\ Uncleaned(r) /\ attempt[r].root = pub[r].root
           /\ tree[pub[r].root][Audio(r)] = attempt[r].content

PubInv == \A r \in Record : RecordInv(r) /\ Served(r)

(* While the output moves nobody shares the gate and no attempt is open.   *)
(* Copying leaves the old root as it was when the manifest was made; once  *)
(* the rows have switched, the new root has everything and the old one     *)
(* loses the managed files that have been passed.                          *)
Passed == journal.passed \union IF task[Maintenance].at = "moved" THEN {Item} ELSE {}

Copying ==
    /\ storage.root = journal.source
    /\ \A n \in Names : tree[journal.source][n] = journal.hash[n]

Cleaning ==
    /\ storage.root = journal.destination
    /\ \A n \in journal.files : tree[journal.destination][n] = journal.hash[n]
    /\ \A n \in Names : tree[journal.source][n] \in {None, journal.hash[n]}
    /\ \A n \in Passed \intersect journal.managed : tree[journal.source][n] = None

Migrating ==
    /\ \A r \in Record : ~Uncleaned(r)
    /\ \A s \in Session : ~Shares(s) /\ task[s].at # "swept"
    /\ journal.source # journal.destination
    /\ journal.files = {n \in Names : journal.hash[n] # None}
    /\ task[Maintenance].at = "moved" => Rest # {}
    /\ \/ journal.phase = "copying" /\ Copying
       \/ journal.phase = "cleanup" /\ Cleaning

Ready ==
    /\ journal.phase = "complete"
    /\ \A n \in journal.managed : tree[journal.source][n] = None
    /\ journal.managed = {} \/ journal.source # storage.root

MoveInv == IF storage.state = "migrating" THEN Migrating ELSE Ready

Inv == TypeOK /\ TaskInv /\ PubInv /\ MoveInv

-----------------------------------------------------------------------------
(* Names, and what the two ways to write do.                               *)

Tasks == [at: {"idle", "publish", "lyrics", "written", "saw", "exposed", "sweep", "upgrade",
               "swept", "wants", "moved"},
          rec: Record \union {"none"}, root: Root, content: Content]

LEMMA FileNames ==
    ASSUME NEW r \in Record
    PROVE  /\ Audio(r) \in Names /\ Lrc(r) \in Names /\ Nfo \in Names
           /\ Audio(r) # Nfo /\ Lrc(r) # Nfo
           /\ \A q \in Record : /\ Audio(r) # Lrc(q)
                                /\ Audio(r) = Audio(q) => r = q
                                /\ Lrc(r) = Lrc(q) => r = q
BY DEF Names, Audio, Lrc, Nfo

LEMMA PutEffect ==
    ASSUME TypeOK, NEW d \in Root, NEW n \in Names, NEW c \in Content, Put(d, n, c)
    PROVE  /\ tree' \in [Root -> [Names -> Content]] /\ tree'[d][n] = c
           /\ \A e \in Root, m \in Names : e # d \/ m # n => tree'[e][m] = tree[e][m]
BY DEF TypeOK, Put

LEMMA BecomeEffect ==
    ASSUME TypeOK, NEW s \in Session, NEW x \in Tasks, Become(s, x)
    PROVE  /\ task' \in [Session -> Tasks] /\ task'[s] = x
           /\ \A u \in Session \ {s} : task'[u] = task[u]
BY DEF TypeOK, Become, Tasks

LEMMA IdleTask ==
    /\ Idle \in Tasks /\ Idle.at = "idle"
    /\ [Idle EXCEPT !.at = "sweep"] \in Tasks /\ [Idle EXCEPT !.at = "sweep"].at = "sweep"
    /\ [Idle EXCEPT !.at = "upgrade"] \in Tasks /\ [Idle EXCEPT !.at = "upgrade"].at = "upgrade"
    /\ [Idle EXCEPT !.at = "swept"] \in Tasks /\ [Idle EXCEPT !.at = "swept"].at = "swept"
    /\ [Idle EXCEPT !.at = "wants"] \in Tasks /\ [Idle EXCEPT !.at = "wants"].at = "wants"
    /\ [Idle EXCEPT !.at = "moved"] \in Tasks /\ [Idle EXCEPT !.at = "moved"].at = "moved"
BY TreeAssumption DEF Idle, Tasks, Content, None

LEMMA TaskTypes ==
    ASSUME Inv, NEW s \in Session
    PROVE  task[s] \in Tasks
BY DEF Inv, TypeOK, Tasks

LEMMA SessionsAre == Maintenance \in Session /\ Worker \subseteq Session
BY DEF Session

-----------------------------------------------------------------------------
(* What a step leaves as it was.                                           *)

LEMMA SessionFrame ==
    ASSUME NEW s \in Session, SessionInv(s), task'[s] = task[s],
           Holds(s) =>
             /\ storage'.root = storage.root
             /\ attempt'[task[s].rec] = attempt[task[s].rec]
             /\ pub[task[s].rec].state # "none" => pub'[task[s].rec].state # "none"
             /\ task[s].at = "exposed" /\ InPlace(s) => InPlace(s)'
             /\ tree[storage.root][Lrc(task[s].rec)] # None => tree'[storage.root][Lrc(task[s].rec)] # None,
           task[s].at \in {"wants", "moved"} => storage'.state = storage.state
    PROVE  SessionInv(s)'
BY DEF SessionInv, Holds, Uncleaned

LEMMA SessionFixed ==
    ASSUME NEW s \in Session, SessionInv(s), task'[s] = task[s], storage'.root = storage.root,
           storage'.state = storage.state, UNCHANGED <<tree, attempt, pub>>
    PROVE  SessionInv(s)'
BY SessionFrame DEF InPlace

LEMMA PairFrame ==
    ASSUME NEW s \in Session, NEW t \in Session, task'[s] = task[s], task'[t] = task[t], Apart(s, t)
    PROVE  Apart(s, t)'
BY DEF Apart, Holds, Shares, Excludes

(* A session that holds less than before is apart from the others still.   *)
LEMMA Lesser ==
    ASSUME TaskInv, NEW s \in Session, NEW u \in Session \ {s}, task'[u] = task[u],
           Holds(s)' => Holds(s) /\ task'[s].rec = task[s].rec,
           Shares(s)' => Shares(s), Excludes(s)' => Excludes(s)
    PROVE  Apart(s, u)' /\ Apart(u, s)'
<1>1. Apart(s, u) /\ Apart(u, s)
  BY DEF TaskInv
<1> QED
  BY <1>1 DEF Apart, Holds, Shares, Excludes

LEMMA TasksStep ==
    ASSUME TaskInv, NEW s \in Session, \A u \in Session \ {s} : task'[u] = task[u],
           \A u \in Session : SessionInv(u)',
           \A u \in Session \ {s} : Apart(s, u)' /\ Apart(u, s)'
    PROVE  TaskInv'
<1>1. ASSUME NEW t \in Session, NEW u \in Session \ {t}
      PROVE  Apart(t, u)'
  <2>1. CASE t # s /\ u # s
    BY <2>1, PairFrame DEF TaskInv
  <2> QED
    BY <2>1
<1> QED
  BY <1>1 DEF TaskInv

LEMMA RecordFrame ==
    ASSUME NEW r \in Record, RecordInv(r), pub'[r] = pub[r], attempt'[r] = attempt[r],
           storage'.root = storage.root
    PROVE  RecordInv(r)'
BY DEF RecordInv, Uncleaned

LEMMA ServedFrame ==
    ASSUME NEW r \in Record, Served(r), pub'[r] = pub[r], attempt'[r] = attempt[r],
           r \notin Losable /\ Current(r) => tree'[pub[r].root][Audio(r)] = tree[pub[r].root][Audio(r)]
    PROVE  Served(r)'
BY DEF Served, Current, Uncleaned

LEMMA ReadyFrame ==
    ASSUME TypeOK, Ready, UNCHANGED <<storage, journal>>,
           \A d \in Root, n \in Names : d # storage.root => tree'[d][n] \in {tree[d][n], None}
    PROVE  Ready'
<1>1. journal.source \in Root /\ journal.managed \subseteq Names
  BY DEF TypeOK
<1> QED
  BY <1>1 DEF Ready

LEMMA MigratingFrame ==
    ASSUME TypeOK, Migrating, UNCHANGED <<storage, journal, tree, attempt>>,
           \A s \in Session : ~Shares(s)' /\ task'[s].at # "swept",
           task'[Maintenance].at = "moved" => task[Maintenance].at = "moved"
    PROVE  Migrating'
<1>1. Passed' \subseteq Passed /\ Rest' = Rest
  BY DEF Passed, Item, Rest
<1> QED
  BY <1>1 DEF Migrating, Copying, Cleaning, Uncleaned

(* Nobody works on a record while the output moves, and maintenance only   *)
(* resumes a move that is there.                                           *)
LEMMA NoMoveWhileShared ==
    ASSUME Inv, NEW s \in Session, Shares(s) \/ task[s].at = "swept"
    PROVE  storage.state = "ready"
BY DEF Inv, MoveInv, Migrating, TypeOK

LEMMA WhileResuming ==
    ASSUME Inv, task[Maintenance].at \in {"wants", "moved"}
    PROVE  storage.state = "migrating" /\ Migrating
BY SessionsAre DEF Inv, MoveInv, TaskInv, SessionInv

-----------------------------------------------------------------------------
(* Steps that change neither files nor what rows promise of them.          *)

LEMMA TaskStep ==
    ASSUME Inv, NEW s \in Session, NEW x \in Tasks, Become(s, x),
           UNCHANGED <<storage, journal, tree, pub, attempt>>,
           refresh' \subseteq Record, lyrics' \in [Record -> {"none", "evidence", "synced"}],
           removing' \subseteq Record, mover' \in Root \union {"none"}, moves' \in Nat, faults' \in Nat,
           SessionInv(s)', \A u \in Session \ {s} : Apart(s, u)' /\ Apart(u, s)',
           storage.state = "migrating" =>
             ~Shares(s)' /\ x.at # "swept" /\ (x.at = "moved" => task[s].at = "moved")
    PROVE  Inv'
<1>1. /\ task' \in [Session -> Tasks] /\ task'[s] = x
      /\ \A u \in Session \ {s} : task'[u] = task[u]
  BY BecomeEffect DEF Inv
<1>2. TypeOK'
  BY <1>1 DEF Inv, TypeOK, Tasks
<1>3. TaskInv'
  <2>1. \A u \in Session : SessionInv(u)'
    BY <1>1, SessionFixed DEF Inv, TaskInv
  <2> QED
    BY <1>1, <2>1, TasksStep DEF Inv
<1>4. PubInv'
  BY RecordFrame, ServedFrame DEF Inv, PubInv
<1>5. MoveInv'
  <2>1. CASE storage.state = "migrating"
    <3>1. \A u \in Session : ~Shares(u)' /\ task'[u].at # "swept"
      BY <1>1, <2>1 DEF Inv, MoveInv, Migrating, Shares
    <3>2. task'[Maintenance].at = "moved" => task[Maintenance].at = "moved"
      BY <1>1, <2>1, SessionsAre
    <3> QED
      BY <2>1, <3>1, <3>2, MigratingFrame DEF Inv, MoveInv
  <2>2. CASE storage.state # "migrating"
    BY <2>2, ReadyFrame DEF Inv, MoveInv
  <2> QED
    BY <2>1, <2>2
<1> QED
  BY <1>2, <1>3, <1>4, <1>5 DEF Inv

(* A session that comes to share the gate is apart from all others.        *)
LEMMA Newcomer ==
    ASSUME Inv, NEW s \in Session, NEW x \in Tasks, Become(s, x), MayShare,
           x.at \in {"idle", "saw", "publish", "lyrics", "exposed", "sweep"},
           Holds(s)' => \A u \in Session \ {s} : task[u].at = "saw" \/ task[u].rec # x.rec
    PROVE  \A u \in Session \ {s} : Apart(s, u)' /\ Apart(u, s)'
<1>1. task'[s] = x /\ \A u \in Session \ {s} : task'[u] = task[u]
  BY BecomeEffect DEF Inv
<1> QED
  BY <1>1 DEF Apart, Holds, Excludes, MayShare

(* A session that no longer holds the gate is apart from all others.       *)
LEMMA Outsider ==
    ASSUME Inv, NEW s \in Session, NEW x \in Tasks, Become(s, x), x.at \in {"idle", "saw", "wants"}
    PROVE  /\ \A u \in Session \ {s} : Apart(s, u)' /\ Apart(u, s)'
           /\ ~Holds(s)' /\ ~Shares(s)' /\ ~Excludes(s)'
<1>1. task'[s] = x /\ \A u \in Session \ {s} : task'[u] = task[u]
  BY BecomeEffect DEF Inv
<1>2. ~Holds(s)' /\ ~Shares(s)' /\ ~Excludes(s)'
  BY <1>1 DEF Holds, Shares, Excludes
<1> QED
  BY <1>1, <1>2, Lesser DEF Inv

LEMMA IdleIsSafe ==
    ASSUME Inv, NEW s \in Session, Become(s, Idle)
    PROVE  SessionInv(s)'
<1>1. task'[s] = Idle
  BY BecomeEffect, IdleTask DEF Inv
<1> QED
  BY <1>1, IdleTask DEF SessionInv, Holds

LEMMA PrepareStep ==
    ASSUME Inv, NEW w \in Worker, NEW r \in Record, Prepare(w, r)
    PROVE  Inv'
<1>1. PICK c \in Content \ {None} :
        Become(w, [at |-> "publish", rec |-> r, root |-> storage.root, content |-> c])
  BY DEF Prepare
<1> DEFINE x == [at |-> "publish", rec |-> r, root |-> storage.root, content |-> c]
<1>2. x \in Tasks /\ w \in Session
  BY SessionsAre DEF Inv, TypeOK, Tasks
<1>3. task'[w] = x
  BY <1>1, <1>2, BecomeEffect DEF Inv
<1>4. /\ MayShare /\ storage.state = "ready" /\ ~Uncleaned(r)
      /\ \A u \in Session \ {w} : task[u].at = "saw" \/ task[u].rec # r
  BY DEF Prepare, Runs, Locked
<1>5. UNCHANGED <<storage, journal, tree, pub, attempt, refresh, lyrics, removing, mover, moves, faults>>
  BY DEF Prepare, rows
<1>6. SessionInv(w)'
  BY <1>3, <1>4, <1>5 DEF SessionInv, Holds, Uncleaned
<1>7. \A u \in Session \ {w} : Apart(w, u)' /\ Apart(u, w)'
  BY <1>1, <1>2, <1>4, Newcomer
<1> QED
  BY <1>1, <1>2, <1>4, <1>5, <1>6, <1>7, TaskStep DEF Inv, TypeOK

LEMMA FetchLyricsStep ==
    ASSUME Inv, NEW w \in Worker, NEW r \in Record, FetchLyrics(w, r)
    PROVE  Inv'
<1> DEFINE x == [at |-> "lyrics", rec |-> r, root |-> storage.root, content |-> None]
<1>1. Become(w, x)
  BY DEF FetchLyrics
<1>2. x \in Tasks /\ w \in Session
  BY SessionsAre, TreeAssumption DEF Inv, TypeOK, Tasks, Content, None
<1>3. task'[w] = x
  BY <1>1, <1>2, BecomeEffect DEF Inv
<1>4. /\ MayShare /\ storage.state = "ready" /\ pub[r].state # "none"
      /\ \A u \in Session \ {w} : task[u].at = "saw" \/ task[u].rec # r
  BY DEF FetchLyrics, Runs, Locked, Current
<1>5. UNCHANGED <<storage, journal, tree, pub, attempt, refresh, lyrics, removing, mover, moves, faults>>
  BY DEF FetchLyrics, rows
<1>6. SessionInv(w)'
  BY <1>3, <1>4, <1>5 DEF SessionInv, Holds
<1>7. \A u \in Session \ {w} : Apart(w, u)' /\ Apart(u, w)'
  BY <1>1, <1>2, <1>4, Newcomer
<1> QED
  BY <1>1, <1>2, <1>4, <1>5, <1>6, <1>7, TaskStep DEF Inv, TypeOK

LEMMA ClaimSweepStep ==
    ASSUME Inv, NEW w \in Worker, ClaimSweep(w)
    PROVE  Inv'
<1> DEFINE x == [Idle EXCEPT !.at = "sweep"]
<1>1. Become(w, x)
  BY DEF ClaimSweep
<1>2. x \in Tasks /\ x.at = "sweep" /\ w \in Session
  BY SessionsAre, IdleTask
<1>3. task'[w] = x
  BY <1>1, <1>2, BecomeEffect DEF Inv
<1>4. MayShare /\ storage.state = "ready"
  BY DEF ClaimSweep, Runs
<1>5. UNCHANGED <<storage, journal, tree, pub, attempt, refresh, lyrics, removing, mover, moves, faults>>
  BY DEF ClaimSweep, rows
<1>6. SessionInv(w)' /\ ~Holds(w)'
  BY <1>2, <1>3 DEF SessionInv, Holds
<1>7. \A u \in Session \ {w} : Apart(w, u)' /\ Apart(u, w)'
  BY <1>1, <1>2, <1>4, <1>6, Newcomer
<1> QED
  BY <1>1, <1>2, <1>4, <1>5, <1>6, <1>7, TaskStep DEF Inv, TypeOK

LEMMA UpgradeStep ==
    ASSUME Inv, NEW w \in Worker, Upgrade(w)
    PROVE  Inv'
<1> DEFINE x == [Idle EXCEPT !.at = "upgrade"]
<1>1. Become(w, x)
  BY DEF Upgrade
<1>2. x \in Tasks /\ x.at = "upgrade" /\ w \in Session
  BY SessionsAre, IdleTask
<1>3. task'[w] = x /\ \A u \in Session \ {w} : task'[u] = task[u]
  BY <1>1, <1>2, BecomeEffect DEF Inv
<1>4. Shares(w)
  BY DEF Upgrade, Shares
<1>5. UNCHANGED <<storage, journal, tree, pub, attempt, refresh, lyrics, removing, mover, moves, faults>>
  BY DEF Upgrade, rows
<1>6. SessionInv(w)' /\ ~Holds(w)' /\ ~Excludes(w)'
  BY <1>2, <1>3 DEF SessionInv, Holds, Excludes
<1>7. \A u \in Session \ {w} : Apart(w, u)' /\ Apart(u, w)'
  BY <1>2, <1>3, <1>4, <1>6, Lesser DEF Inv
<1>8. storage.state = "ready"
  BY <1>2, <1>4, NoMoveWhileShared
<1> QED
  BY <1>1, <1>2, <1>5, <1>6, <1>7, <1>8, TaskStep DEF Inv, TypeOK

LEMMA SeeAttemptStep ==
    ASSUME Inv, NEW r \in Record, SeeAttempt(r)
    PROVE  Inv'
<1> DEFINE x == [Idle EXCEPT !.at = "saw", !.rec = r, !.root = attempt[r].root,
                             !.content = attempt[r].content]
<1>1. Become(Maintenance, x)
  BY DEF SeeAttempt
<1>2. x \in Tasks /\ x.at = "saw" /\ x.rec = r /\ Maintenance \in Session
  BY SessionsAre DEF Idle, Tasks, Inv, TypeOK
<1>3. task'[Maintenance] = x
  BY <1>1, <1>2, BecomeEffect DEF Inv
<1>5. UNCHANGED <<storage, journal, tree, pub, attempt, refresh, lyrics, removing, mover, moves, faults>>
  BY DEF SeeAttempt, rows
<1>6. SessionInv(Maintenance)'
  BY <1>2, <1>3 DEF SessionInv, Holds
<1>7. /\ \A u \in Session \ {Maintenance} : Apart(Maintenance, u)' /\ Apart(u, Maintenance)'
      /\ ~Shares(Maintenance)'
  BY <1>1, <1>2, Outsider
<1> QED
  BY <1>1, <1>2, <1>5, <1>6, <1>7, TaskStep DEF Inv, TypeOK

LEMMA AskResumeStep ==
    ASSUME Inv, AskResume
    PROVE  Inv'
<1> DEFINE x == [Idle EXCEPT !.at = "wants"]
<1>1. Become(Maintenance, x) /\ storage.state = "migrating"
  BY DEF AskResume
<1>2. x \in Tasks /\ x.at = "wants" /\ Maintenance \in Session
  BY SessionsAre, IdleTask
<1>3. task'[Maintenance] = x
  BY <1>1, <1>2, BecomeEffect DEF Inv
<1>5. UNCHANGED <<storage, journal, tree, pub, attempt, refresh, lyrics, removing, mover, moves, faults>>
  BY DEF AskResume, rows
<1>6. SessionInv(Maintenance)'
  BY <1>1, <1>2, <1>3, <1>5 DEF SessionInv, Holds
<1>7. /\ \A u \in Session \ {Maintenance} : Apart(Maintenance, u)' /\ Apart(u, Maintenance)'
      /\ ~Shares(Maintenance)'
  BY <1>1, <1>2, Outsider
<1> QED
  BY <1>1, <1>2, <1>5, <1>6, <1>7, TaskStep DEF Inv, TypeOK

(* Whoever stops, with nothing done to files, leaves all as it was.        *)
LEMMA StopStep ==
    ASSUME Inv, NEW s \in Session, Become(s, Idle),
           UNCHANGED <<storage, journal, tree, pub, attempt, refresh, removing, mover, moves>>,
           lyrics' \in [Record -> {"none", "evidence", "synced"}], faults' \in Nat
    PROVE  Inv'
<1>1. Idle \in Tasks /\ Idle.at = "idle"
  BY IdleTask
<1>2. SessionInv(s)'
  BY IdleIsSafe
<1>3. (\A u \in Session \ {s} : Apart(s, u)' /\ Apart(u, s)') /\ ~Shares(s)'
  BY <1>1, Outsider
<1> QED
  BY <1>1, <1>2, <1>3, TaskStep DEF Inv, TypeOK

LEMMA SettleLyricsStep ==
    ASSUME Inv, NEW w \in Worker, SettleLyrics(w)
    PROVE  Inv'
BY StopStep, SessionsAre DEF SettleLyrics, Inv, TypeOK

LEMMA FailJobStep ==
    ASSUME Inv, NEW w \in Worker, FailJob(w)
    PROVE  Inv'
BY StopStep, SessionsAre DEF FailJob, Inv, TypeOK, rows

LEMMA ResumeFailsStep ==
    ASSUME Inv, ResumeFails
    PROVE  Inv'
BY StopStep, SessionsAre DEF ResumeFails, Inv, TypeOK, rows

-----------------------------------------------------------------------------
(* Steps that change what rows promise, with the storage ready.            *)

LEMMA CommitPreparedStep ==
    ASSUME Inv, NEW w \in Worker, CommitPrepared(w)
    PROVE  Inv'
<1> DEFINE r == task[w].rec
           x == [task[w] EXCEPT !.at = "saw"]
<1>1. /\ Become(w, x) /\ w \in Session /\ task[w].at = "publish"
      /\ UNCHANGED <<storage, journal, tree, pub, lyrics, removing, mover, moves, faults>>
  BY SessionsAre DEF CommitPrepared
<1>2. /\ r \in Record /\ task[w].root = storage.root /\ task[w].content # None /\ ~Uncleaned(r)
      /\ x \in Tasks /\ x.at = "saw" /\ x.rec = r
  <2>1. x \in Tasks /\ x.at = "saw" /\ x.rec = r
    BY <1>1, TaskTypes DEF Tasks
  <2> QED
    BY <1>1, <2>1 DEF Inv, TaskInv, SessionInv, Holds
<1>3. /\ task' \in [Session -> Tasks] /\ task'[w] = x
      /\ \A u \in Session \ {w} : task'[u] = task[u]
  BY <1>1, <1>2, BecomeEffect DEF Inv
<1>4. /\ attempt' \in [Record -> [root: Root, content: Content]]
      /\ attempt'[r] = [root |-> storage.root, content |-> task[w].content]
      /\ \A q \in Record \ {r} : attempt'[q] = attempt[q]
  BY <1>1, <1>2 DEF CommitPrepared, Inv, TypeOK
<1>5. storage.state = "ready"
  BY <1>1, NoMoveWhileShared DEF Shares
<1>6. TypeOK'
  BY <1>1, <1>3, <1>4 DEF CommitPrepared, Inv, TypeOK, Tasks
<1>7. TaskInv'
  <2>1. ASSUME NEW u \in Session \ {w}
        PROVE  SessionInv(u)'
    <3>1. Holds(u) => task[u].rec # r /\ task[u].rec \in Record
      BY <1>1 DEF Inv, TaskInv, Apart, Holds, SessionInv
    <3> QED
      BY <1>1, <1>3, <1>4, <3>1, SessionFrame DEF Inv, TaskInv, InPlace
  <2>2. SessionInv(w)'
    BY <1>2, <1>3 DEF SessionInv, Holds
  <2>3. \A u \in Session \ {w} : Apart(w, u)' /\ Apart(u, w)'
    BY <1>1, <1>2, Outsider
  <2> QED
    BY <1>1, <1>3, <2>1, <2>2, <2>3, TasksStep DEF Inv
<1>8. PubInv'
  <2>1. ASSUME NEW q \in Record
        PROVE  RecordInv(q)' /\ Served(q)'
    <3>1. CASE q # r
      BY <1>1, <1>4, <3>1, RecordFrame, ServedFrame DEF Inv, PubInv
    <3>2. CASE q = r
      BY <1>1, <1>2, <1>4, <3>2 DEF Inv, PubInv, RecordInv, Served, Uncleaned, Current
    <3> QED
      BY <3>1, <3>2
  <2> QED
    BY <2>1 DEF PubInv
<1>9. MoveInv'
  BY <1>1, <1>5, ReadyFrame DEF Inv, MoveInv
<1> QED
  BY <1>6, <1>7, <1>8, <1>9 DEF Inv

LEMMA ExposeStep ==
    ASSUME Inv, NEW s \in Session, Expose(s)
    PROVE  Inv'
<1> DEFINE r == task[s].rec
           x == [at |-> "exposed", rec |-> r, root |-> attempt[r].root,
                 content |-> attempt[r].content]
<1>1. /\ task[s].at = "saw" /\ MayShare /\ r \in Record
      /\ UNCHANGED <<storage, journal, pub, refresh, lyrics, attempt, removing, mover, moves, faults>>
  BY DEF Expose, rows, Inv, TaskInv, SessionInv
<1>2. CASE ~Uncleaned(r) \/ Locked(r) \/ StorageLocked
  BY <1>1, <1>2, StopStep DEF Expose, Inv, TypeOK
<1>3. CASE ~(~Uncleaned(r) \/ Locked(r) \/ StorageLocked)
  <2>1. /\ Put(attempt[r].root, Audio(r), attempt[r].content) /\ Become(s, x)
        /\ Uncleaned(r) /\ \A u \in Session : task[u].at = "saw" \/ task[u].rec # r
    BY <1>3 DEF Expose, Locked
  <2>2. /\ attempt[r].root = storage.root /\ attempt[r].content # None
        /\ attempt[r] \in [root: Root, content: Content] /\ storage.root \in Root
        /\ pub[r].root = storage.root
    BY <1>1, <2>1 DEF Inv, TypeOK, PubInv, RecordInv
  <2>3. storage.state = "ready"
    BY <1>1, <2>1 DEF Inv, MoveInv, Migrating, TypeOK
  <2>4. x \in Tasks
    BY <1>1, <2>2 DEF Tasks
  <2>5. /\ task' \in [Session -> Tasks] /\ task'[s] = x
        /\ \A u \in Session \ {s} : task'[u] = task[u]
    BY <2>1, <2>4, BecomeEffect DEF Inv
  <2>6. /\ tree' \in [Root -> [Names -> Content]]
        /\ tree'[storage.root][Audio(r)] = attempt[r].content
        /\ \A e \in Root, m \in Names : e # storage.root \/ m # Audio(r) => tree'[e][m] = tree[e][m]
    BY <1>1, <2>1, <2>2, PutEffect, FileNames DEF Inv
  <2>7. /\ \A q \in Record \ {r} : tree'[storage.root][Audio(q)] = tree[storage.root][Audio(q)]
        /\ \A q \in Record : tree'[storage.root][Lrc(q)] = tree[storage.root][Lrc(q)]
    BY <1>1, <2>2, <2>6, FileNames
  <2>8. TypeOK'
    BY <1>1, <2>5, <2>6 DEF Inv, TypeOK, Tasks
  <2>9. TaskInv'
    <3>1. ASSUME NEW u \in Session \ {s}
          PROVE  SessionInv(u)'
      <4>1. Holds(u) => task[u].rec # r /\ task[u].rec \in Record
        BY <2>1 DEF Inv, TaskInv, Holds, SessionInv
      <4>2. Holds(u) /\ InPlace(u) => InPlace(u)'
        BY <1>1, <2>5, <2>7, <4>1 DEF InPlace
      <4> QED
        BY <1>1, <2>5, <2>7, <4>1, <4>2, SessionFrame DEF Inv, TaskInv, Holds
    <3>2. SessionInv(s)'
      <4>1. InPlace(s)'
        BY <1>1, <2>5, <2>6 DEF InPlace
      <4> QED
        BY <1>1, <2>2, <2>5, <4>1 DEF SessionInv, Holds
    <3>3. \A u \in Session \ {s} : Apart(s, u)' /\ Apart(u, s)'
      BY <1>1, <2>1, <2>4, Newcomer
    <3> QED
      BY <2>5, <3>1, <3>2, <3>3, TasksStep DEF Inv
  <2>10. PubInv'
    <3>1. ASSUME NEW q \in Record
          PROVE  RecordInv(q)' /\ Served(q)'
      <4>1. RecordInv(q)'
        BY <1>1, RecordFrame DEF Inv, PubInv
      <4>2. CASE q # r
        BY <1>1, <2>7, <4>1, <4>2, ServedFrame DEF Inv, PubInv, RecordInv
      <4>3. CASE q = r
        BY <1>1, <2>1, <2>2, <2>6, <4>1, <4>3 DEF Served, Uncleaned
      <4> QED
        BY <4>1, <4>2, <4>3
    <3> QED
      BY <3>1 DEF PubInv
  <2>11. MoveInv'
    BY <1>1, <2>3, <2>6, ReadyFrame DEF Inv, MoveInv
  <2> QED
    BY <2>8, <2>9, <2>10, <2>11 DEF Inv
<1> QED
  BY <1>2, <1>3

LEMMA FinalizeStep ==
    ASSUME Inv, NEW s \in Session, Finalize(s)
    PROVE  Inv'
<1> DEFINE r == task[s].rec
<1>1. /\ task[s].at = "exposed" /\ Become(s, Idle)
      /\ UNCHANGED <<storage, journal, tree, refresh, removing, mover, moves, faults>>
  BY DEF Finalize
<1>2. r \in Record /\ task[s].root = storage.root /\ task[s].content # None /\ InPlace(s)
  BY <1>1 DEF Inv, TaskInv, SessionInv, Holds
<1>3. /\ task' \in [Session -> Tasks] /\ task'[s] = Idle
      /\ \A u \in Session \ {s} : task'[u] = task[u]
  BY <1>1, BecomeEffect, IdleTask DEF Inv
<1>4. NoAttempt \in [root: Root, content: Content]
  BY TreeAssumption DEF NoAttempt, Content, None
<1>5. task[s].root \in Root /\ task[s].content \in Content
  BY DEF Inv, TypeOK
<1>6. /\ attempt' \in [Record -> [root: Root, content: Content]] /\ attempt'[r] = NoAttempt
      /\ \A q \in Record \ {r} : attempt'[q] = attempt[q]
  BY <1>2, <1>4 DEF Finalize, Inv, TypeOK
<1>7. /\ pub' \in [Record -> [state: {"none", "current", "withdrawn", "inactive"},
                              root: Root, content: Content]]
      /\ pub'[r] = [state |-> "current", root |-> storage.root, content |-> task[s].content]
      /\ \A q \in Record \ {r} : pub'[q] = pub[q]
  BY <1>2, <1>5 DEF Finalize, Inv, TypeOK
<1>8. lyrics' \in [Record -> {"none", "evidence", "synced"}]
  BY DEF Finalize, Inv, TypeOK
<1>9. storage.state = "ready"
  BY <1>1, NoMoveWhileShared DEF Shares
<1>10. TypeOK'
  BY <1>1, <1>3, <1>6, <1>7, <1>8 DEF Inv, TypeOK, Tasks
<1>11. TaskInv'
  <2>1. ASSUME NEW u \in Session \ {s}
        PROVE  SessionInv(u)'
    <3>1. Holds(u) => task[u].rec # r /\ task[u].rec \in Record
      BY <1>1 DEF Inv, TaskInv, Apart, Holds, SessionInv
    <3> QED
      BY <1>1, <1>3, <1>6, <1>7, <3>1, SessionFrame DEF Inv, TaskInv, InPlace
  <2>2. SessionInv(s)'
    BY <1>1, IdleIsSafe
  <2>3. \A u \in Session \ {s} : Apart(s, u)' /\ Apart(u, s)'
    BY <1>1, Outsider, IdleTask
  <2> QED
    BY <1>3, <2>1, <2>2, <2>3, TasksStep DEF Inv
<1>12. PubInv'
  <2>1. ASSUME NEW q \in Record
        PROVE  RecordInv(q)' /\ Served(q)'
    <3>1. CASE q # r
      BY <1>1, <1>6, <1>7, <3>1, RecordFrame, ServedFrame DEF Inv, PubInv
    <3>2. CASE q = r
      BY <1>1, <1>2, <1>6, <1>7, <3>2 DEF RecordInv, Served, InPlace, Uncleaned
    <3> QED
      BY <3>1, <3>2
  <2> QED
    BY <2>1 DEF PubInv
<1>13. MoveInv'
  BY <1>1, <1>9, ReadyFrame DEF Inv, MoveInv
<1> QED
  BY <1>10, <1>11, <1>12, <1>13 DEF Inv

LEMMA WriteSidecarStep ==
    ASSUME Inv, NEW w \in Worker, WriteSidecar(w)
    PROVE  Inv'
<1> DEFINE r == task[w].rec
           x == [task[w] EXCEPT !.at = "written"]
<1>1. /\ task[w].at = "lyrics" /\ Become(w, x) /\ w \in Session
      /\ Put(task[w].root, Lrc(r), pub[r].content)
      /\ UNCHANGED <<storage, journal, pub, refresh, lyrics, attempt, removing, mover, moves, faults>>
  BY SessionsAre DEF WriteSidecar, rows
<1>2. /\ r \in Record /\ task[w].root = storage.root /\ pub[r].state # "none"
      /\ x \in Tasks /\ x.at = "written" /\ x.rec = r /\ x.root = storage.root
  <2>1. x \in Tasks /\ x.at = "written" /\ x.rec = r /\ x.root = task[w].root
    BY <1>1, TaskTypes DEF Tasks
  <2> QED
    BY <1>1, <2>1 DEF Inv, TaskInv, SessionInv, Holds
<1>3. pub[r].content \in Content \ {None} /\ storage.root \in Root
  BY <1>2 DEF Inv, TypeOK, PubInv, RecordInv
<1>4. /\ task' \in [Session -> Tasks] /\ task'[w] = x
      /\ \A u \in Session \ {w} : task'[u] = task[u]
  BY <1>1, <1>2, BecomeEffect DEF Inv
<1>5. /\ tree' \in [Root -> [Names -> Content]] /\ tree'[storage.root][Lrc(r)] # None
      /\ \A e \in Root, m \in Names : e # storage.root \/ m # Lrc(r) => tree'[e][m] = tree[e][m]
  BY <1>1, <1>2, <1>3, PutEffect, FileNames DEF Inv
<1>6. /\ \A q \in Record : tree'[storage.root][Audio(q)] = tree[storage.root][Audio(q)]
      /\ \A q \in Record \ {r} : tree'[storage.root][Lrc(q)] = tree[storage.root][Lrc(q)]
  BY <1>2, <1>3, <1>5, FileNames
<1>7. storage.state = "ready"
  BY <1>1, <1>2, NoMoveWhileShared DEF Shares
<1>8. TypeOK'
  BY <1>1, <1>4, <1>5 DEF Inv, TypeOK, Tasks
<1>9. TaskInv'
  <2>1. ASSUME NEW u \in Session \ {w}
        PROVE  SessionInv(u)'
    <3>1. Holds(u) => task[u].rec # r /\ task[u].rec \in Record
      BY <1>1 DEF Inv, TaskInv, Apart, Holds, SessionInv
    <3>2. Holds(u) /\ InPlace(u) => InPlace(u)'
      BY <1>1, <1>4, <1>6, <3>1 DEF InPlace
    <3> QED
      BY <1>1, <1>4, <1>6, <3>1, <3>2, SessionFrame DEF Inv, TaskInv, Holds
  <2>2. SessionInv(w)'
    BY <1>1, <1>2, <1>4, <1>5 DEF SessionInv, Holds
  <2>3. \A u \in Session \ {w} : Apart(w, u)' /\ Apart(u, w)'
    BY <1>1, <1>2, <1>4, Lesser DEF Inv, Holds, Shares, Excludes
  <2> QED
    BY <1>1, <1>4, <2>1, <2>2, <2>3, TasksStep DEF Inv
<1>10. PubInv'
  BY <1>1, <1>6, RecordFrame, ServedFrame DEF Inv, PubInv, RecordInv
<1>11. MoveInv'
  BY <1>1, <1>5, <1>7, ReadyFrame DEF Inv, MoveInv
<1> QED
  BY <1>8, <1>9, <1>10, <1>11 DEF Inv

-----------------------------------------------------------------------------
(* Orphans, removals, and the rest of the world.                           *)

(* No file of a publication or of an open attempt is an orphan.            *)
LEMMA NoOrphan ==
    ASSUME Inv, NEW r \in Record, pub[r].state # "none"
    PROVE  Audio(r) \notin Orphans
<1>1. pub[r].root = storage.root
  BY DEF Inv, PubInv, RecordInv
<1>2. File(pub[r].root, Audio(r)) \in Represented
  BY DEF Represented
<1> QED
  BY <1>1, <1>2 DEF Orphans

LEMMA NoOrphanAttempt ==
    ASSUME Inv, NEW r \in Record, Uncleaned(r)
    PROVE  Audio(r) \notin Orphans
<1>1. attempt[r].root = storage.root
  BY DEF Inv, PubInv, RecordInv
<1>2. File(attempt[r].root, Audio(r)) \in Represented
  BY DEF Represented
<1> QED
  BY <1>1, <1>2 DEF Orphans

LEMMA SweepStep ==
    ASSUME Inv, NEW w \in Worker, Sweep(w)
    PROVE  Inv'
<1> DEFINE x == [Idle EXCEPT !.at = "swept"]
<1>1. /\ task[w].at = "upgrade" /\ MayExclude(w) /\ Become(w, x) /\ w \in Session
      /\ UNCHANGED <<storage, journal, pub, refresh, lyrics, attempt, removing, mover, moves, faults>>
  BY SessionsAre DEF Sweep, rows
<1>2. x \in Tasks /\ x.at = "swept"
  BY IdleTask
<1>3. /\ task' \in [Session -> Tasks] /\ task'[w] = x
      /\ \A u \in Session \ {w} : task'[u] = task[u]
  BY <1>1, <1>2, BecomeEffect DEF Inv
<1>4. /\ tree' \in [Root -> [Names -> Content]]
      /\ \A n \in Names : n \notin Orphans => tree'[storage.root][n] = tree[storage.root][n]
      /\ \A d \in Root \ {storage.root} : tree'[d] = tree[d]
  <2>1. storage.root \in Root /\ tree \in [Root -> [Names -> Content]] /\ None \in Content
    BY TreeAssumption DEF Inv, TypeOK, Content, None
  <2>2. tree' = [tree EXCEPT ![storage.root] =
                   [n \in Names |-> IF n \in Orphans THEN None ELSE tree[storage.root][n]]]
    BY DEF Sweep
  <2> HIDE DEF Orphans
  <2> QED
    BY <2>1, <2>2
<1>5. storage.state = "ready"
  BY <1>1, NoMoveWhileShared DEF Shares
<1>6. \A u \in Session \ {w} : ~Shares(u) /\ ~Excludes(u) /\ ~Holds(u)
  BY <1>1 DEF MayExclude, Holds, Shares
<1>7. TypeOK'
  BY <1>1, <1>3, <1>4 DEF Inv, TypeOK, Tasks
<1>8. TaskInv'
  <2>1. \A u \in Session \ {w} : SessionInv(u)'
    BY <1>1, <1>3, <1>6, SessionFrame DEF Inv, TaskInv
  <2>2. SessionInv(w)'
    BY <1>2, <1>3 DEF SessionInv, Holds
  <2>3. \A u \in Session \ {w} : Apart(w, u)' /\ Apart(u, w)'
    BY <1>2, <1>3, <1>6 DEF Apart, Holds, Shares, Excludes
  <2> QED
    BY <1>1, <1>3, <2>1, <2>2, <2>3, TasksStep DEF Inv
<1>9. PubInv'
  <2>1. ASSUME NEW r \in Record
        PROVE  RecordInv(r)' /\ Served(r)'
    <3>1. RecordInv(r)'
      BY <1>1, RecordFrame DEF Inv, PubInv
    <3>2. Current(r) => tree'[storage.root][Audio(r)] = tree[storage.root][Audio(r)]
      BY <1>4, NoOrphan, FileNames DEF Current
    <3> QED
      BY <1>1, <3>1, <3>2, ServedFrame DEF Inv, PubInv, RecordInv
  <2> QED
    BY <2>1 DEF PubInv
<1>10. MoveInv'
  BY <1>1, <1>4, <1>5, ReadyFrame DEF Inv, MoveInv
<1> QED
  BY <1>7, <1>8, <1>9, <1>10 DEF Inv

LEMMA CommitSweepStep ==
    ASSUME Inv, NEW w \in Worker, CommitSweep(w)
    PROVE  Inv'
<1>1. /\ task[w].at = "swept" /\ Become(w, Idle) /\ w \in Session
      /\ UNCHANGED <<storage, journal, tree, lyrics, attempt, removing, mover, moves, faults>>
  BY SessionsAre DEF CommitSweep
<1>2. /\ task' \in [Session -> Tasks] /\ task'[w] = Idle
      /\ \A u \in Session \ {w} : task'[u] = task[u]
  BY <1>1, BecomeEffect, IdleTask DEF Inv
<1>3. /\ pub' \in [Record -> [state: {"none", "current", "withdrawn", "inactive"},
                              root: Root, content: Content]]
      /\ \A r \in Record : \/ pub'[r] = pub[r]
                           \/ pub[r].state = "current" /\ pub'[r] = [pub[r] EXCEPT !.state = "inactive"]
  <2> DEFINE T == [state: {"none", "current", "withdrawn", "inactive"}, root: Root, content: Content]
  <2>1. pub \in [Record -> T]
    BY DEF Inv, TypeOK
  <2>2. \A r \in Record : /\ [pub[r] EXCEPT !.state = "inactive"] \in T
                          /\ Missing(r) => pub[r].state = "current"
    BY <2>1 DEF Missing, Current
  <2>3. pub' = [r \in Record |-> IF Missing(r) THEN [pub[r] EXCEPT !.state = "inactive"]
                                 ELSE pub[r]]
    BY DEF CommitSweep
  <2> HIDE DEF T
  <2>4. pub' \in [Record -> T]
    BY <2>1, <2>2, <2>3
  <2>5. ASSUME NEW r \in Record
        PROVE  \/ pub'[r] = pub[r]
               \/ pub[r].state = "current" /\ pub'[r] = [pub[r] EXCEPT !.state = "inactive"]
    BY <2>2, <2>3
  <2> QED
    BY <2>4, <2>5 DEF T
<1>4. storage.state = "ready"
  BY <1>1, NoMoveWhileShared
<1>5. TypeOK'
  BY <1>1, <1>2, <1>3 DEF CommitSweep, Inv, TypeOK, Tasks
<1>6. TaskInv'
  <2>1. ASSUME NEW u \in Session \ {w}
        PROVE  SessionInv(u)'
    <3>1. Holds(u) => task[u].rec \in Record
      BY DEF Inv, TaskInv, SessionInv
    <3>2. ~Holds(u)
      BY <1>1 DEF Inv, TaskInv, Apart, Holds, Excludes, Shares
    <3> QED
      BY <1>1, <1>2, <3>2, SessionFrame DEF Inv, TaskInv
  <2>2. SessionInv(w)'
    BY <1>1, IdleIsSafe
  <2>3. \A u \in Session \ {w} : Apart(w, u)' /\ Apart(u, w)'
    BY <1>1, Outsider, IdleTask
  <2> QED
    BY <1>1, <1>2, <2>1, <2>2, <2>3, TasksStep DEF Inv
<1>7. PubInv'
  <2>1. ASSUME NEW r \in Record
        PROVE  RecordInv(r)' /\ Served(r)'
    <3>1. CASE pub'[r] = pub[r]
      BY <1>1, <3>1, RecordFrame, ServedFrame DEF Inv, PubInv
    <3>2. CASE pub[r].state = "current" /\ pub'[r] = [pub[r] EXCEPT !.state = "inactive"]
      <4>1. /\ pub'[r].state = "inactive" /\ pub'[r].root = pub[r].root
            /\ pub'[r].content = pub[r].content
        BY <3>2 DEF Inv, TypeOK
      <4> QED
        BY <1>1, <3>2, <4>1 DEF Inv, PubInv, RecordInv, Served, Current, Uncleaned
    <3> QED
      BY <1>3, <3>1, <3>2
  <2> QED
    BY <2>1 DEF PubInv
<1>8. MoveInv'
  BY <1>1, <1>4, ReadyFrame DEF Inv, MoveInv
<1> QED
  BY <1>5, <1>6, <1>7, <1>8 DEF Inv

LEMMA WithdrawStep ==
    ASSUME Inv, NEW r \in Record, Withdraw(r)
    PROVE  Inv'
<1>1. /\ storage.state = "ready" /\ pub[r].state \in {"current", "withdrawn"}
      /\ removing' = removing \union {r}
      /\ UNCHANGED <<storage, journal, tree, refresh, attempt, task, mover, moves, faults>>
  BY DEF Withdraw
<1>2. /\ pub' \in [Record -> [state: {"none", "current", "withdrawn", "inactive"},
                              root: Root, content: Content]]
      /\ pub'[r].state = "withdrawn" /\ pub'[r].root = pub[r].root
      /\ pub'[r].content = pub[r].content
      /\ \A q \in Record \ {r} : pub'[q] = pub[q]
  BY DEF Withdraw, Withdrawn, Inv, TypeOK
<1>3. lyrics' \in [Record -> {"none", "evidence", "synced"}]
  BY DEF Withdraw, Inv, TypeOK
<1>4. TypeOK'
  BY <1>1, <1>2, <1>3 DEF Inv, TypeOK
<1>5. TaskInv'
  <2>1. ASSUME NEW u \in Session
        PROVE  SessionInv(u)'
    <3>1. Holds(u) => task[u].rec \in Record
      BY DEF Inv, TaskInv, SessionInv
    <3> QED
      BY <1>1, <1>2, <3>1, SessionFrame DEF Inv, TaskInv, InPlace
  <2> QED
    BY <1>1, <2>1, PairFrame DEF Inv, TaskInv
<1>6. PubInv'
  <2>1. ASSUME NEW q \in Record
        PROVE  RecordInv(q)' /\ Served(q)'
    <3>1. CASE q # r
      BY <1>1, <1>2, <3>1, RecordFrame, ServedFrame DEF Inv, PubInv
    <3>2. CASE q = r
      BY <1>1, <1>2, <3>2 DEF Inv, PubInv, RecordInv, Served, Current, Uncleaned
    <3> QED
      BY <3>1, <3>2
  <2> QED
    BY <2>1 DEF PubInv
<1>7. MoveInv'
  BY <1>1, ReadyFrame DEF Inv, MoveInv
<1> QED
  BY <1>4, <1>5, <1>6, <1>7 DEF Inv

(* Only files change, with the storage ready: no sidecar in use, no audio  *)
(* that is published or being exposed, and elsewhere files only vanish.    *)
LEMMA TreeStep ==
    ASSUME Inv, storage.state = "ready",
           UNCHANGED <<storage, journal, pub, refresh, lyrics, attempt, task, mover, moves>>,
           tree' \in [Root -> [Names -> Content]], removing' \subseteq Record, faults' \in Nat,
           \A d \in Root, n \in Names : d # storage.root => tree'[d][n] \in {tree[d][n], None},
           \A q \in Record : tree'[storage.root][Lrc(q)] = tree[storage.root][Lrc(q)],
           \A q \in Record \ Losable :
             Current(q) \/ (\E s \in Session : task[s].at = "exposed" /\ task[s].rec = q)
               => tree'[storage.root][Audio(q)] = tree[storage.root][Audio(q)]
    PROVE  Inv'
<1>1. TypeOK'
  BY DEF Inv, TypeOK
<1>2. TaskInv'
  <2>1. ASSUME NEW u \in Session
        PROVE  SessionInv(u)'
    <3>1. Holds(u) => task[u].rec \in Record
      BY DEF Inv, TaskInv, SessionInv
    <3>2. task[u].at = "exposed" /\ InPlace(u) => InPlace(u)'
      BY <3>1 DEF InPlace, Holds
    <3> QED
      BY <3>1, <3>2, SessionFrame DEF Inv, TaskInv
  <2> QED
    BY <2>1, PairFrame DEF Inv, TaskInv
<1>3. PubInv'
  BY RecordFrame, ServedFrame DEF Inv, PubInv, RecordInv
<1>4. MoveInv'
  BY ReadyFrame DEF Inv, MoveInv
<1> QED
  BY <1>1, <1>2, <1>3, <1>4 DEF Inv

LEMMA UnlinkStep ==
    ASSUME Inv, NEW r \in Record, Unlink(r)
    PROVE  Inv'
<1>1. /\ ~StorageLocked /\ removing' = removing \ {r}
      /\ UNCHANGED <<storage, journal, pub, refresh, lyrics, attempt, task, mover, moves, faults>>
  BY DEF Unlink, rows
<1>2. CASE UNCHANGED tree
  <2>1. TypeOK' /\ TaskInv'
    BY <1>1, <1>2, SessionFixed, PairFrame DEF Inv, TypeOK, TaskInv
  <2>2. PubInv'
    BY <1>1, <1>2, RecordFrame, ServedFrame DEF Inv, PubInv
  <2>3. MoveInv'
    <3>1. CASE storage.state = "migrating"
      <4>1. \A s \in Session : ~Shares(s)' /\ task'[s].at # "swept"
        BY <1>1, <3>1 DEF Inv, MoveInv, Migrating, Shares
      <4> QED
        BY <1>1, <1>2, <3>1, <4>1, MigratingFrame DEF Inv, MoveInv
    <3>2. CASE storage.state # "migrating"
      BY <1>1, <1>2, <3>2, ReadyFrame DEF Inv, MoveInv
    <3> QED
      BY <3>1, <3>2
  <2> QED
    BY <2>1, <2>2, <2>3 DEF Inv
<1>3. CASE /\ storage.state = "ready" /\ pub[r].state = "withdrawn"
           /\ Put(pub[r].root, Audio(r), None)
  <2>1. pub[r].root = storage.root /\ storage.root \in Root /\ None \in Content
    BY TreeAssumption DEF Inv, PubInv, RecordInv, TypeOK, Content, None
  <2>2. /\ tree' \in [Root -> [Names -> Content]]
        /\ \A e \in Root, m \in Names : e # storage.root \/ m # Audio(r) => tree'[e][m] = tree[e][m]
    BY <1>3, <2>1, PutEffect, FileNames DEF Inv
  <2>3. /\ \A q \in Record \ {r} : tree'[storage.root][Audio(q)] = tree[storage.root][Audio(q)]
        /\ \A q \in Record : tree'[storage.root][Lrc(q)] = tree[storage.root][Lrc(q)]
    BY <2>1, <2>2, FileNames
  <2>4. ~Current(r) /\ \A s \in Session : task[s].at # "exposed"
    BY <1>1, <1>3 DEF Current, StorageLocked
  <2>5. removing' \subseteq Record /\ faults' \in Nat
    BY <1>1 DEF Inv, TypeOK
  <2> QED
    BY <1>1, <1>3, <2>2, <2>3, <2>4, <2>5, TreeStep
<1> QED
  BY <1>2, <1>3 DEF Unlink

LEMMA DescribeStep ==
    ASSUME Inv, Describe
    PROVE  Inv'
<1>1. /\ storage.state = "ready" /\ Put(storage.root, Nfo, 1)
      /\ UNCHANGED <<storage, journal, pub, refresh, lyrics, attempt, task, mover, moves, faults, removing>>
  BY DEF Describe, rows
<1>2. storage.root \in Root /\ 1 \in Content /\ Nfo \in Names /\ removing' \subseteq Record /\ faults' \in Nat
  BY <1>1, TreeAssumption DEF Inv, TypeOK, Content, Names
<1>3. /\ tree' \in [Root -> [Names -> Content]]
      /\ \A e \in Root, m \in Names : e # storage.root \/ m # Nfo => tree'[e][m] = tree[e][m]
  BY <1>1, <1>2, PutEffect DEF Inv
<1>4. \A q \in Record : /\ tree'[storage.root][Audio(q)] = tree[storage.root][Audio(q)]
                        /\ tree'[storage.root][Lrc(q)] = tree[storage.root][Lrc(q)]
  BY <1>2, <1>3, FileNames
<1> QED
  BY <1>1, <1>2, <1>3, <1>4, TreeStep

LEMMA ClearStep ==
    ASSUME Inv, NEW d \in Root, Clear(d)
    PROVE  Inv'
<1>1. /\ storage.state = "ready" /\ d # storage.root
      /\ tree' = [tree EXCEPT ![d] = [n \in Names |-> None]]
      /\ UNCHANGED <<storage, journal, pub, refresh, lyrics, attempt, task, mover, moves, faults, removing>>
  BY DEF Clear, rows
<1>2. storage.root \in Root /\ None \in Content /\ removing' \subseteq Record /\ faults' \in Nat
  BY <1>1, TreeAssumption DEF Inv, TypeOK, Content, None
<1>3. /\ tree' \in [Root -> [Names -> Content]] /\ tree'[storage.root] = tree[storage.root]
      /\ \A e \in Root, m \in Names : tree'[e][m] \in {tree[e][m], None}
  BY <1>1, <1>2 DEF Inv, TypeOK
<1> QED
  BY <1>1, <1>2, <1>3, TreeStep

LEMMA LoseStep ==
    ASSUME Inv, NEW r \in Record, Lose(r)
    PROVE  Inv'
<1>1. /\ storage.state = "ready" /\ r \in Losable /\ Put(pub[r].root, Audio(r), None)
      /\ faults' = faults + 1
      /\ UNCHANGED <<storage, journal, pub, refresh, lyrics, attempt, task, mover, moves, removing>>
  BY DEF Lose, rows
<1>2. /\ pub[r].root = storage.root /\ storage.root \in Root /\ None \in Content
      /\ removing' \subseteq Record /\ faults' \in Nat
  BY <1>1, TreeAssumption DEF Inv, PubInv, RecordInv, TypeOK, Content, None
<1>3. /\ tree' \in [Root -> [Names -> Content]]
      /\ \A e \in Root, m \in Names : e # storage.root \/ m # Audio(r) => tree'[e][m] = tree[e][m]
  BY <1>1, <1>2, PutEffect, FileNames DEF Inv
<1>4. /\ \A q \in Record \ {r} : tree'[storage.root][Audio(q)] = tree[storage.root][Audio(q)]
      /\ \A q \in Record : tree'[storage.root][Lrc(q)] = tree[storage.root][Lrc(q)]
  BY <1>2, <1>3, FileNames
<1> QED
  BY <1>1, <1>2, <1>3, <1>4, TreeStep

-----------------------------------------------------------------------------
(* Moving the output.                                                      *)

(* A request comes and goes.                                               *)
LEMMA MoverStep ==
    ASSUME Inv, UNCHANGED <<rows, tree, removing, task, faults>>,
           mover' \in Root \union {"none"}, moves' \in Nat
    PROVE  Inv'
<1>1. UNCHANGED <<storage, journal, pub, refresh, lyrics, attempt, tree, removing, task, faults>>
  BY DEF rows
<1>2. TypeOK' /\ TaskInv'
  BY <1>1, SessionFixed, PairFrame DEF Inv, TypeOK, TaskInv
<1>3. PubInv'
  BY <1>1, RecordFrame, ServedFrame DEF Inv, PubInv
<1>4. MoveInv'
  <2>1. CASE storage.state = "migrating"
    <3>1. \A s \in Session : ~Shares(s)' /\ task'[s].at # "swept"
      BY <1>1, <2>1 DEF Inv, MoveInv, Migrating, Shares
    <3> QED
      BY <1>1, <2>1, <3>1, MigratingFrame DEF Inv, MoveInv
  <2>2. CASE storage.state # "migrating"
    BY <1>1, <2>2, ReadyFrame DEF Inv, MoveInv
  <2> QED
    BY <2>1, <2>2
<1> QED
  BY <1>2, <1>3, <1>4 DEF Inv

LEMMA AskMoveStep ==
    ASSUME Inv, NEW d \in Root, AskMove(d)
    PROVE  Inv'
BY MoverStep DEF AskMove, Inv, TypeOK

LEMMA MoveStep ==
    ASSUME Inv, Move
    PROVE  Inv'
<1>1. /\ mover # "none" /\ Granted /\ mover' = "none"
      /\ UNCHANGED <<tree, pub, refresh, lyrics, attempt, removing, task, moves, faults>>
  BY DEF Move
<1>2. CASE ~Acceptable(mover)
  BY <1>1, <1>2, MoverStep DEF Move, rows, Inv, TypeOK
<1>3. CASE Acceptable(mover)
  <2> DEFINE old == storage.root
  <2>1. /\ storage' = [storage EXCEPT !.state = "migrating"]
        /\ journal' = [phase |-> "copying", source |-> old, destination |-> mover,
                       files |-> Manifest(old), hash |-> tree[old], managed |-> Managed(old),
                       passed |-> {}]
    BY <1>3 DEF Move
  <2>2. /\ storage.state = "ready" /\ mover # old /\ mover \in Root /\ old \in Root
        /\ \A r \in Record : ~Uncleaned(r)
    BY <1>1, <1>3 DEF Acceptable, Inv, TypeOK
  <2>3. storage'.state = "migrating" /\ storage'.root = old
        /\ storage' \in [state: {"ready", "migrating"}, root: Root]
    BY <2>1 DEF Inv, TypeOK
  <2>4. /\ Manifest(old) \subseteq Names /\ Managed(old) \subseteq Names
        /\ tree[old] \in [Names -> Content]
    BY <2>2, FileNames DEF Manifest, Managed, Inv, TypeOK
  <2>5. \A s \in Session : ~Shares(s) /\ ~Excludes(s) /\ task[s].at \notin {"swept", "moved"}
    BY <1>1 DEF Granted, Excludes
  <2>6. TypeOK'
    BY <1>1, <2>1, <2>2, <2>3, <2>4 DEF Inv, TypeOK
  <2>7. TaskInv'
    <3>1. \A u \in Session : SessionInv(u)'
      BY <1>1, <2>2, <2>3, SessionFrame DEF Inv, TaskInv, SessionInv, InPlace
    <3> QED
      BY <1>1, <3>1, PairFrame DEF Inv, TaskInv
  <2>8. PubInv'
    BY <1>1, <2>3, RecordFrame, ServedFrame DEF Inv, PubInv
  <2>9. Migrating'
    <3>1. \A s \in Session : ~Shares(s)' /\ task'[s].at \notin {"swept", "moved"}
      BY <1>1, <2>5 DEF Shares
    <3>2. \A r \in Record : ~Uncleaned(r)'
      BY <1>1, <2>2 DEF Uncleaned
    <3>3. /\ journal'.files = {n \in Names : journal'.hash[n] # None}
          /\ journal'.source # journal'.destination /\ journal'.phase = "copying"
      BY <2>1, <2>2 DEF Manifest
    <3>4. Copying'
      BY <1>1, <2>1, <2>3 DEF Copying
    <3> QED
      BY <3>1, <3>2, <3>3, <3>4, SessionsAre DEF Migrating
  <2> QED
    BY <2>3, <2>6, <2>7, <2>8, <2>9 DEF Inv, MoveInv
<1> QED
  BY <1>2, <1>3

(* Whoever resumes a move is alone, and the next file is one of its files. *)
LEMMA Alone ==
    ASSUME Inv, Resuming \/ task[Maintenance].at = "moved"
    PROVE  /\ storage.state = "migrating" /\ Migrating
           /\ \A s \in Session : ~Holds(s) /\ ~Shares(s)
           /\ \A s \in Session \ {Maintenance} : ~Excludes(s)
                                               /\ task[s].at \notin {"wants", "moved"}
<1>1. storage.state = "migrating" /\ Migrating
  BY WhileResuming DEF Resuming
<1>2. \A s \in Session : ~Holds(s) /\ ~Shares(s)
  BY <1>1 DEF Migrating, Holds, Shares
<1>3. \A s \in Session \ {Maintenance} : task[s].at \notin {"wants", "moved"}
  BY DEF Inv, TaskInv, SessionInv
<1> QED
  BY <1>1, <1>2, <1>3 DEF Migrating, Excludes

LEMMA NextFile ==
    ASSUME Inv, Rest # {}
    PROVE  Item \in Rest /\ Item \in Names /\ Item \in journal.files
<1>1. Rest \subseteq Names /\ Rest \subseteq journal.files
  BY DEF Inv, TypeOK, Rest
<1> QED
  BY <1>1 DEF Item

(* The tasks stay sound when the maintenance session, alone with the       *)
(* output, takes a step.                                                   *)
LEMMA ResumeTasks ==
    ASSUME Inv, Resuming \/ task[Maintenance].at = "moved", NEW x \in Tasks, Become(Maintenance, x),
           x.at \in {"idle", "moved"}, x.at = "moved" => storage'.state = "migrating"
    PROVE  /\ task' \in [Session -> Tasks] /\ task'[Maintenance] = x /\ TaskInv'
           /\ \A s \in Session : ~Shares(s)' /\ task'[s].at # "swept"
<1>1. /\ task' \in [Session -> Tasks] /\ task'[Maintenance] = x /\ Maintenance \in Session
      /\ \A u \in Session \ {Maintenance} : task'[u] = task[u]
  BY BecomeEffect, SessionsAre DEF Inv
<1>2. \A s \in Session \ {Maintenance} : /\ ~Holds(s)' /\ ~Shares(s)' /\ ~Excludes(s)'
                                       /\ SessionInv(s) /\ task[s].at \notin {"wants", "moved"}
                                       /\ ~Holds(s) /\ task'[s].at # "swept"
  BY <1>1, Alone DEF Holds, Shares, Excludes, Inv, TaskInv, Migrating
<1>3. ~Holds(Maintenance)' /\ ~Shares(Maintenance)' /\ task'[Maintenance].at # "swept"
  BY <1>1 DEF Holds, Shares
<1>4. SessionInv(Maintenance)'
  BY <1>1, <1>3 DEF SessionInv, Holds
<1>5. \A u \in Session \ {Maintenance} : SessionInv(u)'
  BY <1>1, <1>2, SessionFrame
<1>6. \A u \in Session \ {Maintenance} : Apart(Maintenance, u)' /\ Apart(u, Maintenance)'
  BY <1>2, <1>3 DEF Apart
<1>7. TaskInv'
  BY <1>1, <1>4, <1>5, <1>6, TasksStep DEF Inv
<1> QED
  BY <1>1, <1>2, <1>3, <1>7

LEMMA CopyFileStep ==
    ASSUME Inv, CopyFile
    PROVE  Inv'
<1> DEFINE x == [Idle EXCEPT !.at = "moved"]
<1>1. /\ Resuming /\ journal.phase = "copying" /\ Rest # {} /\ Become(Maintenance, x)
      /\ Put(journal.destination, Item, journal.hash[Item])
      /\ UNCHANGED <<storage, journal, pub, refresh, lyrics, attempt, removing, mover, moves, faults>>
  BY DEF CopyFile, rows
<1>2. x \in Tasks /\ x.at = "moved"
  BY IdleTask
<1>3. /\ storage.state = "migrating" /\ Migrating /\ storage.root = journal.source
      /\ journal.source # journal.destination /\ Copying
  BY <1>1, Alone DEF Migrating, Copying
<1>4. Item \in Names /\ journal.destination \in Root /\ journal.hash[Item] \in Content
      /\ journal.source \in Root
  BY <1>1, NextFile DEF Inv, TypeOK
<1>5. /\ tree' \in [Root -> [Names -> Content]]
      /\ \A n \in Names : tree'[journal.source][n] = tree[journal.source][n]
  BY <1>1, <1>3, <1>4, PutEffect DEF Inv
<1>6. /\ task' \in [Session -> Tasks] /\ task'[Maintenance] = x /\ TaskInv'
      /\ \A s \in Session : ~Shares(s)' /\ task'[s].at # "swept"
  BY <1>1, <1>2, <1>3, ResumeTasks
<1>7. TypeOK'
  BY <1>1, <1>5, <1>6 DEF Inv, TypeOK, Tasks
<1>8. PubInv'
  BY <1>1, <1>3, <1>5, RecordFrame, ServedFrame, FileNames DEF Inv, PubInv, RecordInv
<1>9. Migrating'
  <2>1. Copying' /\ (\A r \in Record : ~Uncleaned(r)') /\ Rest' # {}
    BY <1>1, <1>3, <1>5 DEF Copying, Migrating, Uncleaned, Rest
  <2> QED
    BY <1>1, <1>3, <1>6, <2>1 DEF Migrating
<1> QED
  BY <1>1, <1>3, <1>6, <1>7, <1>8, <1>9 DEF Inv, MoveInv

LEMMA RemoveOldStep ==
    ASSUME Inv, RemoveOld
    PROVE  Inv'
<1> DEFINE x == [Idle EXCEPT !.at = "moved"]
<1>1. /\ Resuming /\ journal.phase = "cleanup" /\ Rest # {} /\ Become(Maintenance, x)
      /\ UNCHANGED <<storage, journal, pub, refresh, lyrics, attempt, removing, mover, moves, faults>>
  BY DEF RemoveOld, rows
<1>2. x \in Tasks /\ x.at = "moved"
  BY IdleTask
<1>3. /\ storage.state = "migrating" /\ Migrating /\ storage.root = journal.destination
      /\ journal.source # journal.destination /\ Cleaning /\ task[Maintenance].at # "moved"
  BY <1>1, Alone DEF Migrating, Cleaning, Resuming
<1>4. Item \in Names /\ Item \in Rest /\ journal.source \in Root /\ None \in Content
      /\ journal.destination \in Root
  BY <1>1, NextFile, TreeAssumption DEF Inv, TypeOK, Content, None
<1>5. /\ tree' \in [Root -> [Names -> Content]]
      /\ \A n \in Names : tree'[journal.destination][n] = tree[journal.destination][n]
      /\ \A n \in Names : tree'[journal.source][n] \in {tree[journal.source][n], None}
      /\ Item \in journal.managed => tree'[journal.source][Item] = None
  <2>1. CASE Item \notin journal.managed
    <3>1. UNCHANGED tree
      BY <2>1 DEF RemoveOld
    <3> QED
      BY <2>1, <3>1 DEF Inv, TypeOK
  <2>2. CASE Item \in journal.managed
    <3>1. Put(journal.source, Item, None)
      BY <2>2 DEF RemoveOld
    <3> QED
      BY <1>3, <1>4, <3>1, PutEffect DEF Inv
  <2> QED
    BY <2>1, <2>2
<1>6. /\ task' \in [Session -> Tasks] /\ task'[Maintenance] = x /\ TaskInv'
      /\ \A s \in Session : ~Shares(s)' /\ task'[s].at # "swept"
  BY <1>1, <1>2, <1>3, ResumeTasks
<1>7. TypeOK'
  BY <1>1, <1>5, <1>6 DEF Inv, TypeOK, Tasks
<1>8. PubInv'
  BY <1>1, <1>3, <1>5, RecordFrame, ServedFrame, FileNames DEF Inv, PubInv, RecordInv
<1>9. Migrating'
  <2>1. (\A r \in Record : ~Uncleaned(r)') /\ Rest' = Rest /\ Item' = Item
    BY <1>1, <1>3 DEF Migrating, Uncleaned, Rest, Item
  <2>2. Passed' = journal.passed \union {Item} /\ Passed = journal.passed
    BY <1>1, <1>2, <1>3, <1>6, <2>1 DEF Passed
  <2>3. journal.files \subseteq Names /\ journal.managed \subseteq Names
    BY DEF Inv, TypeOK
  <2>4. \A n \in Passed' \intersect journal.managed : tree'[journal.source][n] = None
    BY <1>3, <1>5, <2>2, <2>3 DEF Cleaning
  <2>5. /\ \A n \in journal.files : tree'[journal.destination][n] = journal.hash[n]
        /\ \A n \in Names : tree'[journal.source][n] \in {None, journal.hash[n]}
    BY <1>3, <1>5, <2>3 DEF Cleaning
  <2>6. Cleaning'
    BY <1>1, <1>3, <2>4, <2>5 DEF Cleaning
  <2> QED
    BY <1>1, <1>3, <1>6, <2>1, <2>6 DEF Migrating
<1> QED
  BY <1>1, <1>3, <1>6, <1>7, <1>8, <1>9 DEF Inv, MoveInv

LEMMA CommitCursorStep ==
    ASSUME Inv, CommitCursor
    PROVE  Inv'
<1>1. /\ task[Maintenance].at = "moved" /\ Become(Maintenance, Idle)
      /\ journal' = [journal EXCEPT !.passed = @ \union {Item}]
      /\ UNCHANGED <<storage, tree, pub, refresh, lyrics, attempt, removing, mover, moves, faults>>
  BY DEF CommitCursor
<1>2. Idle \in Tasks /\ Idle.at = "idle"
  BY IdleTask
<1>3. storage.state = "migrating" /\ Migrating /\ Rest # {}
  BY <1>1, Alone DEF Migrating
<1>4. Item \in Names
  BY <1>3, NextFile
<1>5. /\ journal'.passed = journal.passed \union {Item} /\ journal'.phase = journal.phase
      /\ journal'.source = journal.source /\ journal'.destination = journal.destination
      /\ journal'.files = journal.files /\ journal'.hash = journal.hash
      /\ journal'.managed = journal.managed
  BY <1>1 DEF Inv, TypeOK
<1>6. /\ task' \in [Session -> Tasks] /\ task'[Maintenance] = Idle /\ TaskInv'
      /\ \A s \in Session : ~Shares(s)' /\ task'[s].at # "swept"
  BY <1>1, <1>2, ResumeTasks
<1>7. TypeOK'
  BY <1>1, <1>4, <1>6 DEF Inv, TypeOK, Tasks
<1>8. PubInv'
  BY <1>1, RecordFrame, ServedFrame DEF Inv, PubInv
<1>9. Migrating'
  <2>1. Passed' = Passed
    BY <1>1, <1>2, <1>5, <1>6 DEF Passed
  <2>2. Copying => Copying'
    BY <1>1, <1>5 DEF Copying
  <2>3. Cleaning => Cleaning'
    BY <1>1, <1>5, <2>1 DEF Cleaning
  <2>4. \A r \in Record : ~Uncleaned(r)'
    BY <1>1, <1>3 DEF Migrating, Uncleaned
  <2> QED
    BY <1>2, <1>3, <1>5, <1>6, <2>2, <2>3, <2>4 DEF Migrating
<1> QED
  BY <1>1, <1>3, <1>6, <1>7, <1>8, <1>9 DEF Inv, MoveInv

LEMMA SwitchStep ==
    ASSUME Inv, Switch
    PROVE  Inv'
<1>1. /\ Resuming /\ journal.phase = "copying" /\ Rest = {} /\ Become(Maintenance, Idle)
      /\ \A n \in journal.files : tree[journal.destination][n] = journal.hash[n]
      /\ UNCHANGED <<tree, refresh, lyrics, attempt, removing, mover, moves, faults>>
  BY DEF Switch
<1>2. Idle \in Tasks /\ Idle.at = "idle"
  BY IdleTask
<1>3. /\ storage.state = "migrating" /\ Migrating /\ storage.root = journal.source
      /\ journal.source # journal.destination /\ Copying
  BY <1>1, Alone DEF Migrating, Copying
<1>4. /\ journal.source \in Root /\ journal.destination \in Root
      /\ journal.files \subseteq Names /\ journal.managed \subseteq Names
  BY DEF Inv, TypeOK
<1>5. /\ storage'.root = journal.destination /\ storage'.state = "migrating"
      /\ storage' \in [state: {"ready", "migrating"}, root: Root]
  BY <1>3, <1>4 DEF Switch, Inv, TypeOK
<1>6. /\ journal'.passed = {} /\ journal'.phase = "cleanup"
      /\ journal'.source = journal.source /\ journal'.destination = journal.destination
      /\ journal'.files = journal.files /\ journal'.hash = journal.hash
      /\ journal'.managed = journal.managed
  BY DEF Switch, Inv, TypeOK
<1>7. journal' \in [phase: {"copying", "cleanup", "complete"}, source: Root, destination: Root,
                    files: SUBSET Names, hash: [Names -> Content], managed: SUBSET Names,
                    passed: SUBSET Names]
  BY DEF Switch, Inv, TypeOK
<1>8. \A r \in Record : /\ pub'[r].root = journal.destination /\ pub'[r].state = pub[r].state
                        /\ pub'[r].content = pub[r].content
                        /\ pub[r].root = journal.source
  BY <1>3 DEF Switch, Inv, TypeOK, PubInv, RecordInv
<1>9. pub' \in [Record -> [state: {"none", "current", "withdrawn", "inactive"},
                           root: Root, content: Content]]
  <2> DEFINE T == [state: {"none", "current", "withdrawn", "inactive"}, root: Root, content: Content]
  <2>1. pub \in [Record -> T]
    BY DEF Inv, TypeOK
  <2>2. \A r \in Record : [pub[r] EXCEPT !.root = journal.destination] \in T
    BY <1>4, <2>1
  <2>3. pub' = [r \in Record |-> IF pub[r].root = journal.source
                                 THEN [pub[r] EXCEPT !.root = journal.destination] ELSE pub[r]]
    BY DEF Switch
  <2> HIDE DEF T
  <2>4. pub' \in [Record -> T]
    BY <2>1, <2>2, <2>3
  <2> QED
    BY <2>4 DEF T
<1>10. /\ task' \in [Session -> Tasks] /\ task'[Maintenance] = Idle /\ TaskInv'
       /\ \A s \in Session : ~Shares(s)' /\ task'[s].at # "swept"
  BY <1>1, <1>2, ResumeTasks
<1>11. TypeOK'
  BY <1>1, <1>5, <1>7, <1>9, <1>10 DEF Inv, TypeOK, Tasks
<1>12. \A r \in Record : ~Uncleaned(r) /\ ~Uncleaned(r)'
  BY <1>1, <1>3 DEF Migrating, Uncleaned
<1>13. PubInv'
  <2>1. ASSUME NEW r \in Record
        PROVE  RecordInv(r)' /\ Served(r)'
    <3>1. RecordInv(r)'
      BY <1>5, <1>8, <1>12 DEF Inv, PubInv, RecordInv
    <3>2. ASSUME r \notin Losable, Current(r)
          PROVE  tree[journal.destination][Audio(r)] = pub[r].content
      <4>1. tree[journal.source][Audio(r)] = pub[r].content /\ pub[r].content # None
        BY <1>8, <1>12, <3>2 DEF Inv, PubInv, RecordInv, Served, Current
      <4>2. Audio(r) \in journal.files /\ journal.hash[Audio(r)] = pub[r].content
        BY <1>3, <4>1, FileNames DEF Copying, Migrating
      <4> QED
        BY <1>1, <4>2
    <3> QED
      BY <1>1, <1>8, <3>1, <3>2 DEF Served, Current
  <2> QED
    BY <2>1 DEF PubInv
<1>14. Migrating'
  <2>1. Passed' = {}
    BY <1>2, <1>6, <1>10 DEF Passed
  <2>2. \A n \in Names : tree[journal.source][n] \in {None, journal.hash[n]}
    BY <1>3 DEF Copying
  <2>3. Cleaning'
    BY <1>1, <1>5, <1>6, <2>1, <2>2 DEF Cleaning
  <2> QED
    BY <1>2, <1>3, <1>6, <1>10, <1>12, <2>3 DEF Migrating
<1> QED
  BY <1>5, <1>10, <1>11, <1>13, <1>14 DEF Inv, MoveInv

LEMMA CompleteStep ==
    ASSUME Inv, Complete
    PROVE  Inv'
<1>1. /\ Resuming /\ journal.phase = "cleanup" /\ Rest = {} /\ Become(Maintenance, Idle)
      /\ storage' = [storage EXCEPT !.state = "ready"]
      /\ journal' = [journal EXCEPT !.phase = "complete"]
      /\ UNCHANGED <<tree, pub, refresh, lyrics, attempt, removing, mover, moves, faults>>
  BY DEF Complete
<1>2. Idle \in Tasks /\ Idle.at = "idle"
  BY IdleTask
<1>3. /\ storage.state = "migrating" /\ Migrating /\ storage.root = journal.destination
      /\ journal.source # journal.destination /\ Cleaning
  BY <1>1, Alone DEF Migrating, Cleaning
<1>4. /\ storage'.root = storage.root /\ storage'.state = "ready"
      /\ journal'.phase = "complete" /\ journal'.source = journal.source
      /\ journal'.managed = journal.managed /\ journal.managed \subseteq Names
  BY <1>1 DEF Inv, TypeOK
<1>5. /\ task' \in [Session -> Tasks] /\ task'[Maintenance] = Idle /\ TaskInv'
      /\ \A s \in Session : ~Shares(s)' /\ task'[s].at # "swept"
  BY <1>1, <1>2, ResumeTasks
<1>6. TypeOK'
  BY <1>1, <1>5 DEF Inv, TypeOK, Tasks
<1>7. PubInv'
  BY <1>1, <1>4, RecordFrame, ServedFrame DEF Inv, PubInv
<1>8. \A n \in journal.managed : tree[journal.source][n] = None
  <2>1. ASSUME NEW n \in journal.managed
        PROVE  tree[journal.source][n] = None
    <3>1. CASE n \in journal.files
      BY <1>1, <1>3, <3>1 DEF Cleaning, Passed, Rest
    <3>2. CASE n \notin journal.files
      BY <1>3, <1>4, <3>2 DEF Cleaning, Migrating
    <3> QED
      BY <3>1, <3>2
  <2> QED
    BY <2>1
<1>9. Ready'
  BY <1>1, <1>3, <1>4, <1>8 DEF Ready
<1> QED
  BY <1>4, <1>5, <1>6, <1>7, <1>9 DEF Inv, MoveInv

LEMMA CrashStep ==
    ASSUME Inv, Crash
    PROVE  Inv'
<1>1. /\ task' = [s \in Session |-> Idle] /\ mover' = "none" /\ removing' = {}
      /\ faults' = faults + 1
      /\ UNCHANGED <<storage, journal, pub, refresh, lyrics, attempt, tree, moves>>
  BY DEF Crash, rows
<1>2. task' \in [Session -> Tasks] /\ \A s \in Session : task'[s].at = "idle"
  BY <1>1, IdleTask
<1>3. \A s \in Session : ~Holds(s)' /\ ~Shares(s)' /\ ~Excludes(s)'
  BY <1>2 DEF Holds, Shares, Excludes
<1>4. TypeOK'
  BY <1>1, <1>2 DEF Inv, TypeOK, Tasks
<1>5. TaskInv'
  BY <1>2, <1>3 DEF TaskInv, SessionInv, Apart
<1>6. PubInv'
  BY <1>1, RecordFrame, ServedFrame DEF Inv, PubInv
<1>7. MoveInv'
  BY <1>1, <1>2, <1>3, SessionsAre, ReadyFrame, MigratingFrame DEF Inv, MoveInv
<1> QED
  BY <1>4, <1>5, <1>6, <1>7 DEF Inv

-----------------------------------------------------------------------------
(* The invariant.                                                          *)

LEMMA Starts == Init => Inv
<1> SUFFICES ASSUME Init
             PROVE  Inv
  OBVIOUS
<1> USE TreeAssumption DEF Init
<1>1. /\ None \in Content /\ NoMove.phase = "complete" /\ NoMove.managed = {}
      /\ Idle \in Tasks /\ Idle.at = "idle"
  BY IdleTask DEF Content, None, NoMove
<1>2. TypeOK
  <2>1. journal \in [phase: {"copying", "cleanup", "complete"}, source: Root, destination: Root,
                     files: SUBSET Names, hash: [Names -> Content], managed: SUBSET Names,
                     passed: SUBSET Names]
    BY <1>1 DEF NoMove
  <2>2. attempt \in [Record -> [root: Root, content: Content]]
    BY <1>1 DEF NoAttempt
  <2>3. task \in [Session -> Tasks] /\ tree \in [Root -> [Names -> Content]]
    BY <1>1
  <2> QED
    BY <1>1, <2>1, <2>2, <2>3 DEF TypeOK, Tasks
<1>3. TaskInv
  BY <1>1 DEF TaskInv, SessionInv, Apart, Holds, Excludes
<1>4. PubInv
  BY DEF PubInv, RecordInv, Served, Current, Uncleaned, NoAttempt
<1>5. MoveInv
  BY <1>1 DEF MoveInv, Ready
<1> QED
  BY <1>2, <1>3, <1>4, <1>5 DEF Inv

LEMMA StepKeeps == Inv /\ [Next]_vars => Inv'
<1> SUFFICES ASSUME Inv, [Next]_vars
             PROVE  Inv'
  OBVIOUS
<1>1. CASE UNCHANGED vars
  BY <1>1, MoverStep DEF vars, rows, Inv, TypeOK
<1>2. ASSUME NEW w \in Worker, NEW r \in Record, Prepare(w, r) \/ FetchLyrics(w, r)
      PROVE  Inv'
  BY <1>2, PrepareStep, FetchLyricsStep
<1>3. ASSUME NEW w \in Worker, ClaimSweep(w) \/ WorkerStep(w)
      PROVE  Inv'
  BY <1>3, ClaimSweepStep, CommitPreparedStep, WriteSidecarStep, SettleLyricsStep, FailJobStep,
     UpgradeStep, SweepStep, CommitSweepStep DEF WorkerStep
<1>4. ASSUME NEW s \in Session, Publish(s)
      PROVE  Inv'
  BY <1>4, ExposeStep, FinalizeStep DEF Publish
<1>5. ASSUME NEW r \in Record, SeeAttempt(r) \/ Withdraw(r) \/ Unlink(r) \/ Lose(r)
      PROVE  Inv'
  BY <1>5, SeeAttemptStep, WithdrawStep, UnlinkStep, LoseStep
<1>6. ASSUME NEW d \in Root, AskMove(d) \/ Clear(d)
      PROVE  Inv'
  BY <1>6, AskMoveStep, ClearStep
<1>7. CASE Move \/ AskResume \/ Resume
  BY <1>7, MoveStep, AskResumeStep, CopyFileStep, RemoveOldStep, SwitchStep, CompleteStep,
     ResumeFailsStep, CommitCursorStep DEF Resume
<1>8. CASE Describe \/ Crash
  BY <1>8, DescribeStep, CrashStep
<1> QED
  BY <1>1, <1>2, <1>3, <1>4, <1>5, <1>6, <1>7, <1>8 DEF Next

(* Every reachable state satisfies Inv: the gate of services/storage.py    *)
(* really separates jobs from moves, whatever is lost on the way.          *)
THEOREM InductiveInvariant == Spec => []Inv
BY Starts, StepKeeps, PTL DEF Spec

(* The rows, files and tasks of the output tree keep their types.          *)
THEOREM TreeTypes == Spec => []TypeOK
<1>1. Inv => TypeOK
  BY DEF Inv
<1> QED
  BY <1>1, InductiveInvariant, PTL

(* A current publication that nobody deleted by hand is on disk where its  *)
(* row says, or an open attempt is replacing it, during and after every    *)
(* move of the output (services/storage_migration.py) and every search     *)
(* for orphans (services/publication/reconciliation.py).                   *)
THEOREM PublicationsServed == Spec => []PublishedServed
<1>1. Inv => PublishedServed
  BY DEF Inv, PubInv, Served, PublishedServed
<1> QED
  BY <1>1, InductiveInvariant, PTL

(* Once a move is over, no managed file is left under the old root: the    *)
(* second pass of storage_migration.py has been over every one.            *)
THEOREM OldOutputRemoved == Spec => []OldOutputGone
<1>1. Inv => OldOutputGone
  BY DEF Inv, MoveInv, Ready, OldOutputGone
<1> QED
  BY <1>1, InductiveInvariant, PTL

-----------------------------------------------------------------------------
(* Sidecars: what a step other than the sweep's walk does to them.         *)

KeepsSidecar(r) ==
    lyrics'[r] = "synced" /\ (lyrics[r] = "synced" => Sidecar(r)) => Sidecar(r)'
Keeps == \A r \in Record : KeepsSidecar(r)

LEMMA SidecarFrame ==
    ASSUME storage'.root = storage.root,
           \A r \in Record : tree[storage.root][Lrc(r)] # None => tree'[storage.root][Lrc(r)] # None,
           \A r \in Record : lyrics'[r] = "synced" => lyrics[r] = "synced"
    PROVE  Keeps
BY DEF Keeps, KeepsSidecar, Sidecar

LEMMA PutKeepsSidecars ==
    ASSUME TypeOK, NEW d \in Root, NEW n \in Names, NEW c \in Content, Put(d, n, c),
           d # storage.root \/ (\A r \in Record : n # Lrc(r)) \/ c # None
    PROVE  \A r \in Record : tree[storage.root][Lrc(r)] # None => tree'[storage.root][Lrc(r)] # None
<1>1. storage.root \in Root
  BY DEF TypeOK
<1> QED
  BY <1>1, PutEffect, FileNames

LEMMA SidecarStep ==
    ASSUME Inv, [Next]_vars, \A w \in Worker : ~Sweep(w)
    PROVE  Keeps
<1> USE SessionsAre
<1>1. CASE UNCHANGED vars
  BY <1>1, SidecarFrame DEF vars
<1>2. ASSUME NEW w \in Worker, NEW r \in Record, Prepare(w, r) \/ FetchLyrics(w, r)
      PROVE  Keeps
  BY <1>2, SidecarFrame DEF Prepare, FetchLyrics, rows
<1>3. ASSUME NEW w \in Worker, ClaimSweep(w) \/ WorkerStep(w)
      PROVE  Keeps
  <2>1. CASE ClaimSweep(w) \/ Upgrade(w) \/ CommitSweep(w)
    BY <2>1, SidecarFrame DEF ClaimSweep, Upgrade, CommitSweep, rows
  <2>2. CASE CommitPrepared(w)
    BY <2>2, SidecarFrame DEF CommitPrepared
  <2>3. CASE WriteSidecar(w)
    <3> DEFINE r == task[w].rec
    <3>3. /\ task[w].at = "lyrics" /\ Put(task[w].root, Lrc(r), pub[r].content)
          /\ UNCHANGED <<storage, lyrics>>
      BY <2>3 DEF WriteSidecar, rows
    <3>4. r \in Record /\ task[w].root \in Root /\ pub[r].state # "none"
      BY <3>3 DEF Inv, TypeOK, TaskInv, SessionInv, Holds
    <3>5. pub[r].content \in Content /\ pub[r].content # None
      BY <3>4 DEF Inv, TypeOK, PubInv, RecordInv
    <3>6. \A q \in Record : tree[storage.root][Lrc(q)] # None => tree'[storage.root][Lrc(q)] # None
      BY <3>3, <3>4, <3>5, PutKeepsSidecars, FileNames DEF Inv
    <3> QED
      BY <3>3, <3>6, SidecarFrame
  <2>4. CASE SettleLyrics(w)
    <3>1. /\ task[w].at = "written" /\ lyrics' = [lyrics EXCEPT ![task[w].rec] = "synced"]
          /\ UNCHANGED <<storage, tree>> /\ Become(w, Idle)
      BY <2>4 DEF SettleLyrics
    <3>2. tree[storage.root][Lrc(task[w].rec)] # None
      BY <3>1 DEF Inv, TaskInv, SessionInv
    <3> QED
      BY <3>1, <3>2 DEF Keeps, KeepsSidecar, Sidecar, Inv, TypeOK
  <2>5. CASE FailJob(w)
    BY <2>5, SidecarFrame DEF FailJob, rows
  <2> QED
    BY <1>3, <2>1, <2>2, <2>3, <2>4, <2>5 DEF WorkerStep
<1>4. ASSUME NEW s \in Session, Publish(s)
      PROVE  Keeps
  <2>1. CASE Expose(s)
    <3> DEFINE r == task[s].rec
    <3>1. /\ task[s].at = "saw" /\ r \in Record /\ UNCHANGED <<storage, lyrics>>
      BY <2>1 DEF Expose, rows, Inv, TaskInv, SessionInv
    <3>2. attempt[r].root \in Root /\ attempt[r].content \in Content
      BY <3>1 DEF Inv, TypeOK
    <3>3. \A q \in Record : tree[storage.root][Lrc(q)] # None => tree'[storage.root][Lrc(q)] # None
      BY <2>1, <3>1, <3>2, PutKeepsSidecars, FileNames DEF Expose, Inv
    <3> QED
      BY <3>1, <3>3, SidecarFrame
  <2>2. CASE Finalize(s)
    <3>1. /\ UNCHANGED <<storage, tree>> /\ Become(s, Idle)
          /\ lyrics' = [lyrics EXCEPT ![task[s].rec] = IF @ = "none" THEN "none" ELSE "evidence"]
      BY <2>2 DEF Finalize
    <3>2. \A q \in Record : lyrics'[q] = "synced" => lyrics[q] = "synced"
      BY <3>1 DEF Inv, TypeOK
    <3> QED
      BY <3>1, <3>2, SidecarFrame
  <2> QED
    BY <1>4, <2>1, <2>2 DEF Publish
<1>5. ASSUME NEW r \in Record, SeeAttempt(r) \/ Withdraw(r) \/ Unlink(r) \/ Lose(r)
      PROVE  Keeps
  <2>1. pub[r].root \in Root /\ None \in Content
    BY TreeAssumption DEF Inv, TypeOK, Content, None
  <2>2. CASE SeeAttempt(r)
    BY <2>2, SidecarFrame DEF SeeAttempt, rows
  <2>3. CASE Withdraw(r)
    <3>1. /\ UNCHANGED <<storage, tree>>
          /\ lyrics' = [lyrics EXCEPT ![r] = IF @ = "none" THEN "none" ELSE "evidence"]
      BY <2>3 DEF Withdraw
    <3>2. \A q \in Record : lyrics'[q] = "synced" => lyrics[q] = "synced"
      BY <3>1 DEF Inv, TypeOK
    <3> QED
      BY <3>1, <3>2, SidecarFrame
  <2>4. CASE Unlink(r) \/ Lose(r)
    <3>1. UNCHANGED <<storage, lyrics>>
      BY <2>4 DEF Unlink, Lose, rows
    <3>2. UNCHANGED tree \/ Put(pub[r].root, Audio(r), None)
      BY <2>4 DEF Unlink, Lose
    <3>3. \A q \in Record : tree[storage.root][Lrc(q)] # None => tree'[storage.root][Lrc(q)] # None
      BY <2>1, <3>2, PutKeepsSidecars, FileNames DEF Inv
    <3> QED
      BY <3>1, <3>3, SidecarFrame
  <2> QED
    BY <1>5, <2>2, <2>3, <2>4
<1>6. ASSUME NEW d \in Root, AskMove(d) \/ Clear(d)
      PROVE  Keeps
  <2>1. UNCHANGED <<storage, lyrics>>
    BY <1>6 DEF AskMove, Clear, rows
  <2>2. tree'[storage.root] = tree[storage.root]
    BY <1>6 DEF AskMove, Clear, Inv, TypeOK
  <2> QED
    BY <2>1, <2>2, SidecarFrame
<1>7. CASE Move \/ AskResume \/ ResumeFails \/ CommitCursor \/ Complete
  <2>1. UNCHANGED <<lyrics, tree>>
    BY <1>7 DEF Move, AskResume, ResumeFails, CommitCursor, Complete, rows
  <2>2. storage'.root = storage.root
    BY <1>7 DEF Move, AskResume, ResumeFails, CommitCursor, Complete, rows, Inv, TypeOK
  <2> QED
    BY <2>1, <2>2, SidecarFrame
<1>8. CASE CopyFile \/ RemoveOld
  <2>1. /\ Resuming /\ Rest # {}
        /\ UNCHANGED <<storage, lyrics>>
    BY <1>8 DEF CopyFile, RemoveOld, rows
  <2>2. /\ Migrating /\ Item \in Names /\ None \in Content
        /\ journal.source \in Root /\ journal.destination \in Root
        /\ journal.hash[Item] \in Content
    BY <2>1, Alone, NextFile, TreeAssumption DEF Inv, TypeOK, Content, None
  <2>3. \/ UNCHANGED tree
        \/ Put(journal.destination, Item, journal.hash[Item]) /\ journal.destination # storage.root
        \/ Put(journal.source, Item, None) /\ journal.source # storage.root
    BY <1>8, <2>2 DEF CopyFile, RemoveOld, Migrating, Copying, Cleaning
  <2>4. \A q \in Record : tree[storage.root][Lrc(q)] # None => tree'[storage.root][Lrc(q)] # None
    BY <2>2, <2>3, PutKeepsSidecars DEF Inv
  <2> QED
    BY <2>1, <2>4, SidecarFrame
<1>9. CASE Switch
  <2>1. /\ Resuming /\ UNCHANGED <<tree, lyrics>>
        /\ journal.phase = "copying"
        /\ \A n \in journal.files : tree[journal.destination][n] = journal.hash[n]
    BY <1>9 DEF Switch
  <2>2. storage'.root = journal.destination
    BY <1>9 DEF Switch, Inv, TypeOK
  <2>3. /\ journal.files = {n \in Names : journal.hash[n] # None}
        /\ storage.root = journal.source
        /\ \A n \in Names : tree[journal.source][n] = journal.hash[n]
    BY <2>1, Alone DEF Migrating, Copying, Cleaning
  <2>4. ASSUME NEW r \in Record, Sidecar(r)
        PROVE  tree[journal.destination][Lrc(r)] # None
    <3>1. tree[journal.source][Lrc(r)] # None
      BY <2>3, <2>4 DEF Sidecar
    <3> QED
      BY <2>1, <2>3, <3>1, FileNames
  <2> QED
    BY <2>1, <2>2, <2>4 DEF Keeps, KeepsSidecar, Sidecar
<1>10. CASE Describe
  <2>1. UNCHANGED <<storage, lyrics>> /\ Put(storage.root, Nfo, 1)
    BY <1>10 DEF Describe, rows
  <2>2. storage.root \in Root /\ 1 \in Content /\ Nfo \in Names
    BY TreeAssumption DEF Inv, TypeOK, Content, Names
  <2>3. \A q \in Record : tree[storage.root][Lrc(q)] # None => tree'[storage.root][Lrc(q)] # None
    BY <2>1, <2>2, PutKeepsSidecars, FileNames DEF Inv
  <2> QED
    BY <2>1, <2>3, SidecarFrame
<1>11. CASE Crash
  <2>1. UNCHANGED <<storage, lyrics, tree>>
    BY <1>11 DEF Crash, rows
  <2> QED
    BY <2>1, SidecarFrame
<1> QED
  BY <1>1, <1>2, <1>3, <1>4, <1>5, <1>6, <1>7, <1>8, <1>9, <1>10, <1>11 DEF Next, Resume

(* Lyrics come to be recorded as synced with their sidecar in the output,  *)
(* and it stays there through moves, republication and removal             *)
(* (handlers/lrclib.py).  The exception is the search for orphans, which   *)
(* takes sidecars, whose paths are stored relative to the output root,     *)
(* from the working directory, and deletes them.                           *)
THEOREM SidecarsStay == Spec => SidecarsKept
<1>1. Inv /\ [Next]_vars
        => [\A r \in Record :
              lyrics'[r] = "synced" /\ (lyrics[r] = "synced" => Sidecar(r))
                => Sidecar(r)' \/ \E w \in Worker : Sweep(w)]_vars
  BY SidecarStep DEF Keeps, KeepsSidecar
<1> QED
  BY <1>1, InductiveInvariant, PTL DEF Spec, SidecarsKept
=============================================================================
