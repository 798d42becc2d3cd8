--------------------------- MODULE ProviderProofs ---------------------------
(***************************************************************************)
(* Theorems about the analysis of folders: first the jobs and the folder   *)
(* pass (FolderSelection), then the lookup of one source (ProviderLookup). *)
(***************************************************************************)
EXTENDS FolderSelection, ProviderLookup, SequenceTheorems, FiniteSetTheorems, WellFoundedInduction,
        TLAPS

(* TypeOK, with the values a job's execution may have read as a set.       *)
View == UNION {[ms -> Nat] : ms \in SUBSET Member}
Offer == UNION {[ms -> SUBSET Release] : ms \in SUBSET Member}

Work == [at : {"idle", "checked", "read", "decided", "ending"}, follow : SUBSET Key,
         joins : SUBSET Key, found : Offer, run : View]

Types ==
    /\ imported \subseteq member /\ member \subseteq Member
    /\ rows \in [Key -> Nat] /\ work \in [Key -> Work]
    /\ run \in [Member -> [{"acoustid", "musicbrainz"} -> Nat]]
    /\ found \in [Member -> SUBSET Release]
    /\ judged \in [Member -> Nat]
    /\ release \in [Member -> Release \union {NoRelease}]
    /\ joined \in BOOLEAN /\ gaveUp \in BOOLEAN /\ requests \in Nat

(* What the execution of a job of each kind can have read, and what it     *)
(* will have left behind when it commits: the jobs it inserts and those it *)
(* relies on to be still waiting.                                          *)
Empty(k) == work[k].follow = {} /\ work[k].joins = {}
Left(k) == work[k].follow \union work[k].joins

KeyWork(k) ==
    /\ Started(k) => rows[k] > 0
    /\ work[k].at # "decided" => Empty(k)
    /\ DOMAIN work[k].run = DOMAIN work[k].found /\ DOMAIN work[k].run \subseteq member

ScanWork(m) ==
    /\ work[Scan(m)].at \in {"idle", "decided"}
    /\ work[Scan(m)].at = "decided" => Left(Scan(m)) = {FirstAnalysis(m)}

AcoustIdWork(m) ==
    /\ work[AcoustId(m)].at \in {"idle", "decided", "ending"}
    /\ work[AcoustId(m)].at = "decided" => Askable(m, "acoustid")
    /\ work[AcoustId(m)].at = "decided" /\ "musicbrainz" \in Provider =>
         Left(AcoustId(m)) = {MusicBrainz(m)}
    /\ Left(AcoustId(m)) \subseteq {MusicBrainz(m), Candidate(m)}

MusicBrainzWork(m) ==
    /\ work[MusicBrainz(m)].at \in {"idle", "decided", "ending"}
    /\ work[MusicBrainz(m)].at = "decided" => Askable(m, "musicbrainz")
    /\ Left(MusicBrainz(m)) \subseteq {Candidate(m)}

CandidateWork(m) ==
    /\ work[Candidate(m)].at \in {"idle", "checked", "decided", "ending"}
    /\ Left(Candidate(m)) \subseteq {Folder}

FolderWork == work[Folder].at \in {"idle", "read", "decided", "ending"} /\ Empty(Folder)

WorkInv ==
    /\ \A k \in Key : KeyWork(k)
    /\ \A m \in Member : /\ ScanWork(m) /\ AcoustIdWork(m) /\ MusicBrainzWork(m) /\ CandidateWork(m)
                         /\ ~(Started(AcoustId(m)) /\ Started(MusicBrainz(m)))
    /\ FolderWork

(* Jobs are of members, imports of members without a fingerprint, runs of  *)
(* configured providers; no pass is based on a run that does not exist.    *)
RowsInv ==
    /\ \A m \in Member :
         /\ rows[Scan(m)] <= 1
         /\ rows[Scan(m)] > 0 => m \in member \ imported
         /\ \A k \in Collection(m) \union {Candidate(m)} : rows[k] > 0 => m \in member
         /\ \A p \in {"acoustid", "musicbrainz"} : run[m][p] > 0 => Askable(m, p)
         /\ judged[m] <= run[m]["musicbrainz"]

(* A pass that has loaded its members has loaded all that were ever        *)
(* selected for, and no later pass can overtake it.                        *)
Looking == work[Folder].at \in {"read", "decided"}

PassInv ==
    /\ OneRelease
    /\ \A m \in Member : release[m] # NoRelease => m \in member
    /\ Looking => \A m \in Member :
         /\ release[m] # NoRelease => m \in DOMAIN work[Folder].run
         /\ m \in DOMAIN work[Folder].run =>
              judged[m] <= work[Folder].run[m] /\ work[Folder].run[m] <= run[m]["musicbrainz"]

(* A job of m that is bound to leave another one behind: the analysis of   *)
(* the next stage, or the candidate selection.  An unconfigured AcoustID   *)
(* job is not, but none ends without gaveUp.                               *)
ListensLater(m) ==
    \/ "acoustid" \notin Provider /\ rows[AcoustId(m)] > 0
    \/ /\ "acoustid" \in Provider /\ m \in imported
       /\ Waiting(AcoustId(m)) \/ work[AcoustId(m)].at = "decided"

Selects(m) == work[MusicBrainz(m)].at = "decided" /\ Candidate(m) \in Left(MusicBrainz(m))

Live(m) ==
    \/ rows[Scan(m)] > 0
    \/ ListensLater(m)
    \/ m \in imported /\ Waiting(MusicBrainz(m))
    \/ Selects(m)

(* While a member is collected for, one such job exists.                   *)
FlowInv ==
    \A m \in member :
        /\ m \notin imported => rows[Scan(m)] > 0
        /\ m \in imported /\ "acoustid" \in Provider /\ run[m]["acoustid"] = 0 => ListensLater(m)
        /\ rows[AcoustId(m)] > 0 => rows[Scan(m)] > 0 \/ ListensLater(m)
        /\ rows[MusicBrainz(m)] > 0 => Live(m)

(* A member whose latest run no pass has judged is waited for: by jobs     *)
(* that collect, by a job that has seen none and will insert the pass, by  *)
(* a pass that has yet to read, or by one that has read all such runs.     *)
Stale(m) == Complete(m) /\ judged[m] # run[m]["musicbrainz"]

WillCheck(m) ==
    \/ Waiting(Candidate(m))
    \/ work[Candidate(m)].at = "checked"
    \/ Folder \in Left(Candidate(m))

Covers == Looking /\ \A m \in Member : Stale(m) =>
    m \in DOMAIN work[Folder].run /\ work[Folder].run[m] = run[m]["musicbrainz"]

Coming == Collecting(member) \/ (\E m \in Member : WillCheck(m)) \/ Waiting(Folder) \/ Covers

Progress == "musicbrainz" \in Provider /\ ~gaveUp /\ ~joined =>
    FlowInv /\ ((\E m \in Member : Stale(m)) => Coming)

(* The inductive invariant.                                                *)
Inv == Types /\ WorkInv /\ RowsInv /\ PassInv /\ Progress

-----------------------------------------------------------------------------
(* The keys are distinct.                                                  *)

LEMMA MemberKeys ==
    ASSUME NEW m \in Member
    PROVE  Scan(m) \in Key /\ AcoustId(m) \in Key /\ MusicBrainz(m) \in Key /\ Candidate(m) \in Key
<1> DEFINE Own(n) == Collection(n) \union {Candidate(n)}
<1>1. Own(m) \subseteq UNION {Own(n) : n \in Member}
  OBVIOUS
<1>2. Own(m) \subseteq Key
  BY <1>1 DEF Key
<1> QED
  BY <1>2 DEF Collection

LEMMA FolderKey == Folder \in Key
BY DEF Key

LEMMA KeysOf ==
    ASSUME NEW k \in Key, k # Folder
    PROVE  \E m \in Member : k \in {Scan(m), AcoustId(m), MusicBrainz(m), Candidate(m)}
<1> DEFINE Own(n) == Collection(n) \union {Candidate(n)}
<1>1. k \in UNION {Own(n) : n \in Member}
  BY DEF Key
<1>2. PICK m \in Member : k \in Own(m)
  BY <1>1
<1> QED
  BY <1>2 DEF Collection

LEMMA Kinds ==
    ASSUME NEW m, NEW n
    PROVE  /\ Scan(m) # AcoustId(n) /\ Scan(m) # MusicBrainz(n) /\ Scan(m) # Candidate(n) /\ Scan(m) # Folder
           /\ AcoustId(m) # MusicBrainz(n) /\ AcoustId(m) # Candidate(n) /\ AcoustId(m) # Folder
           /\ MusicBrainz(m) # Candidate(n) /\ MusicBrainz(m) # Folder
           /\ Candidate(m) # Folder
BY DEF Scan, AcoustId, MusicBrainz, Candidate, Folder

LEMMA SameMember ==
    ASSUME NEW m, NEW n
    PROVE  /\ Scan(m) = Scan(n) => m = n
           /\ AcoustId(m) = AcoustId(n) => m = n
           /\ MusicBrainz(m) = MusicBrainz(n) => m = n
           /\ Candidate(m) = Candidate(n) => m = n
BY DEF Scan, AcoustId, MusicBrainz, Candidate

-----------------------------------------------------------------------------
(* What a job may have read.                                               *)

LEMMA IdleIsWork == Idle \in Work
<1>1. NoView \in [{} -> Nat] /\ NoView \in [{} -> SUBSET Release]
  BY DEF NoView
<1>2. NoView \in View /\ NoView \in Offer
  BY <1>1 DEF View, Offer
<1> QED
  BY <1>2 DEF Idle, Work

LEMMA EndingIsWork ==
    /\ Ending \in Work /\ Ending.at = "ending" /\ Ending.follow = {} /\ Ending.joins = {}
    /\ DOMAIN Ending.run = {} /\ DOMAIN Ending.found = {}
    /\ Idle.at = "idle" /\ Idle.follow = {} /\ Idle.joins = {}
    /\ DOMAIN Idle.run = {} /\ DOMAIN Idle.found = {}
BY IdleIsWork DEF Ending, Work, Idle, NoView

LEMMA WantingIsWork ==
    ASSUME NEW keys \in SUBSET Key
    PROVE  /\ Wanting(keys) \in Work /\ Wanting(keys).at = "decided"
           /\ Wanting(keys).follow = keys \ Active /\ Wanting(keys).joins = keys \intersect Active
           /\ DOMAIN Wanting(keys).run = {} /\ DOMAIN Wanting(keys).found = {}
BY IdleIsWork DEF Wanting, Work, Idle, NoView, Active

LEMMA CheckingIsWork ==
    ASSUME NEW w, w = [Idle EXCEPT !.at = "checked"]
    PROVE  /\ w \in Work /\ w.at = "checked" /\ w.follow = {} /\ w.joins = {}
           /\ DOMAIN w.run = {} /\ DOMAIN w.found = {}
BY IdleIsWork DEF Work, Idle, NoView

LEMMA PassingIsWork ==
    ASSUME NEW f \in SUBSET Key, NEW j \in SUBSET Key, NEW w,
           w = [Idle EXCEPT !.at = "decided", !.follow = f, !.joins = j]
    PROVE  /\ w \in Work /\ w.at = "decided" /\ w.follow = f /\ w.joins = j
           /\ DOMAIN w.run = {} /\ DOMAIN w.found = {}
BY IdleIsWork DEF Work, Idle, NoView

MembersRead(f, r) == [Idle EXCEPT !.at = "read", !.found = f, !.run = r]

LEMMA LookingIsWork ==
    ASSUME NEW f \in Offer, NEW r \in View
    PROVE  /\ MembersRead(f, r) \in Work /\ MembersRead(f, r).at = "read"
           /\ MembersRead(f, r).follow = {} /\ MembersRead(f, r).joins = {}
           /\ MembersRead(f, r).run = r /\ MembersRead(f, r).found = f
BY IdleIsWork DEF MembersRead, Work, Idle, NoView

-----------------------------------------------------------------------------
(* What the two ways to execute a job do to the jobs.                      *)

LEMMA ReadEffect ==
    ASSUME Types, NEW k \in Key, NEW w \in Work, Read(k, w)
    PROVE  /\ work' \in [Key -> Work] /\ work'[k] = w
           /\ \A j \in Key \ {k} : work'[j] = work[j]
BY DEF Types, Read

LEMMA SettleEffect ==
    ASSUME Types, NEW k \in Key, rows[k] > 0, k \notin work[k].follow, Settle(k)
    PROVE  /\ rows' \in [Key -> Nat] /\ work' \in [Key -> Work]
           /\ work'[k] = Idle /\ rows'[k] = rows[k] - 1
           /\ \A j \in Key \ {k} : work'[j] = work[j]
           /\ \A j \in Key \ {k} : rows'[j] = IF j \in work[k].follow THEN rows[j] + 1 ELSE rows[j]
           /\ joined' \in BOOLEAN /\ (joined => joined')
<1>1. rows \in [Key -> Nat] /\ work \in [Key -> Work] /\ joined \in BOOLEAN
  BY DEF Types
<1>2. work' \in [Key -> Work] /\ work'[k] = Idle /\ \A j \in Key \ {k} : work'[j] = work[j]
  BY <1>1, IdleIsWork DEF Settle
<1>3. /\ rows' = [j \in Key |-> rows[j] + (IF j \in work[k].follow THEN 1 ELSE 0)
                                       - (IF j = k THEN 1 ELSE 0)]
      /\ joined' = (joined \/ \E j \in work[k].joins : ~Waiting(j))
  BY DEF Settle
<1>4. rows'[k] = rows[k] - 1
  BY <1>1, <1>3
<1>5. ASSUME NEW j \in Key \ {k}
      PROVE  rows'[j] = IF j \in work[k].follow THEN rows[j] + 1 ELSE rows[j]
  BY <1>1, <1>3, <1>5
<1>6. ASSUME NEW j \in Key
      PROVE  rows[j] + (IF j \in work[k].follow THEN 1 ELSE 0) - (IF j = k THEN 1 ELSE 0) \in Nat
  BY <1>1, <1>6
<1>7. rows' \in [Key -> Nat]
  BY <1>3, <1>6
<1> QED
  BY <1>1, <1>2, <1>3, <1>4, <1>5, <1>7

(* Nobody who waits is disturbed, and what is left behind waits or is lost.*)
LEMMA SettleWaiting ==
    ASSUME Types, WorkInv, NEW k \in Key, Started(k), k \notin Left(k), Settle(k)
    PROVE  /\ \A j \in Key : Waiting(j) => Waiting(j)'
           /\ ~joined' => \A j \in Left(k) : Waiting(j)'
<1>1. rows \in [Key -> Nat] /\ rows[k] > 0 /\ k \notin work[k].follow /\ Left(k) \subseteq Key
  BY DEF Types, WorkInv, KeyWork, Left, Work
<1>2. /\ work'[k] = Idle /\ rows'[k] = rows[k] - 1 /\ rows' \in [Key -> Nat]
      /\ \A j \in Key \ {k} : work'[j] = work[j]
      /\ \A j \in Key \ {k} : rows'[j] = IF j \in work[k].follow THEN rows[j] + 1 ELSE rows[j]
  BY <1>1, SettleEffect
<1>3. joined' = (joined \/ \E j \in work[k].joins : ~Waiting(j))
  BY DEF Settle
<1>4. Waiting(k) => Waiting(k)'
  BY <1>1, <1>2, EndingIsWork DEF Waiting, Started
<1>5. ASSUME NEW j \in Key \ {k}, Waiting(j)
      PROVE  Waiting(j)'
  BY <1>1, <1>2, <1>5 DEF Waiting, Started
<1>6. ASSUME NEW j \in work[k].follow
      PROVE  Waiting(j)'
  <2>1. j \in Key \ {k} /\ rows'[j] = rows[j] + 1 /\ work'[j] = work[j] /\ (Started(j) => rows[j] > 0)
    BY <1>1, <1>2 DEF WorkInv, KeyWork, Left
  <2> QED
    BY <2>1, <1>1 DEF Waiting, Started
<1>7. ASSUME NEW j \in work[k].joins, ~joined'
      PROVE  Waiting(j)'
  <2>1. j \in Key \ {k} /\ Waiting(j)
    BY <1>1, <1>3, <1>7 DEF Left
  <2> QED
    BY <2>1, <1>5
<1> QED
  BY <1>4, <1>5, <1>6, <1>7 DEF Left

LEMMA CollectingMeans ==
    ASSUME NEW ms \in SUBSET Member
    PROVE  Collecting(ms) <=>
             \E m \in ms : rows[Scan(m)] > 0 \/ rows[AcoustId(m)] > 0 \/ rows[MusicBrainz(m)] > 0
<1>1. \A m \in ms : Collection(m) \intersect Active # {} <=>
             rows[Scan(m)] > 0 \/ rows[AcoustId(m)] > 0 \/ rows[MusicBrainz(m)] > 0
  BY MemberKeys DEF Collection, Active
<1>2. Collecting(ms) <=> \E m \in ms : Collection(m) \intersect Active # {}
  BY DEF Collecting
<1> QED
  BY <1>1, <1>2

-----------------------------------------------------------------------------
(* What stays of the shape of the jobs.                                    *)

LEMMA WorkFrame ==
    ASSUME NEW m \in Member, imported \subseteq imported'
    PROVE  /\ work'[Scan(m)] = work[Scan(m)] /\ ScanWork(m) => ScanWork(m)'
           /\ work'[AcoustId(m)] = work[AcoustId(m)] /\ AcoustIdWork(m) => AcoustIdWork(m)'
           /\ work'[MusicBrainz(m)] = work[MusicBrainz(m)] /\ MusicBrainzWork(m) => MusicBrainzWork(m)'
           /\ work'[Candidate(m)] = work[Candidate(m)] /\ CandidateWork(m) => CandidateWork(m)'
<1>1. work'[Scan(m)] = work[Scan(m)] /\ ScanWork(m) => ScanWork(m)'
  BY DEF ScanWork, Left, FirstAnalysis
<1>2. work'[AcoustId(m)] = work[AcoustId(m)] /\ AcoustIdWork(m) => AcoustIdWork(m)'
  BY DEF AcoustIdWork, Left, Askable
<1>3. work'[MusicBrainz(m)] = work[MusicBrainz(m)] /\ MusicBrainzWork(m) => MusicBrainzWork(m)'
  BY DEF MusicBrainzWork, Left, Askable
<1>4. work'[Candidate(m)] = work[Candidate(m)] /\ CandidateWork(m) => CandidateWork(m)'
  BY DEF CandidateWork, Left
<1> QED
  BY <1>1, <1>2, <1>3, <1>4

LEMMA ReadKeepsWork ==
    ASSUME Types, WorkInv, NEW k \in Key, NEW w \in Work, Read(k, w), rows[k] > 0,
           UNCHANGED <<rows, imported, member>>, w.at # "decided" => w.follow = {} /\ w.joins = {},
           DOMAIN w.run = DOMAIN w.found, DOMAIN w.run \subseteq member
    PROVE  /\ \A j \in Key : KeyWork(j)'
           /\ \A m \in Member : /\ k # Scan(m) => ScanWork(m)'
                                /\ k # AcoustId(m) => AcoustIdWork(m)'
                                /\ k # MusicBrainz(m) => MusicBrainzWork(m)'
                                /\ k # Candidate(m) => CandidateWork(m)'
           /\ k # Folder => FolderWork'
<1>1. /\ work' \in [Key -> Work] /\ work'[k] = w
      /\ \A j \in Key \ {k} : work'[j] = work[j]
  BY ReadEffect
<1>2. ASSUME NEW j \in Key
      PROVE  KeyWork(j)'
  <2>1. CASE j = k
    BY <1>1, <2>1 DEF KeyWork, Empty
  <2>2. CASE j # k
    BY <1>1, <2>2 DEF KeyWork, Empty, Started, WorkInv
  <2> QED
    BY <2>1, <2>2
<1>3. ASSUME NEW m \in Member
      PROVE  /\ k # Scan(m) => ScanWork(m)'
             /\ k # AcoustId(m) => AcoustIdWork(m)'
             /\ k # MusicBrainz(m) => MusicBrainzWork(m)'
             /\ k # Candidate(m) => CandidateWork(m)'
  BY <1>1, MemberKeys, WorkFrame DEF WorkInv
<1>4. k # Folder => FolderWork'
  BY <1>1, FolderKey DEF WorkInv, FolderWork, Empty
<1> QED
  BY <1>2, <1>3, <1>4

LEMMA SettleKeepsWork ==
    ASSUME Types, WorkInv, NEW k \in Key, Started(k), k \notin Left(k), Settle(k),
           imported \subseteq imported', member \subseteq member'
    PROVE  WorkInv'
<1>1. rows \in [Key -> Nat] /\ rows[k] > 0 /\ k \notin work[k].follow
  BY DEF Types, WorkInv, KeyWork, Left
<1>2. /\ work' \in [Key -> Work] /\ work'[k] = Idle /\ rows' \in [Key -> Nat]
      /\ \A j \in Key \ {k} : work'[j] = work[j]
      /\ \A j \in Key \ {k} : rows'[j] = IF j \in work[k].follow THEN rows[j] + 1 ELSE rows[j]
  BY <1>1, SettleEffect
<1>3. ASSUME NEW j \in Key
      PROVE  KeyWork(j)'
  <2>1. CASE j = k
    BY <1>2, <2>1, EndingIsWork DEF KeyWork, Empty, Started
  <2>2. CASE j # k
    <3>1. work'[j] = work[j] /\ rows'[j] >= rows[j] /\ KeyWork(j)
      BY <1>1, <1>2, <2>2 DEF WorkInv
    <3> QED
      BY <1>1, <1>2, <3>1 DEF KeyWork, Empty, Started
  <2> QED
    BY <2>1, <2>2
<1>4. ASSUME NEW m \in Member
      PROVE  ScanWork(m)' /\ AcoustIdWork(m)' /\ MusicBrainzWork(m)' /\ CandidateWork(m)'
  <2>1. ScanWork(m) /\ AcoustIdWork(m) /\ MusicBrainzWork(m) /\ CandidateWork(m)
    BY DEF WorkInv
  <2>2. ScanWork(m)'
    BY <1>2, <2>1, MemberKeys, WorkFrame, EndingIsWork DEF ScanWork, Left
  <2>3. AcoustIdWork(m)'
    BY <1>2, <2>1, MemberKeys, WorkFrame, EndingIsWork DEF AcoustIdWork, Left
  <2>4. MusicBrainzWork(m)'
    BY <1>2, <2>1, MemberKeys, WorkFrame, EndingIsWork DEF MusicBrainzWork, Left
  <2>5. CandidateWork(m)'
    BY <1>2, <2>1, MemberKeys, WorkFrame, EndingIsWork DEF CandidateWork, Left
  <2> QED
    BY <2>2, <2>3, <2>4, <2>5
<1>5. ASSUME NEW m \in Member
      PROVE  ~(Started(AcoustId(m)) /\ Started(MusicBrainz(m)))'
  BY <1>2, MemberKeys, EndingIsWork DEF WorkInv, Started
<1>6. FolderWork'
  BY <1>2, FolderKey, EndingIsWork DEF WorkInv, FolderWork, Empty
<1> QED
  BY <1>3, <1>4, <1>5, <1>6 DEF WorkInv

-----------------------------------------------------------------------------
(* What stays of the other parts.                                          *)

LEMMA PassFrame ==
    ASSUME PassInv, work'[Folder] = work[Folder], release' = release, judged' = judged,
           member \subseteq member',
           \A m \in Member : run'[m]["musicbrainz"] \in Nat /\ run[m]["musicbrainz"] \in Nat
                              /\ run[m]["musicbrainz"] <= run'[m]["musicbrainz"],
           judged \in [Member -> Nat], work[Folder] \in Work
    PROVE  PassInv'
<1>1. OneRelease' /\ \A m \in Member : (release[m] # NoRelease)' => m \in member'
  BY DEF PassInv, OneRelease
<1>2. ASSUME Looking', NEW m \in Member
      PROVE  /\ (release[m] # NoRelease)' => m \in DOMAIN work'[Folder].run
             /\ m \in DOMAIN work'[Folder].run =>
                  judged'[m] <= work'[Folder].run[m] /\ work'[Folder].run[m] <= run'[m]["musicbrainz"]
  <2>1. /\ release[m] # NoRelease => m \in DOMAIN work[Folder].run
        /\ m \in DOMAIN work[Folder].run =>
             judged[m] <= work[Folder].run[m] /\ work[Folder].run[m] <= run[m]["musicbrainz"]
    BY <1>2 DEF PassInv, Looking
  <2>2. m \in DOMAIN work[Folder].run => work[Folder].run[m] \in Nat
    BY DEF Work, View
  <2> QED
    BY <2>1, <2>2
<1> QED
  BY <1>1, <1>2 DEF PassInv

LEMMA SettleRows ==
    ASSUME Types, WorkInv, RowsInv, NEW n \in Member, NEW k \in Key,
           k \in {Scan(n), AcoustId(n), MusicBrainz(n), Candidate(n), Folder},
           Started(k), k \notin Left(k), Settle(k), k = Folder => Left(k) = {},
           Left(k) \subseteq {AcoustId(n), MusicBrainz(n), Candidate(n), Folder}
    PROVE  \A m \in Member :
             /\ rows'[Scan(m)] \in Nat /\ rows[Scan(m)] \in Nat
             /\ IF k = Scan(m) THEN rows'[Scan(m)] = rows[Scan(m)] - 1 ELSE rows'[Scan(m)] = rows[Scan(m)]
             /\ \A j \in {Scan(m), AcoustId(m), MusicBrainz(m), Candidate(m)} : rows'[j] > 0 => m \in member
             /\ (m # n \/ k = Folder) => /\ rows'[AcoustId(m)] = rows[AcoustId(m)]
                          /\ rows'[MusicBrainz(m)] = rows[MusicBrainz(m)]
                          /\ rows'[Candidate(m)] = rows[Candidate(m)]
<1>1. rows \in [Key -> Nat] /\ rows[k] > 0 /\ k \notin work[k].follow
  BY DEF Types, WorkInv, KeyWork, Left
<1>2. /\ rows' \in [Key -> Nat] /\ rows'[k] = rows[k] - 1
      /\ \A j \in Key \ {k} : rows'[j] = IF j \in work[k].follow THEN rows[j] + 1 ELSE rows[j]
  BY <1>1, SettleEffect
<1>3. work[k].follow \subseteq {AcoustId(n), MusicBrainz(n), Candidate(n), Folder}
  BY DEF Left
<1>4. k # Folder => n \in member
  BY <1>1 DEF RowsInv, Collection
<1>5. ASSUME NEW m \in Member
      PROVE  IF k = Scan(m) THEN rows'[Scan(m)] = rows[Scan(m)] - 1 ELSE rows'[Scan(m)] = rows[Scan(m)]
  <2>1. Scan(m) \in Key /\ Scan(m) \notin {AcoustId(n), MusicBrainz(n), Candidate(n), Folder}
    BY MemberKeys, Kinds
  <2> QED
    BY <1>2, <1>3, <2>1
<1>6. ASSUME NEW m \in Member, m # n \/ k = Folder
      PROVE  /\ rows'[AcoustId(m)] = rows[AcoustId(m)]
             /\ rows'[MusicBrainz(m)] = rows[MusicBrainz(m)]
             /\ rows'[Candidate(m)] = rows[Candidate(m)]
  <2>1. CASE k = Folder
    BY <2>1, <1>2, MemberKeys, Kinds DEF Left
  <2>2. CASE m # n
    <3>1. {AcoustId(m), MusicBrainz(m), Candidate(m)} \intersect
          {Scan(n), AcoustId(n), MusicBrainz(n), Candidate(n), Folder} = {}
      BY <2>2, Kinds, SameMember
    <3> QED
      BY <1>2, <1>3, <3>1, MemberKeys
  <2> QED
    BY <1>6, <2>1, <2>2
<1>7. ASSUME NEW m \in Member, NEW j \in {Scan(m), AcoustId(m), MusicBrainz(m), Candidate(m)}, rows'[j] > 0
      PROVE  m \in member
  <2>1. \A i \in {Scan(m), AcoustId(m), MusicBrainz(m), Candidate(m)} : rows[i] > 0 => m \in member
    BY DEF RowsInv, Collection
  <2>2. CASE m # n \/ k = Folder
    <3>1. Scan(m) # k
      BY <2>2, Kinds, SameMember
    <3> QED
      BY <1>5, <1>6, <1>7, <2>1, <2>2, <3>1
  <2>3. CASE m = n /\ k # Folder
    BY <1>4, <2>3
  <2> QED
    BY <2>2, <2>3
<1> QED
  BY <1>1, <1>2, <1>5, <1>6, <1>7, MemberKeys

LEMMA LiveFrame ==
    ASSUME NEW m \in Member, m \in imported <=> m \in imported',
           \A j \in {Scan(m), AcoustId(m), MusicBrainz(m)} : rows'[j] = rows[j],
           \A j \in {AcoustId(m), MusicBrainz(m)} : work'[j] = work[j]
    PROVE  (ListensLater(m)' <=> ListensLater(m)) /\ (Live(m)' <=> Live(m))
<1>1. (Waiting(AcoustId(m))' <=> Waiting(AcoustId(m))) /\ (Waiting(MusicBrainz(m))' <=> Waiting(MusicBrainz(m)))
  BY DEF Waiting, Started
<1>2. ListensLater(m)' <=> ListensLater(m)
  BY <1>1 DEF ListensLater
<1> QED
  BY <1>1, <1>2 DEF Live, Selects, Left

LEMMA CheckFrame ==
    ASSUME NEW m \in Member, rows'[Candidate(m)] = rows[Candidate(m)], work'[Candidate(m)] = work[Candidate(m)]
    PROVE  WillCheck(m)' <=> WillCheck(m)
BY DEF WillCheck, Waiting, Started, Left

-----------------------------------------------------------------------------
(* The first state.                                                        *)

LEMMA InitHolds ==
    ASSUME FolderAssumption, Init
    PROVE  Inv
<1>1. Types
  BY IdleIsWork DEF Init, Types, FolderAssumption
<1>2. \A k \in Key : work[k] = Idle /\ rows[k] = 0
  BY DEF Init
<1>3. WorkInv
  <2>1. \A k \in Key : KeyWork(k)
    BY <1>2, EndingIsWork DEF KeyWork, Started, Empty
  <2>2. ASSUME NEW m \in Member
        PROVE  ScanWork(m) /\ AcoustIdWork(m) /\ MusicBrainzWork(m) /\ CandidateWork(m)
               /\ ~(Started(AcoustId(m)) /\ Started(MusicBrainz(m)))
    BY <1>2, MemberKeys, EndingIsWork
       DEF ScanWork, AcoustIdWork, MusicBrainzWork, CandidateWork, Started, Left
  <2>3. FolderWork
    BY <1>2, FolderKey, EndingIsWork DEF FolderWork, Empty
  <2> QED
    BY <2>1, <2>2, <2>3 DEF WorkInv
<1>4. RowsInv
  BY <1>2, MemberKeys DEF RowsInv, Collection, Init
<1>5. PassInv
  BY <1>2, FolderKey, EndingIsWork DEF PassInv, OneRelease, Looking, Init
<1>6. Progress
  BY DEF Init, Progress, FlowInv, Stale, Complete
<1> QED
  BY <1>1, <1>3, <1>4, <1>5, <1>6 DEF Inv

-----------------------------------------------------------------------------
(* Intake and operators.                                                   *)

LEMMA ArriveKeeps ==
    ASSUME Inv, NEW n \in Member, Arrive(n)
    PROVE  Inv'
<1> USE DEF Arrive
<1>1. /\ rows \in [Key -> Nat] /\ rows' = [rows EXCEPT ![Scan(n)] = 1] /\ Scan(n) \in Key
      /\ rows' \in [Key -> Nat] /\ work' = work /\ imported' = imported
      /\ n \notin member /\ member' = member \union {n} /\ n \notin imported /\ imported \subseteq member
  BY MemberKeys DEF Inv, Types
<1>2. \A j \in Key : rows'[j] = IF j = Scan(n) THEN 1 ELSE rows[j]
  BY <1>1
<1>3. rows[Scan(n)] = 0
  BY <1>1 DEF Inv, RowsInv
<1>4. Types'
  BY <1>1 DEF Inv, Types
<1>5. WorkInv'
  <2>1. ASSUME NEW k \in Key
        PROVE  KeyWork(k)'
    <3>1. KeyWork(k) /\ rows'[k] >= rows[k] /\ rows[k] \in Nat /\ rows'[k] \in Nat
      BY <1>1, <1>2, <1>3 DEF Inv, WorkInv
    <3> QED
      BY <3>1, <1>1 DEF KeyWork, Empty, Started
  <2>2. ASSUME NEW m \in Member
        PROVE  ScanWork(m)' /\ AcoustIdWork(m)' /\ MusicBrainzWork(m)' /\ CandidateWork(m)'
    BY <1>1, WorkFrame DEF Inv, WorkInv
  <2>3. FolderWork' /\ \A m \in Member : ~(Started(AcoustId(m)) /\ Started(MusicBrainz(m)))'
    BY <1>1 DEF Inv, WorkInv, FolderWork, Empty, Started
  <2> QED
    BY <2>1, <2>2, <2>3 DEF WorkInv
<1>6. RowsInv'
  <2> SUFFICES ASSUME NEW m \in Member
      PROVE  /\ rows'[Scan(m)] <= 1
             /\ rows'[Scan(m)] > 0 => m \in member' \ imported'
             /\ \A k \in Collection(m) \union {Candidate(m)} : rows'[k] > 0 => m \in member'
             /\ \A p \in {"acoustid", "musicbrainz"} : run'[m][p] > 0 => Askable(m, p)'
             /\ judged'[m] <= run'[m]["musicbrainz"]
    BY DEF RowsInv
  <2>1. /\ rows[Scan(m)] <= 1
        /\ rows[Scan(m)] > 0 => m \in member \ imported
        /\ \A k \in Collection(m) \union {Candidate(m)} : rows[k] > 0 => m \in member
        /\ \A p \in {"acoustid", "musicbrainz"} : run[m][p] > 0 => Askable(m, p)
        /\ judged[m] <= run[m]["musicbrainz"]
    BY DEF Inv, RowsInv
  <2>2. m # n => \A k \in Collection(m) \union {Candidate(m)} : k # Scan(n) /\ k \in Key
    BY Kinds, SameMember, MemberKeys DEF Collection
  <2>3. CASE m = n
    BY <1>1, <1>2, <2>1, <2>3 DEF Askable
  <2>4. CASE m # n
    BY <1>1, <1>2, <2>1, <2>2, <2>4 DEF Askable, Collection
  <2> QED
    BY <2>3, <2>4
<1>7. PassInv'
  <2>1. /\ PassInv /\ judged \in [Member -> Nat] /\ work[Folder] \in Work
        /\ \A m \in Member : run[m]["musicbrainz"] \in Nat
    BY FolderKey DEF Inv, Types
  <2> QED
    BY <1>1, <2>1, PassFrame
<1>8. Progress'
  <2> SUFFICES ASSUME "musicbrainz" \in Provider, ~gaveUp', ~joined'
      PROVE  FlowInv' /\ Coming'
    BY DEF Progress
  <2>1. FlowInv /\ member \subseteq Member
    BY DEF Inv, Progress, Types
  <2>2. ASSUME NEW m \in member'
        PROVE  /\ m \notin imported' => rows'[Scan(m)] > 0
               /\ m \in imported' /\ "acoustid" \in Provider /\ run'[m]["acoustid"] = 0 => ListensLater(m)'
               /\ rows'[AcoustId(m)] > 0 => rows'[Scan(m)] > 0 \/ ListensLater(m)'
               /\ rows'[MusicBrainz(m)] > 0 => Live(m)'
    <3>1. CASE m = n
      BY <1>1, <1>2, <3>1 DEF Live
    <3>2. CASE m # n
      <4>1. m \in member /\ m \in Member
        BY <1>1, <2>1, <3>2
      <4>2. \A j \in {Scan(m), AcoustId(m), MusicBrainz(m)} : rows'[j] = rows[j]
        BY <1>2, <3>2, <4>1, Kinds, SameMember, MemberKeys
      <4>3. (ListensLater(m)' <=> ListensLater(m)) /\ (Live(m)' <=> Live(m))
        BY <1>1, <4>1, <4>2, LiveFrame
      <4> QED
        BY <1>1, <2>1, <4>1, <4>2, <4>3 DEF FlowInv
    <3> QED
      BY <3>1, <3>2
  <2>3. Collecting(member)'
    <3>1. member' \subseteq Member /\ n \in member' /\ rows'[Scan(n)] > 0
      BY <1>1, <1>2, <2>1
    <3>2. Scan(n) \in Collection(n) /\ Scan(n) \in Active'
      BY <1>1, <3>1 DEF Collection, Active
    <3> QED
      BY <3>1, <3>2 DEF Collecting
  <2> QED
    BY <2>2, <2>3 DEF FlowInv, Coming
<1> QED
  BY <1>4, <1>5, <1>6, <1>7, <1>8 DEF Inv

(* A job that collects for a member keeps the barrier closed.              *)
LEMMA CollectsOn ==
    ASSUME NEW m \in member', NEW j \in Collection(m), j \in Key, rows'[j] > 0
    PROVE  Collecting(member)'
BY DEF Collecting, Active

LEMMA RequestKeeps ==
    ASSUME Inv, NEW n \in Member, RetryProvider(n)
    PROVE  Inv'
<1>0. PICK k \in {MusicBrainz(n), AcoustId(n)} : Request(k)
  BY DEF RetryProvider
<1> USE DEF Request
<1>1. /\ rows \in [Key -> Nat] /\ rows' = [rows EXCEPT ![k] = 1] /\ k \in Key
      /\ rows' \in [Key -> Nat] /\ work' = work /\ UNCHANGED <<imported, member, run, judged, found, release>>
      /\ n \in member /\ imported \subseteq member /\ member \subseteq Member
  BY <1>0, MemberKeys DEF Inv, Types, RetryProvider
<1>2. /\ \A j \in Key : rows'[j] = IF j = k THEN 1 ELSE rows[j]
      /\ rows[k] = 0 /\ ~Started(k)
  BY <1>0, <1>1 DEF Active, Inv, WorkInv, KeyWork
<1>4. Types'
  BY <1>0, <1>1 DEF Inv, Types
<1>5. WorkInv'
  <2>1. ASSUME NEW j \in Key
        PROVE  KeyWork(j)'
    <3>1. KeyWork(j) /\ rows'[j] >= rows[j] /\ rows[j] \in Nat /\ rows'[j] \in Nat
      BY <1>1, <1>2 DEF Inv, WorkInv
    <3> QED
      BY <3>1, <1>1 DEF KeyWork, Empty, Started
  <2>2. ASSUME NEW m \in Member
        PROVE  ScanWork(m)' /\ AcoustIdWork(m)' /\ MusicBrainzWork(m)' /\ CandidateWork(m)'
    BY <1>1, WorkFrame DEF Inv, WorkInv
  <2>3. FolderWork' /\ \A m \in Member : ~(Started(AcoustId(m)) /\ Started(MusicBrainz(m)))'
    BY <1>1 DEF Inv, WorkInv, FolderWork, Empty, Started
  <2> QED
    BY <2>1, <2>2, <2>3 DEF WorkInv
<1>6. RowsInv'
  <2> SUFFICES ASSUME NEW m \in Member
      PROVE  /\ rows'[Scan(m)] <= 1
             /\ rows'[Scan(m)] > 0 => m \in member \ imported
             /\ \A j \in Collection(m) \union {Candidate(m)} : rows'[j] > 0 => m \in member
             /\ \A p \in {"acoustid", "musicbrainz"} : run[m][p] > 0 => Askable(m, p)
             /\ judged[m] <= run[m]["musicbrainz"]
    BY <1>1 DEF RowsInv, Askable
  <2>1. /\ rows[Scan(m)] <= 1
        /\ rows[Scan(m)] > 0 => m \in member \ imported
        /\ \A j \in Collection(m) \union {Candidate(m)} : rows[j] > 0 => m \in member
        /\ \A p \in {"acoustid", "musicbrainz"} : run[m][p] > 0 => Askable(m, p)
        /\ judged[m] <= run[m]["musicbrainz"]
    BY DEF Inv, RowsInv
  <2>2. Scan(m) # k /\ Scan(m) \in Key
    BY Kinds, MemberKeys
  <2>3. ASSUME NEW j \in Collection(m) \union {Candidate(m)}, rows'[j] > 0
        PROVE  m \in member
    <3>1. j \in Key /\ (j = k => m = n)
      BY Kinds, SameMember, MemberKeys DEF Collection
    <3> QED
      BY <1>1, <1>2, <2>1, <2>3, <3>1
  <2> QED
    BY <1>2, <2>1, <2>2, <2>3
<1>7. PassInv'
  <2>1. /\ PassInv /\ judged \in [Member -> Nat] /\ work[Folder] \in Work
        /\ \A m \in Member : run[m]["musicbrainz"] \in Nat
    BY FolderKey DEF Inv, Types
  <2> QED
    BY <1>1, <2>1, PassFrame
<1>8. Progress'
  <2> SUFFICES ASSUME "musicbrainz" \in Provider, ~gaveUp', ~joined'
      PROVE  FlowInv' /\ Coming'
    BY DEF Progress
  <2>1. FlowInv
    BY <1>0 DEF Inv, Progress
  <2>2. ASSUME NEW m \in member
        PROVE  /\ m \notin imported => rows'[Scan(m)] > 0
               /\ m \in imported /\ "acoustid" \in Provider /\ run[m]["acoustid"] = 0 => ListensLater(m)'
               /\ rows'[AcoustId(m)] > 0 => rows'[Scan(m)] > 0 \/ ListensLater(m)'
               /\ rows'[MusicBrainz(m)] > 0 => Live(m)'
    <3>1. /\ m \in Member /\ Scan(m) \in Key /\ AcoustId(m) \in Key /\ MusicBrainz(m) \in Key /\ Candidate(m) \in Key
          /\ rows'[Scan(m)] = rows[Scan(m)] /\ rows[Scan(m)] \in Nat
      BY <1>1, <1>2, MemberKeys, Kinds
    <3>2. /\ m \notin imported => rows[Scan(m)] > 0
          /\ m \in imported /\ "acoustid" \in Provider /\ run[m]["acoustid"] = 0 => ListensLater(m)
          /\ rows[AcoustId(m)] > 0 => rows[Scan(m)] > 0 \/ ListensLater(m)
          /\ rows[MusicBrainz(m)] > 0 => Live(m)
      BY <2>1 DEF FlowInv
    <3>3. /\ \A j \in Key : Waiting(j) => Waiting(j)'
          /\ Waiting(k)'
      BY <1>1, <1>2 DEF Waiting, Started
    <3>4. ListensLater(m) => ListensLater(m)'
      BY <1>1, <1>2, <3>1, <3>3 DEF ListensLater
    <3>5. Live(m) => Live(m)'
      BY <1>1, <1>2, <3>1, <3>3, <3>4 DEF Live, Selects, Left
    <3>6. CASE k = AcoustId(m)
      <4>1. rows'[MusicBrainz(m)] = rows[MusicBrainz(m)]
        BY <1>2, <3>1, <3>6, Kinds
      <4>2. m \in imported => ListensLater(m)'
        BY <1>1, <1>2, <3>1, <3>3, <3>6 DEF ListensLater
      <4> QED
        BY <3>1, <3>2, <3>4, <3>5, <4>1, <4>2
    <3>7. CASE k = MusicBrainz(m)
      <4>1. rows'[AcoustId(m)] = rows[AcoustId(m)]
        BY <1>2, <3>1, <3>7, Kinds
      <4>2. Live(m)'
        BY <1>1, <3>1, <3>2, <3>3, <3>7 DEF Live
      <4> QED
        BY <3>1, <3>2, <3>4, <4>1, <4>2
    <3>8. CASE k # AcoustId(m) /\ k # MusicBrainz(m)
      BY <1>2, <3>1, <3>2, <3>4, <3>5, <3>8
    <3> QED
      BY <3>6, <3>7, <3>8
  <2>3. Collecting(member)'
    <3>1. k \in Collection(n) /\ rows'[k] > 0
      BY <1>1, <1>2 DEF Collection
    <3> QED
      BY <1>1, <3>1, CollectsOn
  <2> QED
    BY <1>1, <2>2, <2>3 DEF FlowInv, Coming
<1> QED
  BY <1>4, <1>5, <1>6, <1>7, <1>8 DEF Inv

LEMMA GiveUpKeeps ==
    ASSUME Inv, NEW k \in Key, GiveUp(k)
    PROVE  Inv'
<1> USE DEF GiveUp
<1>1. /\ rows \in [Key -> Nat] /\ work' = work /\ UNCHANGED <<imported, member, run, judged, found, release>>
      /\ rows[k] > 0 /\ ~Started(k) /\ gaveUp' = TRUE
      /\ rows' \in [Key -> Nat] /\ \A j \in Key : rows'[j] = IF j = k THEN rows[j] - 1 ELSE rows[j]
  BY DEF Inv, Types, Ready, Waiting
<1>4. Types'
  BY <1>1 DEF Inv, Types
<1>5. WorkInv'
  <2>1. ASSUME NEW j \in Key
        PROVE  KeyWork(j)'
    BY <1>1 DEF Inv, WorkInv, KeyWork, Empty, Started
  <2>2. ASSUME NEW m \in Member
        PROVE  ScanWork(m)' /\ AcoustIdWork(m)' /\ MusicBrainzWork(m)' /\ CandidateWork(m)'
    BY <1>1, WorkFrame DEF Inv, WorkInv
  <2>3. FolderWork' /\ \A m \in Member : ~(Started(AcoustId(m)) /\ Started(MusicBrainz(m)))'
    BY <1>1 DEF Inv, WorkInv, FolderWork, Empty, Started
  <2> QED
    BY <2>1, <2>2, <2>3 DEF WorkInv
<1>6. RowsInv'
  <2>1. \A m \in Member : \A j \in Collection(m) \union {Candidate(m)} : j \in Key
    BY MemberKeys DEF Collection
  <2>2. \A j \in Key : rows'[j] <= rows[j] /\ rows[j] \in Nat /\ rows'[j] \in Nat
    BY <1>1
  <2> QED
    BY <1>1, <2>1, <2>2, MemberKeys DEF Inv, RowsInv, Askable
<1>7. PassInv'
  <2>1. /\ PassInv /\ judged \in [Member -> Nat] /\ work[Folder] \in Work
        /\ \A m \in Member : run[m]["musicbrainz"] \in Nat
    BY FolderKey DEF Inv, Types
  <2> QED
    BY <1>1, <2>1, PassFrame
<1>8. Progress'
  BY <1>1 DEF Progress
<1> QED
  BY <1>4, <1>5, <1>6, <1>7, <1>8 DEF Inv

-----------------------------------------------------------------------------
(* The jobs of the collection read.                                        *)

LEMMA CollectionReads ==
    ASSUME Inv, NEW n \in Member, NEW k \in Collection(n), NEW w \in Work, Read(k, w), Ready(k),
           w.at # "decided" => w.follow = {} /\ w.joins = {}, DOMAIN w.run = {}, DOMAIN w.found = {},
           UNCHANGED <<member, imported, rows, run, found, judged, release, joined, gaveUp, requests>>
    PROVE  /\ k \in Key /\ work'[k] = w /\ \A j \in Key \ {k} : work'[j] = work[j]
           /\ Types' /\ RowsInv' /\ PassInv' /\ FolderWork' /\ \A j \in Key : KeyWork(j)'
           /\ \A m \in Member : /\ k # Scan(m) => ScanWork(m)'
                                /\ k # AcoustId(m) => AcoustIdWork(m)'
                                /\ k # MusicBrainz(m) => MusicBrainzWork(m)'
                                /\ CandidateWork(m)'
           /\ (\E m \in Member : Stale(m))' <=> (\E m \in Member : Stale(m))
           /\ Coming => Coming'
<1>1. k \in Key /\ k # Folder /\ rows[k] > 0 /\ \A m \in Member : k # Candidate(m)
  BY MemberKeys, Kinds DEF Collection, Ready, Waiting, Started, Inv, Types
<1>2. work' \in [Key -> Work] /\ work'[k] = w /\ \A j \in Key \ {k} : work'[j] = work[j]
  BY <1>1, ReadEffect DEF Inv
<1>3. Types'
  BY <1>2 DEF Inv, Types
<1>4. /\ \A j \in Key : KeyWork(j)'
      /\ \A m \in Member : /\ k # Scan(m) => ScanWork(m)'
                           /\ k # AcoustId(m) => AcoustIdWork(m)'
                           /\ k # MusicBrainz(m) => MusicBrainzWork(m)'
                           /\ CandidateWork(m)'
      /\ FolderWork'
  BY <1>1, ReadKeepsWork DEF Inv
<1>5. RowsInv'
  BY DEF Inv, RowsInv, Askable
<1>6. work'[Folder] = work[Folder]
  BY <1>1, <1>2, FolderKey
<1>7. PassInv'
  <2>1. /\ PassInv /\ judged \in [Member -> Nat] /\ work[Folder] \in Work
        /\ \A m \in Member : run[m]["musicbrainz"] \in Nat
    BY FolderKey DEF Inv, Types
  <2> QED
    BY <1>6, <2>1, PassFrame
<1>8. \A m \in Member : Stale(m)' <=> Stale(m)
  BY DEF Stale, Complete
<1>9. Coming => Coming'
  <2>1. Collecting(member)' <=> Collecting(member)
    BY DEF Collecting, Active
  <2>2. \A m \in Member : WillCheck(m)' <=> WillCheck(m)
    BY <1>1, <1>2, MemberKeys, CheckFrame
  <2>3. (Waiting(Folder)' <=> Waiting(Folder)) /\ (Covers' <=> Covers)
    BY <1>6, <1>8 DEF Waiting, Started, Covers, Looking
  <2> QED
    BY <2>1, <2>2, <2>3 DEF Coming
<1> QED
  BY <1>1, <1>2, <1>3, <1>4, <1>5, <1>7, <1>8, <1>9

LEMMA ReadImportKeeps ==
    ASSUME Inv, NEW n \in Member, ReadImport(n)
    PROVE  Inv'
<1> DEFINE k == Scan(n)
           keys == {FirstAnalysis(n)}
           w == Wanting(keys)
<1>1. keys \in SUBSET Key
  BY MemberKeys DEF FirstAnalysis
<1>2. /\ w \in Work /\ w.at = "decided" /\ w.follow = keys \ Active /\ w.joins = keys \intersect Active
      /\ DOMAIN w.run = {} /\ DOMAIN w.found = {}
  BY <1>1, WantingIsWork
<1>3. k \in Collection(n) /\ Read(k, w) /\ Ready(k)
  BY DEF Collection, ReadImport
<1>4. UNCHANGED <<member, imported, rows, run, found, judged, release, joined, gaveUp, requests>>
  BY DEF ReadImport
<1> HIDE DEF w, k
<1>5. /\ k \in Key /\ work'[k] = w /\ \A j \in Key \ {k} : work'[j] = work[j]
      /\ Types' /\ RowsInv' /\ PassInv' /\ FolderWork' /\ \A j \in Key : KeyWork(j)'
      /\ \A m \in Member : /\ k # Scan(m) => ScanWork(m)'
                           /\ k # AcoustId(m) => AcoustIdWork(m)'
                           /\ k # MusicBrainz(m) => MusicBrainzWork(m)'
                           /\ CandidateWork(m)'
      /\ (\E m \in Member : Stale(m))' <=> (\E m \in Member : Stale(m))
      /\ Coming => Coming'
  BY <1>2, <1>3, <1>4, CollectionReads
<1>6. \A m \in Member : k # AcoustId(m) /\ k # MusicBrainz(m) /\ (k = Scan(m) => m = n)
  BY Kinds, SameMember DEF k
<1>7. WorkInv'
  <2>1. ScanWork(n)'
    BY <1>2, <1>5 DEF ScanWork, Left, FirstAnalysis, k
  <2>2. \A m \in Member : ~(Started(AcoustId(m)) /\ Started(MusicBrainz(m)))'
    BY <1>5, <1>6, MemberKeys DEF Inv, WorkInv, Started
  <2> QED
    BY <1>5, <1>6, <2>1, <2>2 DEF WorkInv
<1>8. Progress'
  <2> SUFFICES ASSUME "musicbrainz" \in Provider, ~gaveUp', ~joined'
      PROVE  FlowInv' /\ ((\E m \in Member : Stale(m))' => Coming')
    BY DEF Progress
  <2>1. FlowInv /\ ((\E m \in Member : Stale(m)) => Coming) /\ member \subseteq Member
    BY <1>4 DEF Inv, Progress, Types
  <2>2. ASSUME NEW m \in member
        PROVE  (ListensLater(m)' <=> ListensLater(m)) /\ (Live(m)' <=> Live(m))
    BY <1>4, <1>5, <1>6, <2>1, MemberKeys, LiveFrame
  <2>3. FlowInv'
    BY <1>4, <2>1, <2>2 DEF FlowInv
  <2> QED
    BY <1>5, <2>1, <2>3
<1> QED
  BY <1>5, <1>7, <1>8 DEF Inv

LEMMA ReadAcoustIdKeeps ==
    ASSUME Inv, NEW n \in Member, ReadAcoustId(n)
    PROVE  Inv'
<1> DEFINE k == AcoustId(n)
           keys == AfterAcoustId(n)
           w == IF Askable(n, "acoustid") THEN Wanting(keys) ELSE Ending
<1>1. /\ keys \in SUBSET Key /\ keys \subseteq {MusicBrainz(n), Candidate(n)}
      /\ "musicbrainz" \in Provider => keys = {MusicBrainz(n)}
  BY MemberKeys DEF AfterAcoustId, Selection
<1>2. /\ w \in Work /\ w.at \in {"decided", "ending"} /\ DOMAIN w.run = {} /\ DOMAIN w.found = {}
      /\ w.at = "decided" <=> Askable(n, "acoustid")
      /\ w.at = "decided" => w.follow \union w.joins = keys
      /\ w.at # "decided" => w.follow = {} /\ w.joins = {}
  <2>1. CASE Askable(n, "acoustid")
    <3>1. /\ Wanting(keys) \in Work /\ Wanting(keys).at = "decided"
          /\ Wanting(keys).follow = keys \ Active /\ Wanting(keys).joins = keys \intersect Active
          /\ DOMAIN Wanting(keys).run = {} /\ DOMAIN Wanting(keys).found = {}
      BY <1>1, WantingIsWork
    <3> QED
      BY <2>1, <3>1
  <2>2. CASE ~Askable(n, "acoustid")
    BY <2>2, EndingIsWork
  <2> QED
    BY <2>1, <2>2
<1>3. k \in Collection(n) /\ Read(k, w) /\ Ready(k)
  BY DEF Collection, ReadAcoustId
<1>4. UNCHANGED <<member, imported, rows, run, found, judged, release, joined, gaveUp, requests>>
  BY DEF ReadAcoustId
<1> HIDE DEF w, k, keys
<1>5. /\ k \in Key /\ work'[k] = w /\ \A j \in Key \ {k} : work'[j] = work[j]
      /\ Types' /\ RowsInv' /\ PassInv' /\ FolderWork' /\ \A j \in Key : KeyWork(j)'
      /\ \A m \in Member : /\ k # Scan(m) => ScanWork(m)'
                           /\ k # AcoustId(m) => AcoustIdWork(m)'
                           /\ k # MusicBrainz(m) => MusicBrainzWork(m)'
                           /\ CandidateWork(m)'
      /\ (\E m \in Member : Stale(m))' <=> (\E m \in Member : Stale(m))
      /\ Coming => Coming'
  BY <1>2, <1>3, <1>4, CollectionReads
<1>6. \A m \in Member : k # Scan(m) /\ k # MusicBrainz(m) /\ k # Candidate(m) /\ (k = AcoustId(m) => m = n)
  BY Kinds, SameMember DEF k
<1>7. WorkInv'
  <2>1. AcoustIdWork(n)'
    BY <1>1, <1>2, <1>4, <1>5 DEF AcoustIdWork, Left, Askable, k
  <2>2. ~Started(MusicBrainz(n)) /\ work'[MusicBrainz(n)] = work[MusicBrainz(n)]
    BY <1>5, <1>6, MemberKeys DEF ReadAcoustId, SourceFree
  <2>3. ASSUME NEW m \in Member
        PROVE  ~(Started(AcoustId(m)) /\ Started(MusicBrainz(m)))'
    <3>1. CASE m = n
      BY <2>2, <3>1 DEF Started
    <3>2. CASE m # n
      BY <1>5, <1>6, <3>2, MemberKeys DEF Inv, WorkInv, Started
    <3> QED
      BY <3>1, <3>2
  <2> QED
    BY <1>5, <1>6, <2>1, <2>3 DEF WorkInv
<1>8. Progress'
  <2> SUFFICES ASSUME "musicbrainz" \in Provider, ~gaveUp', ~joined'
      PROVE  FlowInv' /\ ((\E m \in Member : Stale(m))' => Coming')
    BY DEF Progress
  <2>1. FlowInv /\ ((\E m \in Member : Stale(m)) => Coming) /\ member \subseteq Member
    BY <1>4 DEF Inv, Progress, Types
  <2>2. ASSUME NEW m \in member
        PROVE  (ListensLater(m) => ListensLater(m)') /\ (Live(m) => Live(m)')
    <3>1. CASE m = n
      <4>1. work'[MusicBrainz(n)] = work[MusicBrainz(n)]
        BY <1>5, <1>6, MemberKeys
      <4>2. ListensLater(n) => ListensLater(n)'
        BY <1>2, <1>4, <1>5 DEF ListensLater, Askable, k
      <4>3. Waiting(MusicBrainz(n))' <=> Waiting(MusicBrainz(n))
        BY <1>4, <4>1 DEF Waiting, Started
      <4>4. Live(n) => Live(n)'
        BY <1>4, <4>1, <4>2, <4>3 DEF Live, Selects, Left
      <4> QED
        BY <3>1, <4>2, <4>4
    <3>2. CASE m # n
      BY <1>4, <1>5, <1>6, <2>1, <3>2, MemberKeys, LiveFrame
    <3> QED
      BY <3>1, <3>2
  <2>3. FlowInv'
    BY <1>4, <2>1, <2>2 DEF FlowInv
  <2> QED
    BY <1>5, <2>1, <2>3
<1> QED
  BY <1>5, <1>7, <1>8 DEF Inv

LEMMA ReadMusicBrainzKeeps ==
    ASSUME FolderAssumption, Inv, NEW n \in Member, ReadMusicBrainz(n)
    PROVE  Inv'
<1> DEFINE k == MusicBrainz(n)
           keys == Selection(n, k, "musicbrainz")
           w == IF Askable(n, "musicbrainz") THEN Wanting(keys) ELSE Ending
<1>1. keys \in SUBSET Key /\ keys \subseteq {Candidate(n)}
  BY MemberKeys DEF Selection
<1>2. /\ w \in Work /\ w.at \in {"decided", "ending"} /\ DOMAIN w.run = {} /\ DOMAIN w.found = {}
      /\ w.at = "decided" <=> Askable(n, "musicbrainz")
      /\ w.at = "decided" => w.follow \union w.joins = keys
      /\ w.at # "decided" => w.follow = {} /\ w.joins = {}
  <2>1. CASE Askable(n, "musicbrainz")
    <3>1. /\ Wanting(keys) \in Work /\ Wanting(keys).at = "decided"
          /\ Wanting(keys).follow = keys \ Active /\ Wanting(keys).joins = keys \intersect Active
          /\ DOMAIN Wanting(keys).run = {} /\ DOMAIN Wanting(keys).found = {}
      BY <1>1, WantingIsWork
    <3> QED
      BY <2>1, <3>1
  <2>2. CASE ~Askable(n, "musicbrainz")
    BY <2>2, EndingIsWork
  <2> QED
    BY <2>1, <2>2
<1>3. k \in Collection(n) /\ Read(k, w) /\ Ready(k)
  BY DEF Collection, ReadMusicBrainz
<1>4. UNCHANGED <<member, imported, rows, run, found, judged, release, joined, gaveUp, requests>>
  BY DEF ReadMusicBrainz
<1>k. /\ Collected(n, k, "musicbrainz") => keys = {Candidate(n)}
      /\ k = MusicBrainz(n)
  BY DEF Selection
<1> HIDE DEF w, k, keys
<1>5. /\ k \in Key /\ work'[k] = w /\ \A j \in Key \ {k} : work'[j] = work[j]
      /\ Types' /\ RowsInv' /\ PassInv' /\ FolderWork' /\ \A j \in Key : KeyWork(j)'
      /\ \A m \in Member : /\ k # Scan(m) => ScanWork(m)'
                           /\ k # AcoustId(m) => AcoustIdWork(m)'
                           /\ k # MusicBrainz(m) => MusicBrainzWork(m)'
                           /\ CandidateWork(m)'
      /\ (\E m \in Member : Stale(m))' <=> (\E m \in Member : Stale(m))
      /\ Coming => Coming'
  BY <1>2, <1>3, <1>4, CollectionReads
<1>6. \A m \in Member : k # Scan(m) /\ k # AcoustId(m) /\ k # Candidate(m) /\ (k = MusicBrainz(m) => m = n)
  BY Kinds, SameMember DEF k
<1>7. WorkInv'
  <2>1. MusicBrainzWork(n)'
    BY <1>1, <1>2, <1>4, <1>5 DEF MusicBrainzWork, Left, Askable, k
  <2>2. ~Started(AcoustId(n)) /\ work'[AcoustId(n)] = work[AcoustId(n)]
    BY <1>5, <1>6, MemberKeys DEF ReadMusicBrainz, SourceFree
  <2>3. ASSUME NEW m \in Member
        PROVE  ~(Started(AcoustId(m)) /\ Started(MusicBrainz(m)))'
    <3>1. CASE m = n
      BY <2>2, <3>1 DEF Started
    <3>2. CASE m # n
      BY <1>5, <1>6, <3>2, MemberKeys DEF Inv, WorkInv, Started
    <3> QED
      BY <3>1, <3>2
  <2> QED
    BY <1>5, <1>6, <2>1, <2>3 DEF WorkInv
<1>8. Progress'
  <2> SUFFICES ASSUME "musicbrainz" \in Provider, ~gaveUp', ~joined'
      PROVE  FlowInv' /\ ((\E m \in Member : Stale(m))' => Coming')
    BY DEF Progress
  <2>1. /\ FlowInv /\ ((\E m \in Member : Stale(m)) => Coming) /\ member \subseteq Member
        /\ rows \in [Key -> Nat] /\ run \in [Member -> [{"acoustid", "musicbrainz"} -> Nat]]
    BY <1>4 DEF Inv, Progress, Types
  <2>2. ASSUME NEW m \in member
        PROVE  (ListensLater(m) <=> ListensLater(m)') /\ (m # n => (Live(m) <=> Live(m)'))
    <3>1. work'[AcoustId(m)] = work[AcoustId(m)] /\ (m # n => work'[MusicBrainz(m)] = work[MusicBrainz(m)])
      BY <1>5, <1>6, <2>1, MemberKeys
    <3>2. ListensLater(m)' <=> ListensLater(m)
      BY <1>4, <3>1 DEF ListensLater, Waiting, Started
    <3>3. m # n => (Live(m) <=> Live(m)')
      BY <1>4, <2>1, <3>1, LiveFrame
    <3> QED
      BY <3>2, <3>3
  <2>3. n \in member => Live(n)'
    <3> SUFFICES ASSUME n \in member PROVE Live(n)'
      OBVIOUS
    <3>0. /\ n \notin imported => rows[Scan(n)] > 0
          /\ n \in imported /\ "acoustid" \in Provider /\ run[n]["acoustid"] = 0 => ListensLater(n)
          /\ rows[AcoustId(n)] > 0 => rows[Scan(n)] > 0 \/ ListensLater(n)
      BY <2>1 DEF FlowInv
    <3>1. rows[Scan(n)] > 0 \/ ListensLater(n) => Live(n)'
      BY <1>4, <2>2 DEF Live
    <3>2. CASE n \notin imported
      BY <3>0, <3>1, <3>2
    <3>3. CASE n \in imported /\ Collected(n, k, "musicbrainz")
      <4>1. work'[k].at = "decided" /\ Candidate(n) \in work'[k].follow \union work'[k].joins
        BY <1>2, <1>k, <1>5, <3>3 DEF Askable
      <4> QED
        BY <1>k, <4>1 DEF Live, Selects, Left
    <3>4. CASE n \in imported /\ ~Collected(n, k, "musicbrainz")
      <4>1. CASE (Collection(n) \ {k}) \intersect Active # {}
        <5>1. rows[Scan(n)] > 0 \/ rows[AcoustId(n)] > 0
          BY <1>k, <4>1 DEF Collection, Active
        <5> QED
          BY <3>0, <3>1, <5>1
      <4>2. CASE rows[k] # 1
        <5>1. rows[k] > 1
          BY <1>3, <1>5, <2>1, <4>2 DEF Ready, Waiting, Started
        <5>2. Waiting(k)'
          BY <1>4, <1>5, <2>1, <5>1 DEF Waiting, Started
        <5> QED
          BY <1>4, <1>k, <3>4, <5>2 DEF Live
      <4>3. CASE \E q \in Provider : q # "musicbrainz" /\ ~(run[n][q] > 0)
        <5>1. "acoustid" \in Provider /\ ~(run[n]["acoustid"] > 0)
          BY <4>3 DEF FolderAssumption
        <5>2. run[n]["acoustid"] = 0
          BY <2>1, <5>1
        <5> QED
          BY <3>0, <3>1, <3>4, <5>1, <5>2
      <4> QED
        BY <3>4, <4>1, <4>2, <4>3 DEF Collected
    <3> QED
      BY <3>2, <3>3, <3>4
  <2>4. FlowInv'
    BY <1>4, <2>1, <2>2, <2>3 DEF FlowInv
  <2> QED
    BY <1>5, <2>1, <2>4
<1> QED
  BY <1>5, <1>7, <1>8 DEF Inv

-----------------------------------------------------------------------------
(* The jobs of a member settle.                                            *)

LEMMA MemberSettles ==
    ASSUME Inv, NEW n \in Member, NEW k \in {Scan(n), AcoustId(n), MusicBrainz(n), Candidate(n)},
           Started(k), Settle(k), UNCHANGED <<member, release, judged>>,
           imported \subseteq imported', imported' \subseteq imported \union {n}
    PROVE  /\ k \in Key /\ n \in member /\ k \notin Left(k)
           /\ rows' \in [Key -> Nat] /\ work' \in [Key -> Work] /\ joined' \in BOOLEAN
           /\ work'[k] = Idle /\ \A j \in Key \ {k} : work'[j] = work[j]
           /\ work'[Folder] = work[Folder]
           /\ WorkInv' /\ (joined => joined')
           /\ \A m \in Member :
                /\ rows'[Scan(m)] \in Nat /\ rows[Scan(m)] \in Nat
                /\ IF k = Scan(m) THEN rows'[Scan(m)] = rows[Scan(m)] - 1 ELSE rows'[Scan(m)] = rows[Scan(m)]
                /\ \A j \in {Scan(m), AcoustId(m), MusicBrainz(m), Candidate(m)} : rows'[j] > 0 => m \in member
           /\ \A j \in Key : Waiting(j) => Waiting(j)'
           /\ \A j \in Key \ (Left(k) \union {k}) : rows'[j] = rows[j]
           /\ ~joined' => \A j \in Left(k) : Waiting(j)'
           /\ \A m \in Member \ {n} :
                /\ \A j \in {Scan(m), AcoustId(m), MusicBrainz(m), Candidate(m)} :
                     j # k /\ rows'[j] = rows[j]
                /\ ListensLater(m)' <=> ListensLater(m)
                /\ Live(m)' <=> Live(m)
                /\ WillCheck(m)' <=> WillCheck(m)
<1>1. /\ k \in Key /\ k # Folder /\ Types /\ WorkInv /\ RowsInv
      /\ ScanWork(n) /\ AcoustIdWork(n) /\ MusicBrainzWork(n) /\ CandidateWork(n) /\ KeyWork(k)
  BY MemberKeys, Kinds DEF Inv, WorkInv
<1>2. Left(k) \subseteq {AcoustId(n), MusicBrainz(n), Candidate(n), Folder} /\ k \notin Left(k)
  <2>1. CASE k = Scan(n)
    BY <1>1, <2>1, Kinds DEF ScanWork, FirstAnalysis, Started
  <2>2. CASE k = AcoustId(n)
    BY <1>1, <2>2, Kinds DEF AcoustIdWork
  <2>3. CASE k = MusicBrainz(n)
    BY <1>1, <2>3, Kinds DEF MusicBrainzWork
  <2>4. CASE k = Candidate(n)
    BY <1>1, <2>4, Kinds DEF CandidateWork
  <2> QED
    BY <2>1, <2>2, <2>3, <2>4
<1>3. rows \in [Key -> Nat] /\ rows[k] > 0 /\ k \notin work[k].follow
  BY <1>1, <1>2 DEF Types, KeyWork, Left
<1>4. /\ rows' \in [Key -> Nat] /\ work' \in [Key -> Work]
      /\ work'[k] = Idle /\ \A j \in Key \ {k} : work'[j] = work[j]
      /\ \A j \in Key \ {k} : rows'[j] = IF j \in work[k].follow THEN rows[j] + 1 ELSE rows[j]
      /\ joined' \in BOOLEAN /\ (joined => joined')
  BY <1>1, <1>3, SettleEffect
<1>5. \A m \in Member :
        /\ rows'[Scan(m)] \in Nat /\ rows[Scan(m)] \in Nat
        /\ IF k = Scan(m) THEN rows'[Scan(m)] = rows[Scan(m)] - 1 ELSE rows'[Scan(m)] = rows[Scan(m)]
        /\ \A j \in {Scan(m), AcoustId(m), MusicBrainz(m), Candidate(m)} : rows'[j] > 0 => m \in member
        /\ (m # n \/ k = Folder) => /\ rows'[AcoustId(m)] = rows[AcoustId(m)]
                     /\ rows'[MusicBrainz(m)] = rows[MusicBrainz(m)]
                     /\ rows'[Candidate(m)] = rows[Candidate(m)]
  BY <1>1, <1>2, SettleRows
<1>6. WorkInv'
  BY <1>1, <1>2, SettleKeepsWork
<1>7. /\ \A j \in Key : Waiting(j) => Waiting(j)'
      /\ ~joined' => \A j \in Left(k) : Waiting(j)'
  BY <1>1, <1>2, SettleWaiting
<1>8. \A j \in Key \ (Left(k) \union {k}) : rows'[j] = rows[j]
  BY <1>4 DEF Left
<1>9. ASSUME NEW m \in Member \ {n}
      PROVE  /\ \A j \in {Scan(m), AcoustId(m), MusicBrainz(m), Candidate(m)} : j # k /\ rows'[j] = rows[j]
             /\ ListensLater(m)' <=> ListensLater(m)
             /\ Live(m)' <=> Live(m)
             /\ WillCheck(m)' <=> WillCheck(m)
  <2>1. \A j \in {Scan(m), AcoustId(m), MusicBrainz(m), Candidate(m)} : j # k /\ j \in Key
    BY Kinds, SameMember, MemberKeys
  <2>2. \A j \in {Scan(m), AcoustId(m), MusicBrainz(m), Candidate(m)} :
          rows'[j] = rows[j] /\ work'[j] = work[j]
    BY <1>4, <1>5, <2>1
  <2>3. (ListensLater(m)' <=> ListensLater(m)) /\ (Live(m)' <=> Live(m))
    BY <2>2, LiveFrame
  <2>4. WillCheck(m)' <=> WillCheck(m)
    BY <2>2, CheckFrame
  <2> QED
    BY <2>1, <2>2, <2>3, <2>4
<1>10. n \in member
  BY <1>1, <1>3 DEF RowsInv, Collection
<1>11. work'[Folder] = work[Folder]
  BY <1>1, <1>4, FolderKey
<1> QED
  BY <1>1, <1>2, <1>4, <1>5, <1>6, <1>7, <1>8, <1>9, <1>10, <1>11

LEMMA CommitImportKeeps ==
    ASSUME Inv, NEW n \in Member, CommitImport(n)
    PROVE  Inv'
<1> DEFINE k == Scan(n)
<1>1. /\ k \in {Scan(n), AcoustId(n), MusicBrainz(n), Candidate(n)} /\ Started(k) /\ Settle(k)
      /\ UNCHANGED <<member, run, found, judged, release, gaveUp, requests>>
      /\ imported' = imported \union {n} /\ work[k].at = "decided"
  BY DEF CommitImport, Started
<1>2. /\ k \in Key /\ n \in member /\ k \notin Left(k)
      /\ rows' \in [Key -> Nat] /\ work' \in [Key -> Work] /\ joined' \in BOOLEAN
      /\ work'[Folder] = work[Folder]
      /\ WorkInv' /\ (joined => joined')
  BY <1>1, MemberSettles
<1>3. \A m \in Member :
        /\ rows'[Scan(m)] \in Nat /\ rows[Scan(m)] \in Nat
        /\ IF k = Scan(m) THEN rows'[Scan(m)] = rows[Scan(m)] - 1 ELSE rows'[Scan(m)] = rows[Scan(m)]
        /\ \A j \in {Scan(m), AcoustId(m), MusicBrainz(m), Candidate(m)} : rows'[j] > 0 => m \in member
  BY <1>1, MemberSettles
<1>4. ~joined' => \A j \in Left(k) : Waiting(j)'
  BY <1>1, MemberSettles
<1>5. \A m \in Member \ {n} :
        /\ \A j \in {Scan(m), AcoustId(m), MusicBrainz(m), Candidate(m)} : j # k /\ rows'[j] = rows[j]
        /\ ListensLater(m)' <=> ListensLater(m)
        /\ Live(m)' <=> Live(m)
  BY <1>1, MemberSettles
<1>6. Types'
  BY <1>1, <1>2 DEF Inv, Types
<1>7. RowsInv'
  <2> SUFFICES ASSUME NEW m \in Member
      PROVE  /\ rows'[Scan(m)] <= 1
             /\ rows'[Scan(m)] > 0 => m \in member \ imported'
             /\ \A j \in Collection(m) \union {Candidate(m)} : rows'[j] > 0 => m \in member
             /\ \A p \in {"acoustid", "musicbrainz"} : run[m][p] > 0 => m \in imported' /\ p \in Provider
             /\ judged[m] <= run[m]["musicbrainz"]
    BY <1>1 DEF RowsInv, Askable
  <2>1. /\ rows[Scan(m)] <= 1
        /\ rows[Scan(m)] > 0 => m \in member \ imported
        /\ \A p \in {"acoustid", "musicbrainz"} : run[m][p] > 0 => m \in imported /\ p \in Provider
        /\ judged[m] <= run[m]["musicbrainz"]
    BY DEF Inv, RowsInv, Askable
  <2>2. m # n => k # Scan(m)
    BY SameMember
  <2> QED
    BY <1>1, <1>3, <2>1, <2>2 DEF Collection
<1>8. PassInv'
  <2>1. /\ PassInv /\ judged \in [Member -> Nat] /\ work[Folder] \in Work
        /\ \A m \in Member : run[m]["musicbrainz"] \in Nat
    BY FolderKey DEF Inv, Types
  <2> QED
    BY <1>1, <1>2, <2>1, PassFrame
<1>9. Progress'
  <2> SUFFICES ASSUME "musicbrainz" \in Provider, ~gaveUp', ~joined'
      PROVE  FlowInv' /\ Coming'
    BY DEF Progress
  <2>1. FlowInv /\ member \subseteq Member
    BY <1>1, <1>2 DEF Inv, Progress, Types
  <2>2. Waiting(FirstAnalysis(n))'
    <3>1. Left(k) = {FirstAnalysis(n)}
      BY <1>1 DEF Inv, WorkInv, ScanWork
    <3> QED
      BY <1>4, <3>1 DEF FirstAnalysis
  <2>3. ASSUME NEW m \in member
        PROVE  /\ m \notin imported' => rows'[Scan(m)] > 0
               /\ m \in imported' /\ "acoustid" \in Provider /\ run[m]["acoustid"] = 0 => ListensLater(m)'
               /\ rows'[AcoustId(m)] > 0 => rows'[Scan(m)] > 0 \/ ListensLater(m)'
               /\ rows'[MusicBrainz(m)] > 0 => Live(m)'
    <3>1. CASE m = n
      <4>1. n \in imported'
        BY <1>1
      <4>2. CASE "acoustid" \in Provider
        BY <2>2, <3>1, <4>1, <4>2 DEF FirstAnalysis, ListensLater, Live
      <4>3. CASE "acoustid" \notin Provider
        BY <2>2, <3>1, <4>1, <4>3 DEF FirstAnalysis, ListensLater, Live
      <4> QED
        BY <4>2, <4>3
    <3>2. CASE m # n
      BY <1>1, <1>5, <2>1, <3>2 DEF FlowInv
    <3> QED
      BY <3>1, <3>2
  <2>4. Collecting(member)'
    <3>1. FirstAnalysis(n) \in Collection(n) /\ FirstAnalysis(n) \in Key
      BY MemberKeys DEF FirstAnalysis, Collection
    <3>2. rows'[FirstAnalysis(n)] > 0
      BY <1>2, <2>2, <3>1 DEF Waiting
    <3> QED
      BY <1>1, <1>2, <3>1, <3>2, CollectsOn
  <2> QED
    BY <1>1, <2>3, <2>4 DEF FlowInv, Coming
<1> QED
  BY <1>2, <1>6, <1>7, <1>8, <1>9 DEF Inv

LEMMA CommitAcoustIdKeeps ==
    ASSUME Inv, NEW n \in Member, CommitAcoustId(n)
    PROVE  Inv'
<1> DEFINE k == AcoustId(n)
<1>1. /\ k \in {Scan(n), AcoustId(n), MusicBrainz(n), Candidate(n)} /\ Started(k) /\ Settle(k)
      /\ UNCHANGED <<member, imported, found, judged, release, requests>>
      /\ imported \subseteq imported' /\ imported' \subseteq imported \union {n}
      /\ work[k].at \in {"decided", "ending"} /\ gaveUp' = (gaveUp \/ "acoustid" \notin Provider)
      /\ run' = IF work[k].at = "decided" THEN [run EXCEPT ![n]["acoustid"] = @ + 1] ELSE run
  BY DEF CommitAcoustId, Started
<1>2. /\ k \in Key /\ n \in member /\ k \notin Left(k)
      /\ rows' \in [Key -> Nat] /\ work' \in [Key -> Work] /\ joined' \in BOOLEAN
      /\ work'[k] = Idle /\ \A j \in Key \ {k} : work'[j] = work[j]
      /\ work'[Folder] = work[Folder]
      /\ WorkInv' /\ (joined => joined')
  BY <1>1, MemberSettles
<1>3. \A m \in Member :
        /\ rows'[Scan(m)] \in Nat /\ rows[Scan(m)] \in Nat
        /\ IF k = Scan(m) THEN rows'[Scan(m)] = rows[Scan(m)] - 1 ELSE rows'[Scan(m)] = rows[Scan(m)]
        /\ \A j \in {Scan(m), AcoustId(m), MusicBrainz(m), Candidate(m)} : rows'[j] > 0 => m \in member
  BY <1>1, MemberSettles
<1>4. /\ \A j \in Key : Waiting(j) => Waiting(j)'
      /\ \A j \in Key \ (Left(k) \union {k}) : rows'[j] = rows[j]
      /\ ~joined' => \A j \in Left(k) : Waiting(j)'
  BY <1>1, MemberSettles
<1>5. \A m \in Member \ {n} :
        /\ \A j \in {Scan(m), AcoustId(m), MusicBrainz(m), Candidate(m)} : j # k /\ rows'[j] = rows[j]
        /\ ListensLater(m)' <=> ListensLater(m)
        /\ Live(m)' <=> Live(m)
        /\ WillCheck(m)' <=> WillCheck(m)
  BY <1>1, MemberSettles
<1>w. /\ AcoustIdWork(n) /\ KeyWork(k) /\ run \in [Member -> [{"acoustid", "musicbrainz"} -> Nat]]
      /\ work[k].at = "decided" => n \in imported /\ "acoustid" \in Provider
  BY <1>2 DEF Inv, WorkInv, Types, AcoustIdWork, Askable
<1>r. /\ run' \in [Member -> [{"acoustid", "musicbrainz"} -> Nat]]
      /\ \A m \in Member : /\ run'[m]["musicbrainz"] = run[m]["musicbrainz"]
                           /\ run'[m]["acoustid"] = IF m = n /\ work[k].at = "decided"
                                                    THEN run[m]["acoustid"] + 1 ELSE run[m]["acoustid"]
                           /\ run'[m]["musicbrainz"] \in Nat /\ run[m]["musicbrainz"] \in Nat
                           /\ run[m]["musicbrainz"] <= run'[m]["musicbrainz"]
                           /\ \A p \in {"acoustid", "musicbrainz"} :
                                run'[m][p] > 0 => run[m][p] > 0 \/ (m \in imported /\ p \in Provider)
  <2>1. CASE work[k].at = "decided"
    BY <1>1, <1>w, <2>1
  <2>2. CASE work[k].at # "decided"
    BY <1>1, <1>w, <2>2
  <2> QED
    BY <2>1, <2>2
<1>6. Types'
  BY <1>1, <1>2, <1>r DEF Inv, Types
<1>7. RowsInv'
  <2> SUFFICES ASSUME NEW m \in Member
      PROVE  /\ rows'[Scan(m)] <= 1
             /\ rows'[Scan(m)] > 0 => m \in member \ imported
             /\ \A j \in Collection(m) \union {Candidate(m)} : rows'[j] > 0 => m \in member
             /\ \A p \in {"acoustid", "musicbrainz"} : run'[m][p] > 0 => m \in imported /\ p \in Provider
             /\ judged[m] <= run'[m]["musicbrainz"]
    BY <1>1 DEF RowsInv, Askable
  <2>1. /\ rows[Scan(m)] <= 1
        /\ rows[Scan(m)] > 0 => m \in member \ imported
        /\ \A p \in {"acoustid", "musicbrainz"} : run[m][p] > 0 => m \in imported /\ p \in Provider
        /\ judged[m] <= run[m]["musicbrainz"] /\ judged[m] \in Nat
    BY DEF Inv, RowsInv, Askable, Types
  <2>2. k # Scan(m)
    BY Kinds
  <2>3. rows'[Scan(m)] <= 1 /\ (rows'[Scan(m)] > 0 => m \in member \ imported)
    BY <1>3, <2>1, <2>2
  <2>4. \A j \in Collection(m) \union {Candidate(m)} : rows'[j] > 0 => m \in member
    BY <1>3 DEF Collection
  <2>5. /\ \A p \in {"acoustid", "musicbrainz"} : run'[m][p] > 0 => m \in imported /\ p \in Provider
        /\ judged[m] <= run'[m]["musicbrainz"]
    BY <1>r, <2>1
  <2> QED
    BY <2>3, <2>4, <2>5
<1>8. PassInv'
  <2>1. /\ PassInv /\ judged \in [Member -> Nat] /\ work[Folder] \in Work
    BY FolderKey DEF Inv, Types
  <2> QED
    BY <1>1, <1>2, <1>r, <2>1, PassFrame
<1>9. Progress'
  <2> SUFFICES ASSUME "musicbrainz" \in Provider, ~gaveUp', ~joined'
      PROVE  FlowInv' /\ ((\E m \in Member : Stale(m))' => Coming')
    BY DEF Progress
  <2>1. /\ FlowInv /\ member \subseteq Member /\ "acoustid" \in Provider
    BY <1>1, <1>2 DEF Inv, Progress, Types
  <2>2. /\ work'[MusicBrainz(n)] = work[MusicBrainz(n)] /\ MusicBrainz(n) \in Key
        /\ rows'[k] > 0 => Waiting(k)'
        /\ rows'[Scan(n)] = rows[Scan(n)]
    BY <1>2, <1>3, Kinds, MemberKeys, EndingIsWork DEF Waiting, Started
  <2>3. rows[Scan(n)] > 0 \/ ListensLater(n)
    <3>1. rows[AcoustId(n)] > 0
      BY <1>1, <1>w DEF KeyWork
    <3> QED
      BY <1>2, <2>1, <3>1 DEF FlowInv
  <2>4. work[k].at = "decided" => Waiting(MusicBrainz(n))' /\ n \in imported
    BY <1>4, <1>w DEF AcoustIdWork
  <2>5. rows[Scan(n)] > 0 \/ rows'[k] > 0 \/ Waiting(MusicBrainz(n))'
    <3>1. ListensLater(n) => Waiting(k) \/ work[k].at = "decided"
      BY <2>1 DEF ListensLater
    <3>2. Waiting(k) => rows'[k] > 0
      BY <1>2, <1>4 DEF Waiting
    <3> QED
      BY <2>3, <2>4, <3>1, <3>2
  <2>6. Coming'
    <3>1. rows'[Scan(n)] > 0 \/ rows'[AcoustId(n)] > 0 \/ rows'[MusicBrainz(n)] > 0
      BY <1>2, <2>2, <2>5 DEF Waiting
    <3>2. PICK j \in Collection(n) : j \in Key /\ rows'[j] > 0
      BY <3>1, MemberKeys DEF Collection
    <3>3. Collecting(member)'
      BY <1>1, <1>2, <3>2, CollectsOn
    <3> QED
      BY <3>3 DEF Coming
  <2>7. rows'[k] > 0 /\ n \in imported => ListensLater(n)'
    BY <1>1, <2>1, <2>2 DEF ListensLater
  <2>8. ASSUME NEW m \in member
        PROVE  /\ m \notin imported => rows'[Scan(m)] > 0
               /\ m \in imported /\ "acoustid" \in Provider /\ run'[m]["acoustid"] = 0 => ListensLater(m)'
               /\ rows'[AcoustId(m)] > 0 => rows'[Scan(m)] > 0 \/ ListensLater(m)'
               /\ rows'[MusicBrainz(m)] > 0 => Live(m)'
    <3>1. /\ m \notin imported => rows[Scan(m)] > 0
          /\ m \in imported /\ "acoustid" \in Provider /\ run[m]["acoustid"] = 0 => ListensLater(m)
          /\ rows[AcoustId(m)] > 0 => rows[Scan(m)] > 0 \/ ListensLater(m)
          /\ rows[MusicBrainz(m)] > 0 => Live(m)
      BY <2>1 DEF FlowInv
    <3>2. CASE m = n
      <4>1. CASE n \notin imported
        BY <1>w, <2>2, <3>1, <3>2, <4>1 DEF Live
      <4>2. CASE n \in imported /\ work[k].at = "decided"
        <5>1. run'[n]["acoustid"] # 0
          BY <1>r, <1>w, <4>2
        <5>2. Live(n)'
          BY <1>1, <2>4, <4>2 DEF Live
        <5> QED
          BY <2>7, <3>2, <4>2, <5>1, <5>2
      <4>3. CASE n \in imported /\ work[k].at = "ending"
        <5>1. run'[n]["acoustid"] = run[n]["acoustid"] /\ Left(k) = {}
          BY <1>r, <1>w, <4>3 DEF KeyWork, Empty, Left
        <5>2. /\ rows'[MusicBrainz(n)] = rows[MusicBrainz(n)]
              /\ work'[MusicBrainz(n)] = work[MusicBrainz(n)]
          BY <1>2, <1>4, <2>2, <5>1, Kinds
        <5>3. ListensLater(n) => ListensLater(n)'
          <6>1. ListensLater(n) => Waiting(k)
            BY <2>1, <4>3 DEF ListensLater
          <6>2. Waiting(k) => Waiting(k)'
            BY <1>2, <1>4
          <6> QED
            BY <1>1, <2>1, <4>3, <6>1, <6>2 DEF ListensLater
        <5>4. Live(n) => Live(n)'
          <6>1. Waiting(MusicBrainz(n)) => Waiting(MusicBrainz(n))'
            BY <1>4, <2>2
          <6>2. Selects(n) => Selects(n)'
            BY <5>2 DEF Selects, Left
          <6> QED
            BY <1>1, <2>2, <5>3, <6>1, <6>2 DEF Live
        <5> QED
          BY <2>7, <3>1, <3>2, <4>3, <5>1, <5>2, <5>3, <5>4
      <4> QED
        BY <1>1, <4>1, <4>2, <4>3
    <3>3. CASE m # n
      BY <1>5, <1>r, <2>1, <3>1, <3>3
    <3> QED
      BY <3>2, <3>3
  <2> QED
    BY <1>1, <2>6, <2>8 DEF FlowInv
<1> QED
  BY <1>2, <1>6, <1>7, <1>8, <1>9 DEF Inv

LEMMA CommitMusicBrainzKeeps ==
    ASSUME Inv, NEW n \in Member, CommitMusicBrainz(n)
    PROVE  Inv'
<1> DEFINE k == MusicBrainz(n)
<1>1. /\ k \in {Scan(n), AcoustId(n), MusicBrainz(n), Candidate(n)} /\ Started(k) /\ Settle(k)
      /\ UNCHANGED <<member, imported, judged, release, gaveUp, requests>>
      /\ imported \subseteq imported' /\ imported' \subseteq imported \union {n}
      /\ work[k].at \in {"decided", "ending"}
      /\ run' = IF work[k].at = "decided" THEN [run EXCEPT ![n]["musicbrainz"] = @ + 1] ELSE run
      /\ found' = found \/ \E rs \in SUBSET Release : found' = [found EXCEPT ![n] = rs]
  BY DEF CommitMusicBrainz, Started
<1>2. /\ k \in Key /\ n \in member /\ k \notin Left(k)
      /\ rows' \in [Key -> Nat] /\ work' \in [Key -> Work] /\ joined' \in BOOLEAN
      /\ work'[k] = Idle /\ \A j \in Key \ {k} : work'[j] = work[j]
      /\ work'[Folder] = work[Folder]
      /\ WorkInv' /\ (joined => joined')
  BY <1>1, MemberSettles
<1>3. \A m \in Member :
        /\ rows'[Scan(m)] \in Nat /\ rows[Scan(m)] \in Nat
        /\ IF k = Scan(m) THEN rows'[Scan(m)] = rows[Scan(m)] - 1 ELSE rows'[Scan(m)] = rows[Scan(m)]
        /\ \A j \in {Scan(m), AcoustId(m), MusicBrainz(m), Candidate(m)} : rows'[j] > 0 => m \in member
  BY <1>1, MemberSettles
<1>4. /\ \A j \in Key : Waiting(j) => Waiting(j)'
      /\ \A j \in Key \ (Left(k) \union {k}) : rows'[j] = rows[j]
      /\ ~joined' => \A j \in Left(k) : Waiting(j)'
  BY <1>1, MemberSettles
<1>5. \A m \in Member \ {n} :
        /\ \A j \in {Scan(m), AcoustId(m), MusicBrainz(m), Candidate(m)} : j # k /\ rows'[j] = rows[j]
        /\ ListensLater(m)' <=> ListensLater(m)
        /\ Live(m)' <=> Live(m)
        /\ WillCheck(m)' <=> WillCheck(m)
  BY <1>1, MemberSettles
<1>w. /\ MusicBrainzWork(n) /\ KeyWork(k) /\ run \in [Member -> [{"acoustid", "musicbrainz"} -> Nat]]
      /\ work[k].at = "decided" => n \in imported /\ "musicbrainz" \in Provider
  BY <1>2 DEF Inv, WorkInv, Types, MusicBrainzWork, Askable
<1>r. /\ run' \in [Member -> [{"acoustid", "musicbrainz"} -> Nat]]
      /\ \A m \in Member : /\ run'[m]["acoustid"] = run[m]["acoustid"]
                           /\ m # n => run'[m] = run[m]
                           /\ run'[m]["musicbrainz"] \in Nat /\ run[m]["musicbrainz"] \in Nat
                           /\ run[m]["musicbrainz"] <= run'[m]["musicbrainz"]
                           /\ \A p \in {"acoustid", "musicbrainz"} :
                                run'[m][p] > 0 => run[m][p] > 0 \/ (m \in imported /\ p \in Provider)
  <2>1. CASE work[k].at = "decided"
    BY <1>1, <1>w, <2>1
  <2>2. CASE work[k].at # "decided"
    BY <1>1, <1>w, <2>2
  <2> QED
    BY <2>1, <2>2
<1>6. Types'
  BY <1>1, <1>2, <1>r DEF Inv, Types
<1>7. RowsInv'
  <2> SUFFICES ASSUME NEW m \in Member
      PROVE  /\ rows'[Scan(m)] <= 1
             /\ rows'[Scan(m)] > 0 => m \in member \ imported
             /\ \A j \in Collection(m) \union {Candidate(m)} : rows'[j] > 0 => m \in member
             /\ \A p \in {"acoustid", "musicbrainz"} : run'[m][p] > 0 => m \in imported /\ p \in Provider
             /\ judged[m] <= run'[m]["musicbrainz"]
    BY <1>1 DEF RowsInv, Askable
  <2>1. /\ rows[Scan(m)] <= 1
        /\ rows[Scan(m)] > 0 => m \in member \ imported
        /\ \A p \in {"acoustid", "musicbrainz"} : run[m][p] > 0 => m \in imported /\ p \in Provider
        /\ judged[m] <= run[m]["musicbrainz"] /\ judged[m] \in Nat
    BY DEF Inv, RowsInv, Askable, Types
  <2>2. k # Scan(m)
    BY Kinds
  <2>3. rows'[Scan(m)] <= 1 /\ (rows'[Scan(m)] > 0 => m \in member \ imported)
    BY <1>3, <2>1, <2>2
  <2>4. \A j \in Collection(m) \union {Candidate(m)} : rows'[j] > 0 => m \in member
    BY <1>3 DEF Collection
  <2>5. /\ \A p \in {"acoustid", "musicbrainz"} : run'[m][p] > 0 => m \in imported /\ p \in Provider
        /\ judged[m] <= run'[m]["musicbrainz"]
    BY <1>r, <2>1
  <2> QED
    BY <2>3, <2>4, <2>5
<1>8. PassInv'
  <2>1. /\ PassInv /\ judged \in [Member -> Nat] /\ work[Folder] \in Work
    BY FolderKey DEF Inv, Types
  <2> QED
    BY <1>1, <1>2, <1>r, <2>1, PassFrame
<1>9. Progress'
  <2> SUFFICES ASSUME "musicbrainz" \in Provider, ~gaveUp', ~joined'
      PROVE  FlowInv' /\ ((\E m \in Member : Stale(m))' => Coming')
    BY DEF Progress
  <2>1. /\ FlowInv /\ member \subseteq Member
        /\ (\E m \in Member : Stale(m)) => Coming
    BY <1>1, <1>2 DEF Inv, Progress, Types
  <2>2. /\ work'[AcoustId(n)] = work[AcoustId(n)] /\ AcoustId(n) \in Key
        /\ work'[Candidate(n)] = work[Candidate(n)] /\ Candidate(n) \in Key
        /\ rows'[k] > 0 => Waiting(k)'
    BY <1>2, Kinds, MemberKeys, EndingIsWork DEF Waiting, Started
  <2>3. /\ rows'[AcoustId(n)] = rows[AcoustId(n)] /\ rows'[Scan(n)] = rows[Scan(n)]
        /\ rows'[Folder] = rows[Folder]
    <3>1. Left(k) \subseteq {Candidate(n)}
      BY <1>w DEF MusicBrainzWork
    <3> QED
      BY <1>4, <2>2, <3>1, MemberKeys, Kinds, FolderKey
  <2>4. ListensLater(n)' <=> ListensLater(n)
    BY <1>1, <2>2, <2>3 DEF ListensLater, Waiting, Started
  <2>5. rows[Scan(n)] > 0 \/ ListensLater(n) \/ (n \in imported /\ Waiting(k)) \/ Selects(n)
    <3>1. rows[k] > 0
      BY <1>1, <1>w DEF KeyWork
    <3> QED
      BY <1>2, <2>1, <3>1 DEF FlowInv, Live
  <2>6. rows'[Scan(n)] > 0 \/ ListensLater(n)' \/ rows'[k] > 0 \/ Waiting(Candidate(n))'
    <3>1. Waiting(k) => rows'[k] > 0
      BY <1>2, <1>4 DEF Waiting
    <3>2. Selects(n) => Waiting(Candidate(n))'
      BY <1>4 DEF Selects
    <3> QED
      BY <2>3, <2>4, <2>5, <3>1, <3>2
  <2>7. ListensLater(n)' => rows'[AcoustId(n)] > 0
    <3>1. KeyWork(AcoustId(n))'
      BY <1>2, <2>2 DEF WorkInv
    <3> QED
      BY <1>2, <2>2, <3>1 DEF ListensLater, Waiting, KeyWork, Started
  <2>8. Coming'
    <3>1. CASE rows'[Scan(n)] > 0 \/ rows'[AcoustId(n)] > 0 \/ rows'[k] > 0
      <4>1. PICK j \in Collection(n) : j \in Key /\ rows'[j] > 0
        BY <1>2, <2>2, <3>1, MemberKeys DEF Collection
      <4>2. Collecting(member)'
        BY <1>1, <1>2, <4>1, CollectsOn
      <4> QED
        BY <4>2 DEF Coming
    <3>2. CASE Waiting(Candidate(n))'
      BY <3>2 DEF Coming, WillCheck
    <3> QED
      BY <2>6, <2>7, <3>1, <3>2
  <2>9. ASSUME NEW m \in member
        PROVE  /\ m \notin imported => rows'[Scan(m)] > 0
               /\ m \in imported /\ "acoustid" \in Provider /\ run'[m]["acoustid"] = 0 => ListensLater(m)'
               /\ rows'[AcoustId(m)] > 0 => rows'[Scan(m)] > 0 \/ ListensLater(m)'
               /\ rows'[MusicBrainz(m)] > 0 => Live(m)'
    <3>1. /\ m \notin imported => rows[Scan(m)] > 0
          /\ m \in imported /\ "acoustid" \in Provider /\ run[m]["acoustid"] = 0 => ListensLater(m)
          /\ rows[AcoustId(m)] > 0 => rows[Scan(m)] > 0 \/ ListensLater(m)
          /\ rows[MusicBrainz(m)] > 0 => Live(m)
      BY <2>1 DEF FlowInv
    <3>2. CASE m = n
      <4>1. rows'[k] > 0 => Live(n)'
        BY <1>1, <2>2, <2>3, <3>1, <3>2 DEF Live
      <4> QED
        BY <1>r, <2>1, <2>3, <2>4, <3>1, <3>2, <4>1
    <3>3. CASE m # n
      BY <1>5, <1>r, <2>1, <3>1, <3>3
    <3> QED
      BY <3>2, <3>3
  <2> QED
    BY <1>1, <2>8, <2>9 DEF FlowInv
<1> QED
  BY <1>2, <1>6, <1>7, <1>8, <1>9 DEF Inv

-----------------------------------------------------------------------------
(* Candidate selection.                                                    *)

LEMMA CandidateReads ==
    ASSUME Inv, NEW n \in Member, NEW w \in Work, Read(Candidate(n), w), rows[Candidate(n)] > 0,
           w.at \in {"idle", "checked", "decided", "ending"},
           w.at # "decided" => w.follow = {} /\ w.joins = {},
           w.follow \union w.joins \subseteq {Folder}, DOMAIN w.run = {}, DOMAIN w.found = {},
           UNCHANGED <<member, imported, rows, run, found, judged, release, joined, gaveUp, requests>>,
           WillCheck(n) => WillCheck(n)' \/ Collecting(member) \/ Waiting(Folder)
    PROVE  Inv'
<1> DEFINE k == Candidate(n)
<1>1. k \in Key /\ k # Folder /\ \A m \in Member : k \notin {Scan(m), AcoustId(m), MusicBrainz(m)}
  BY MemberKeys, Kinds
<1>2. work' \in [Key -> Work] /\ work'[k] = w /\ \A j \in Key \ {k} : work'[j] = work[j]
  BY <1>1, ReadEffect DEF Inv
<1>3. Types'
  BY <1>2 DEF Inv, Types
<1>4. work'[Folder] = work[Folder]
  BY <1>1, <1>2, FolderKey
<1>5. WorkInv'
  <2>1. /\ \A j \in Key : KeyWork(j)'
        /\ \A m \in Member : /\ k # Scan(m) => ScanWork(m)'
                             /\ k # AcoustId(m) => AcoustIdWork(m)'
                             /\ k # MusicBrainz(m) => MusicBrainzWork(m)'
                             /\ k # Candidate(m) => CandidateWork(m)'
        /\ FolderWork'
    BY <1>1, ReadKeepsWork DEF Inv
  <2>2. CandidateWork(n)'
    BY <1>2 DEF CandidateWork, Left
  <2>3. \A m \in Member : CandidateWork(m)'
    BY <2>1, <2>2, SameMember
  <2>4. \A m \in Member : ~(Started(AcoustId(m)) /\ Started(MusicBrainz(m)))'
    BY <1>1, <1>2, MemberKeys DEF Inv, WorkInv, Started
  <2> QED
    BY <1>1, <2>1, <2>3, <2>4 DEF WorkInv
<1>6. RowsInv'
  BY DEF Inv, RowsInv, Askable
<1>7. PassInv'
  <2>1. /\ PassInv /\ judged \in [Member -> Nat] /\ work[Folder] \in Work
        /\ \A m \in Member : run[m]["musicbrainz"] \in Nat
    BY FolderKey DEF Inv, Types
  <2> QED
    BY <1>4, <2>1, PassFrame
<1>8. Progress'
  <2> SUFFICES ASSUME "musicbrainz" \in Provider, ~gaveUp, ~joined
      PROVE  FlowInv' /\ ((\E m \in Member : Stale(m))' => Coming')
    BY DEF Progress
  <2>1. FlowInv /\ ((\E m \in Member : Stale(m)) => Coming) /\ member \subseteq Member
    BY DEF Inv, Progress, Types
  <2>2. \A m \in member : (ListensLater(m)' <=> ListensLater(m)) /\ (Live(m)' <=> Live(m))
    BY <1>1, <1>2, <2>1, MemberKeys, LiveFrame
  <2>3. FlowInv'
    BY <2>1, <2>2 DEF FlowInv
  <2>4. \A m \in Member : Stale(m)' <=> Stale(m)
    BY DEF Stale, Complete
  <2>5. Coming => Coming'
    <3>1. Collecting(member)' <=> Collecting(member)
      BY DEF Collecting, Active
    <3>2. \A m \in Member \ {n} : WillCheck(m)' <=> WillCheck(m)
      BY <1>2, MemberKeys, SameMember, CheckFrame
    <3>3. (Waiting(Folder)' <=> Waiting(Folder)) /\ (Covers' <=> Covers)
      BY <1>4, <2>4 DEF Waiting, Started, Covers, Looking
    <3> QED
      BY <3>1, <3>2, <3>3 DEF Coming
  <2> QED
    BY <2>1, <2>3, <2>4, <2>5
<1> QED
  BY <1>3, <1>5, <1>6, <1>7, <1>8 DEF Inv

LEMMA CheckFolderKeeps ==
    ASSUME Inv, NEW n \in Member, CheckFolder(n)
    PROVE  Inv'
<1> DEFINE w == IF Collecting(member) THEN Ending ELSE [Idle EXCEPT !.at = "checked"]
<1>1. /\ w \in Work /\ w.follow = {} /\ w.joins = {} /\ DOMAIN w.run = {} /\ DOMAIN w.found = {}
      /\ w.at = IF Collecting(member) THEN "ending" ELSE "checked"
  BY EndingIsWork, CheckingIsWork
<1>2. Read(Candidate(n), w) /\ Ready(Candidate(n))
  BY DEF CheckFolder
<1>3. UNCHANGED <<member, imported, rows, run, found, judged, release, joined, gaveUp, requests>>
  BY DEF CheckFolder
<1> HIDE DEF w
<1>4. rows[Candidate(n)] > 0
  BY <1>2, MemberKeys DEF Ready, Waiting, Started, Inv, Types
<1>5. work'[Candidate(n)] = w
  BY <1>1, <1>2, MemberKeys, ReadEffect DEF Inv
<1>6. WillCheck(n)' \/ Collecting(member)
  BY <1>1, <1>5 DEF WillCheck
<1> QED
  BY <1>1, <1>2, <1>3, <1>4, <1>6, CandidateReads

LEMMA LookUpPassKeeps ==
    ASSUME Inv, NEW n \in Member, LookUpPass(n)
    PROVE  Inv'
<1> DEFINE f == {Folder} \ Active
           j == IF Started(Folder) THEN {Folder} ELSE {}
           w == [Idle EXCEPT !.at = "decided", !.follow = f, !.joins = j]
<1>1. f \in SUBSET Key /\ j \in SUBSET Key /\ f \union j \subseteq {Folder}
  BY FolderKey
<1> HIDE DEF f, j
<1>2. /\ w \in Work /\ w.at = "decided" /\ w.follow = f /\ w.joins = j
      /\ DOMAIN w.run = {} /\ DOMAIN w.found = {}
  BY <1>1, PassingIsWork
<1>3. Read(Candidate(n), w) /\ work[Candidate(n)].at = "checked"
  BY DEF LookUpPass, f, j
<1>4. UNCHANGED <<member, imported, rows, run, found, judged, release, joined, gaveUp, requests>>
  BY DEF LookUpPass
<1> HIDE DEF w
<1>5. rows[Candidate(n)] > 0
  BY <1>3, MemberKeys DEF Inv, WorkInv, KeyWork, Started
<1>6. work'[Candidate(n)] = w
  BY <1>2, <1>3, MemberKeys, ReadEffect DEF Inv
<1>7. WillCheck(n)' \/ Waiting(Folder)
  <2>1. CASE Folder \in Active /\ ~Started(Folder)
    BY <2>1 DEF Waiting, Active
  <2>2. CASE ~(Folder \in Active /\ ~Started(Folder))
    BY <1>2, <1>6, <2>2 DEF WillCheck, Left, f, j
  <2> QED
    BY <2>1, <2>2
<1> QED
  BY <1>1, <1>2, <1>3, <1>4, <1>5, <1>7, CandidateReads

LEMMA CommitCandidateKeeps ==
    ASSUME Inv, NEW n \in Member, CommitCandidate(n)
    PROVE  Inv'
<1> DEFINE k == Candidate(n)
<1>1. /\ work[k].at \in {"decided", "ending"} /\ k \in Key /\ Started(k)
      /\ UNCHANGED <<member, imported, run, found, judged, release, gaveUp, requests>>
  BY MemberKeys DEF CommitCandidate, Started
<1>2. CASE work[k].follow \intersect Active # {}
  <2>1. Read(k, Idle) /\ UNCHANGED <<rows, joined>>
    BY <1>2 DEF CommitCandidate
  <2>2. rows[k] > 0
    BY <1>1 DEF Inv, WorkInv, KeyWork
  <2>3. work'[k] = Idle
    BY <1>1, <2>1, IdleIsWork, ReadEffect DEF Inv
  <2>4. WillCheck(n)'
    BY <2>1, <2>2, <2>3, EndingIsWork DEF WillCheck, Waiting, Started
  <2> QED
    BY <1>1, <2>1, <2>2, <2>4, IdleIsWork, EndingIsWork, CandidateReads
<1>3. CASE work[k].follow \intersect Active = {}
  <2>1. k \in {Scan(n), AcoustId(n), MusicBrainz(n), Candidate(n)} /\ Settle(k)
    BY <1>3 DEF CommitCandidate
  <2>2. imported \subseteq imported' /\ imported' \subseteq imported \union {n}
    BY <1>1
  <2>3. /\ n \in member /\ k \notin Left(k)
        /\ rows' \in [Key -> Nat] /\ work' \in [Key -> Work] /\ joined' \in BOOLEAN
        /\ work'[k] = Idle /\ \A j \in Key \ {k} : work'[j] = work[j]
        /\ work'[Folder] = work[Folder]
        /\ WorkInv' /\ (joined => joined')
    BY <1>1, <2>1, <2>2, MemberSettles
  <2>4. \A m \in Member :
          \A j \in {Scan(m), AcoustId(m), MusicBrainz(m), Candidate(m)} : rows'[j] > 0 => m \in member
    BY <1>1, <2>1, <2>2, MemberSettles
  <2>5. /\ \A j \in Key : Waiting(j) => Waiting(j)'
        /\ \A j \in Key \ (Left(k) \union {k}) : rows'[j] = rows[j]
        /\ ~joined' => \A j \in Left(k) : Waiting(j)'
    BY <1>1, <2>1, <2>2, MemberSettles
  <2>6. \A m \in Member \ {n} : WillCheck(m)' <=> WillCheck(m)
    BY <1>1, <2>1, <2>2, MemberSettles
  <2>7. Left(k) \subseteq {Folder}
    BY DEF Inv, WorkInv, CandidateWork
  <2>8. \A m \in Member : \A j \in {Scan(m), AcoustId(m), MusicBrainz(m)} :
          j \in Key /\ rows'[j] = rows[j] /\ work'[j] = work[j]
    <3> SUFFICES ASSUME NEW m \in Member, NEW j \in {Scan(m), AcoustId(m), MusicBrainz(m)}
        PROVE  j \in Key /\ rows'[j] = rows[j] /\ work'[j] = work[j]
      OBVIOUS
    <3>1. j \in Key /\ j # k /\ j # Folder
      BY MemberKeys, Kinds
    <3> QED
      BY <2>3, <2>5, <2>7, <3>1
  <2>9. Types'
    BY <1>1, <2>3 DEF Inv, Types
  <2>10. RowsInv'
    BY <1>1, <2>4, <2>8 DEF Inv, RowsInv, Askable, Collection
  <2>11. PassInv'
    <3>1. /\ PassInv /\ judged \in [Member -> Nat] /\ work[Folder] \in Work
          /\ \A m \in Member : run[m]["musicbrainz"] \in Nat
      BY FolderKey DEF Inv, Types
    <3> QED
      BY <1>1, <2>3, <3>1, PassFrame
  <2>12. Progress'
    <3> SUFFICES ASSUME "musicbrainz" \in Provider, ~gaveUp', ~joined'
        PROVE  FlowInv' /\ ((\E m \in Member : Stale(m))' => Coming')
      BY DEF Progress
    <3>1. FlowInv /\ ((\E m \in Member : Stale(m)) => Coming) /\ member \subseteq Member
      BY <1>1, <2>3 DEF Inv, Progress, Types
    <3>2. \A m \in member : (ListensLater(m)' <=> ListensLater(m)) /\ (Live(m)' <=> Live(m))
      BY <1>1, <2>8, <3>1, LiveFrame
    <3>3. FlowInv'
      BY <1>1, <2>8, <3>1, <3>2 DEF FlowInv
    <3>4. \A m \in Member : Stale(m)' <=> Stale(m)
      BY <1>1 DEF Stale, Complete
    <3>5. Collecting(member) => Collecting(member)'
      BY <1>1, <2>8, <3>1 DEF Collecting, Active, Collection
    <3>6. WillCheck(n) => WillCheck(n)' \/ Waiting(Folder)'
      BY <1>1, <2>5 DEF WillCheck
    <3>7. (Waiting(Folder) => Waiting(Folder)') /\ (Covers => Covers')
      BY <1>1, <2>3, <2>5, <3>4, FolderKey DEF Covers, Looking
    <3>8. Coming => Coming'
      BY <2>6, <3>5, <3>6, <3>7 DEF Coming
    <3> QED
      BY <3>1, <3>3, <3>4, <3>8
  <2> QED
    BY <2>3, <2>9, <2>10, <2>11, <2>12 DEF Inv
<1> QED
  BY <1>2, <1>3

-----------------------------------------------------------------------------
(* The folder pass.                                                        *)

LEMMA PassReads ==
    ASSUME Inv, NEW w \in Work, Read(Folder, w), rows[Folder] > 0,
           w.at \in {"read", "decided", "ending"}, w.follow = {}, w.joins = {},
           DOMAIN w.run = DOMAIN w.found, DOMAIN w.run \subseteq member,
           UNCHANGED <<member, imported, rows, run, found, judged, release, joined, gaveUp, requests>>,
           w.at # "ending" => \A m \in Member :
                /\ release[m] # NoRelease => m \in DOMAIN w.run
                /\ m \in DOMAIN w.run => judged[m] <= w.run[m] /\ w.run[m] <= run[m]["musicbrainz"],
           Covers \/ Waiting(Folder) => Covers' \/ Waiting(Folder)' \/ Collecting(member)
    PROVE  Inv'
<1>1. Folder \in Key /\ \A m \in Member : Folder \notin {Scan(m), AcoustId(m), MusicBrainz(m), Candidate(m)}
  BY FolderKey, Kinds
<1>2. work' \in [Key -> Work] /\ work'[Folder] = w /\ \A j \in Key \ {Folder} : work'[j] = work[j]
  BY <1>1, ReadEffect DEF Inv
<1>3. Types'
  BY <1>2 DEF Inv, Types
<1>4. \A m \in Member : \A j \in {Scan(m), AcoustId(m), MusicBrainz(m), Candidate(m)} :
        j \in Key /\ work'[j] = work[j] /\ rows'[j] = rows[j]
  BY <1>1, <1>2, MemberKeys
<1>5. WorkInv'
  <2>1. /\ \A j \in Key : KeyWork(j)'
        /\ \A m \in Member : ScanWork(m)' /\ AcoustIdWork(m)' /\ MusicBrainzWork(m)' /\ CandidateWork(m)'
    BY <1>1, ReadKeepsWork DEF Inv
  <2>2. FolderWork'
    BY <1>2 DEF FolderWork, Empty
  <2>3. \A m \in Member : ~(Started(AcoustId(m)) /\ Started(MusicBrainz(m)))'
    BY <1>4 DEF Inv, WorkInv, Started
  <2> QED
    BY <2>1, <2>2, <2>3 DEF WorkInv
<1>6. RowsInv'
  BY DEF Inv, RowsInv, Askable
<1>7. PassInv'
  <2>1. OneRelease' /\ \A m \in Member : (release[m] # NoRelease)' => m \in member'
    BY DEF Inv, PassInv, OneRelease
  <2> QED
    BY <1>2, <2>1 DEF PassInv, Looking
<1>8. Progress'
  <2> SUFFICES ASSUME "musicbrainz" \in Provider, ~gaveUp, ~joined
      PROVE  FlowInv' /\ ((\E m \in Member : Stale(m))' => Coming')
    BY DEF Progress
  <2>1. FlowInv /\ ((\E m \in Member : Stale(m)) => Coming) /\ member \subseteq Member
    BY DEF Inv, Progress, Types
  <2>2. \A m \in member : (ListensLater(m)' <=> ListensLater(m)) /\ (Live(m)' <=> Live(m))
    BY <1>4, <2>1, LiveFrame
  <2>3. FlowInv'
    BY <2>1, <2>2 DEF FlowInv
  <2>4. \A m \in Member : Stale(m)' <=> Stale(m)
    BY DEF Stale, Complete
  <2>5. Coming => Coming'
    <3>1. Collecting(member)' <=> Collecting(member)
      BY DEF Collecting, Active
    <3>2. \A m \in Member : WillCheck(m)' <=> WillCheck(m)
      BY <1>4, CheckFrame
    <3> QED
      BY <3>1, <3>2 DEF Coming
  <2> QED
    BY <2>1, <2>3, <2>4, <2>5
<1> QED
  BY <1>3, <1>5, <1>6, <1>7, <1>8 DEF Inv

LEMMA ReadMembersKeeps ==
    ASSUME Inv, ReadMembers
    PROVE  Inv'
<1> DEFINE f == [m \in member |-> found[m]]
           r == [m \in member |-> run[m]["musicbrainz"]]
           w == MembersRead(f, r)
<1>1. /\ member \in SUBSET Member /\ found \in [Member -> SUBSET Release]
      /\ \A m \in Member : run[m]["musicbrainz"] \in Nat
      /\ rows \in [Key -> Nat] /\ judged \in [Member -> Nat]
  BY DEF Inv, Types
<1>2. f \in [member -> SUBSET Release] /\ r \in [member -> Nat]
  BY <1>1
<1>3. f \in Offer /\ r \in View
  BY <1>1, <1>2 DEF Offer, View
<1>4. DOMAIN f = member /\ DOMAIN r = member /\ \A m \in member : r[m] = run[m]["musicbrainz"]
  OBVIOUS
<1>5. Read(Folder, w) /\ Ready(Folder)
  BY DEF ReadMembers, MembersRead
<1>6. UNCHANGED <<member, imported, rows, run, found, judged, release, joined, gaveUp, requests>>
  BY DEF ReadMembers
<1> HIDE DEF f, r
<1>7. /\ w \in Work /\ w.at = "read" /\ w.follow = {} /\ w.joins = {}
      /\ w.run = r /\ w.found = f
  BY <1>3, LookingIsWork
<1> HIDE DEF w
<1>8. rows[Folder] > 0
  BY <1>1, <1>5, FolderKey DEF Ready, Waiting, Started
<1>9. \A m \in Member :
        /\ release[m] # NoRelease => m \in DOMAIN w.run
        /\ m \in DOMAIN w.run => judged[m] <= w.run[m] /\ w.run[m] <= run[m]["musicbrainz"]
  <2>1. \A m \in Member : /\ release[m] # NoRelease => m \in member
                          /\ judged[m] <= run[m]["musicbrainz"]
    BY DEF Inv, PassInv, RowsInv
  <2> QED
    BY <1>1, <1>4, <1>7, <2>1
<1>10. Covers'
  <2>1. work'[Folder] = w
    BY <1>5, <1>7, FolderKey, ReadEffect DEF Inv
  <2>2. \A m \in Member : Stale(m)' => m \in member
    BY <1>6 DEF Stale, Complete
  <2> QED
    BY <1>4, <1>6, <1>7, <2>1, <2>2 DEF Covers, Looking
<1> QED
  BY <1>4, <1>5, <1>6, <1>7, <1>8, <1>9, <1>10, PassReads

LEMMA CheckMembersKeeps ==
    ASSUME Inv, CheckMembers
    PROVE  Inv'
<1>1. /\ work[Folder].at = "read" /\ Started(Folder) /\ work[Folder] \in Work
      /\ UNCHANGED <<member, imported, rows, run, found, judged, release, joined, gaveUp, requests>>
  BY FolderKey DEF CheckMembers, Started, Inv, Types
<1>2. /\ rows[Folder] > 0 /\ Empty(Folder) /\ DOMAIN work[Folder].run = DOMAIN work[Folder].found
      /\ DOMAIN work[Folder].run \subseteq member /\ member \subseteq Member
  BY <1>1, FolderKey DEF Inv, WorkInv, KeyWork, Types
<1>3. Looking /\ \A m \in Member :
        /\ release[m] # NoRelease => m \in DOMAIN work[Folder].run
        /\ m \in DOMAIN work[Folder].run =>
             judged[m] <= work[Folder].run[m] /\ work[Folder].run[m] <= run[m]["musicbrainz"]
  BY <1>1 DEF Inv, PassInv, Looking
<1>4. CASE Collecting(DOMAIN work[Folder].run)
  <2>1. Read(Folder, Ending)
    BY <1>4 DEF CheckMembers
  <2>2. Collecting(member)
    BY <1>2, <1>4 DEF Collecting
  <2>3. DOMAIN Ending.run = DOMAIN Ending.found /\ DOMAIN Ending.run \subseteq member
    BY EndingIsWork
  <2> QED
    BY <1>1, <1>2, <2>1, <2>2, <2>3, EndingIsWork, PassReads
<1>5. CASE ~Collecting(DOMAIN work[Folder].run)
  <2> DEFINE w == [work[Folder] EXCEPT !.at = "decided"]
  <2>1. Read(Folder, w)
    BY <1>5 DEF CheckMembers
  <2>2. /\ w \in Work /\ w.at = "decided" /\ w.follow = {} /\ w.joins = {}
        /\ w.run = work[Folder].run /\ w.found = work[Folder].found
    BY <1>1, <1>2 DEF Work, Empty
  <2> HIDE DEF w
  <2>3. work'[Folder] = w
    BY <2>1, <2>2, FolderKey, ReadEffect DEF Inv
  <2>4. Covers => Covers'
    BY <1>1, <2>2, <2>3 DEF Covers, Looking, Stale, Complete
  <2>5. Waiting(Folder) => Waiting(Folder)'
    BY <1>1, <2>2, <2>3 DEF Waiting, Started
  <2> QED
    BY <1>1, <1>2, <1>3, <2>1, <2>2, <2>4, <2>5, PassReads
<1> QED
  BY <1>4, <1>5

LEMMA CommitPassKeeps ==
    ASSUME FolderAssumption, Inv, CommitPass
    PROVE  Inv'
<1> DEFINE seen == work[Folder].run
<1>1. /\ work[Folder].at \in {"decided", "ending"} /\ Settle(Folder) /\ Started(Folder) /\ Folder \in Key
      /\ UNCHANGED <<member, imported, run, found, gaveUp, requests>>
      /\ Types /\ WorkInv /\ RowsInv /\ PassInv /\ Left(Folder) = {} /\ work[Folder] \in Work
  BY FolderKey DEF CommitPass, Started, Inv, WorkInv, FolderWork, Empty, Left, Types
<1>2. /\ rows[Folder] > 0 /\ Folder \notin work[Folder].follow /\ work[Folder].joins = {}
      /\ DOMAIN seen \subseteq member /\ member \subseteq Member
  BY <1>1 DEF WorkInv, KeyWork, Left, Types
<1>3. /\ rows' \in [Key -> Nat] /\ work' \in [Key -> Work] /\ work'[Folder] = Idle
      /\ \A j \in Key \ {Folder} : work'[j] = work[j] /\ rows'[j] = rows[j]
      /\ joined' \in BOOLEAN
  BY <1>1, <1>2, SettleEffect DEF Left
<1>4. joined' = joined
  BY <1>1, <1>2 DEF Settle, Types
<1>5. \A j \in Key : Waiting(j) => Waiting(j)'
  BY <1>1, SettleWaiting
<1>6. WorkInv'
  BY <1>1, SettleKeepsWork
<1>7. \A m \in Member : \A j \in {Scan(m), AcoustId(m), MusicBrainz(m), Candidate(m)} :
        j \in Key /\ work'[j] = work[j] /\ rows'[j] = rows[j]
  BY <1>3, MemberKeys, Kinds
<1>8. ASSUME NEW m \in Member
      PROVE  /\ judged[m] \in Nat /\ run[m]["musicbrainz"] \in Nat
             /\ judged[m] <= run[m]["musicbrainz"]
             /\ m \in DOMAIN seen => seen[m] \in Nat
             /\ Looking /\ m \in DOMAIN seen => judged[m] <= seen[m] /\ seen[m] <= run[m]["musicbrainz"]
             /\ Looking /\ release[m] # NoRelease => m \in DOMAIN seen
             /\ release[m] # NoRelease => m \in member
  BY <1>1 DEF Types, RowsInv, PassInv, Work, View
<1>9. \/ work[Folder].at = "ending" /\ judged' = judged
      \/ /\ work[Folder].at = "decided" /\ Looking
         /\ judged' = [m \in Member |-> IF m \in DOMAIN seen THEN seen[m] ELSE judged[m]]
  BY <1>1 DEF CommitPass, Looking
<1>10. \/ release' = release
       \/ Looking /\ \E r \in Release : release' = [m \in Member |-> IF m \in DOMAIN seen THEN r ELSE release[m]]
  BY <1>1 DEF CommitPass, Looking, Associate, Shared
<1>11. /\ judged' \in [Member -> Nat]
       /\ \A m \in Member : judged'[m] <= run[m]["musicbrainz"]
       /\ \A m \in Member : judged'[m] # judged[m] => Looking /\ m \in DOMAIN seen /\ judged'[m] = seen[m]
  <2>1. CASE judged' = judged
    BY <1>1, <1>8, <2>1 DEF Types
  <2>2. CASE Looking /\ judged' = [m \in Member |-> IF m \in DOMAIN seen THEN seen[m] ELSE judged[m]]
    BY <1>8, <2>2
  <2> QED
    BY <1>9, <2>1, <2>2
<1>12. Types' /\ OneRelease' /\ \A m \in Member : release'[m] # NoRelease => m \in member
  <2>1. release \in [Member -> Release \union {NoRelease}] /\ OneRelease
    BY <1>1 DEF Types, PassInv
  <2>2. CASE release' = release
    BY <1>1, <1>3, <1>8, <1>11, <2>1, <2>2 DEF Types, OneRelease
  <2>3. CASE Looking /\ \E r \in Release :
               release' = [m \in Member |-> IF m \in DOMAIN seen THEN r ELSE release[m]]
    <3>1. PICK r \in Release : release' = [m \in Member |-> IF m \in DOMAIN seen THEN r ELSE release[m]]
      BY <2>3
    <3>2. release' \in [Member -> Release \union {NoRelease}]
      BY <2>1, <3>1
    <3>3. \A m \in Member : release'[m] # NoRelease => m \in DOMAIN seen /\ release'[m] = r
      BY <1>8, <2>3, <3>1
    <3> QED
      BY <1>1, <1>2, <1>3, <1>11, <3>2, <3>3 DEF Types, OneRelease
  <2> QED
    BY <1>10, <2>2, <2>3
<1>13. RowsInv'
  BY <1>1, <1>7, <1>11 DEF RowsInv, Askable, Collection
<1>14. PassInv'
  BY <1>1, <1>3, <1>12, EndingIsWork DEF PassInv, Looking
<1>15. Progress'
  <2> SUFFICES ASSUME "musicbrainz" \in Provider, ~gaveUp, ~joined
      PROVE  FlowInv' /\ ((\E m \in Member : Stale(m))' => Coming')
    BY <1>1, <1>4 DEF Progress
  <2>1. FlowInv /\ ((\E m \in Member : Stale(m)) => Coming)
    BY DEF Inv, Progress
  <2>2. \A m \in member : (ListensLater(m)' <=> ListensLater(m)) /\ (Live(m)' <=> Live(m))
    BY <1>1, <1>2, <1>7, LiveFrame
  <2>3. FlowInv'
    BY <1>1, <1>2, <1>7, <2>1, <2>2 DEF FlowInv
  <2>4. ASSUME NEW m \in Member, Stale(m)'
        PROVE  Stale(m) /\ ~Covers
    <3>1. Complete(m) /\ judged'[m] # run[m]["musicbrainz"]
      BY <1>1, <2>4 DEF Stale, Complete
    <3>2. CASE judged'[m] = judged[m] /\ Looking /\ m \in DOMAIN seen
      BY <1>8, <1>9, <3>1, <3>2 DEF Stale, Covers, Looking
    <3>3. CASE judged'[m] = judged[m] /\ ~(Looking /\ m \in DOMAIN seen)
      BY <3>1, <3>3 DEF Stale, Covers
    <3>4. CASE judged'[m] # judged[m]
      BY <1>8, <1>11, <3>1, <3>4 DEF Stale, Covers
    <3> QED
      BY <3>2, <3>3, <3>4
  <2>5. Collecting(member)' <=> Collecting(member)
    BY <1>1, <1>2, <1>7 DEF Collecting, Active, Collection
  <2>6. \A m \in Member : WillCheck(m)' <=> WillCheck(m)
    BY <1>7, CheckFrame
  <2>7. Waiting(Folder) => Waiting(Folder)'
    BY <1>1, <1>5
  <2> QED
    BY <2>1, <2>3, <2>4, <2>5, <2>6, <2>7 DEF Coming
<1> QED
  BY <1>6, <1>12, <1>13, <1>14, <1>15 DEF Inv

-----------------------------------------------------------------------------
(* The theorems.                                                           *)

LEMMA StutterKeeps ==
    ASSUME Inv, UNCHANGED vars
    PROVE  Inv'
<1> USE DEF vars
<1>1. Types'
  BY DEF Inv, Types
<1>2. WorkInv'
  BY DEF Inv, WorkInv, KeyWork, ScanWork, AcoustIdWork, MusicBrainzWork, CandidateWork, FolderWork,
         Empty, Left, Started, Askable, FirstAnalysis
<1>3. RowsInv'
  BY DEF Inv, RowsInv, Askable
<1>4. PassInv'
  BY DEF Inv, PassInv, OneRelease, Looking
<1>5. Progress'
  BY DEF Inv, Progress, FlowInv, ListensLater, Live, Selects, Stale, Complete, Coming, WillCheck,
         Covers, Looking, Collecting, Active, Waiting, Started, Left
<1> QED
  BY <1>1, <1>2, <1>3, <1>4, <1>5 DEF Inv

LEMMA StepKeeps ==
    ASSUME FolderAssumption, Inv, [Next]_vars
    PROVE  Inv'
<1>1. ASSUME NEW m \in Member, Arrive(m) \/ RetryProvider(m)
      PROVE  Inv'
  BY <1>1, ArriveKeeps, RequestKeeps
<1>2. ASSUME NEW m \in Member, ReadImport(m) \/ CommitImport(m)
      PROVE  Inv'
  BY <1>2, ReadImportKeeps, CommitImportKeeps
<1>3. ASSUME NEW m \in Member, ReadAcoustId(m) \/ CommitAcoustId(m)
      PROVE  Inv'
  BY <1>3, ReadAcoustIdKeeps, CommitAcoustIdKeeps
<1>4. ASSUME NEW m \in Member, ReadMusicBrainz(m) \/ CommitMusicBrainz(m)
      PROVE  Inv'
  BY <1>4, ReadMusicBrainzKeeps, CommitMusicBrainzKeeps
<1>5. ASSUME NEW k \in Key, GiveUp(k)
      PROVE  Inv'
  BY <1>5, GiveUpKeeps
<1>6. ASSUME NEW m \in Member, CheckFolder(m) \/ LookUpPass(m) \/ CommitCandidate(m)
      PROVE  Inv'
  BY <1>6, CheckFolderKeeps, LookUpPassKeeps, CommitCandidateKeeps
<1>7. ASSUME ReadMembers \/ CheckMembers \/ CommitPass
      PROVE  Inv'
  BY <1>7, ReadMembersKeeps, CheckMembersKeeps, CommitPassKeeps
<1>8. CASE UNCHANGED vars
  BY <1>8, StutterKeeps
<1> QED
  BY <1>1, <1>2, <1>3, <1>4, <1>5, <1>6, <1>7, <1>8 DEF Next

(* The inductive invariant holds in every reachable state.                 *)
THEOREM InductiveInvariant == Spec => []Inv
<1>1. Init => Inv
  BY FolderAssumption, InitHolds
<1>2. Inv /\ [Next]_vars => Inv'
  BY FolderAssumption, StepKeeps
<1> QED
  BY <1>1, <1>2, PTL DEF Spec

(* Every variable keeps its type, and only active jobs are executed.       *)
THEOREM JobTypes == Spec => []TypeOK
<1>1. Inv => TypeOK
  <2> SUFFICES ASSUME Inv PROVE TypeOK
    OBVIOUS
  <2>1. \A k \in Key :
          /\ work[k].at \in {"idle", "checked", "read", "decided", "ending"}
          /\ work[k].follow \subseteq Key /\ work[k].joins \subseteq Key
    BY DEF Inv, Types, Work
  <2>2. \A k \in Key :
          /\ DOMAIN work[k].run = DOMAIN work[k].found /\ DOMAIN work[k].run \subseteq member
          /\ work[k].at # "idle" => rows[k] > 0
    BY DEF Inv, WorkInv, KeyWork, Started
  <2> QED
    BY <2>1, <2>2 DEF TypeOK, Inv, Types
<1> QED
  BY <1>1, InductiveInvariant, PTL

(* An album is never split: all placed members of a folder are on the same *)
(* release, whatever arrives, is analysed or retried while a pass reads,   *)
(* checks and commits, for folders of any size.                            *)
THEOREM AlbumIsNotSplit == Spec => []OneRelease
<1>1. Inv => OneRelease
  BY DEF Inv, PassInv
<1> QED
  BY <1>1, InductiveInvariant, PTL

LEMMA NothingIsComing ==
    ASSUME Inv, Quiet
    PROVE  ~Coming
<1>1. \A k \in Key : rows[k] = 0 /\ ~Started(k)
  BY DEF Inv, Types, WorkInv, KeyWork, Quiet, Active
<1>2. \A k \in Key : ~Waiting(k) /\ work[k].at = "idle" /\ Left(k) = {}
  BY <1>1 DEF Waiting, Started, Inv, WorkInv, KeyWork, Empty, Left
<1>3. ~Collecting(member)
  BY DEF Collecting, Quiet
<1> QED
  BY <1>2, <1>3, MemberKeys, FolderKey DEF Coming, WillCheck, Covers, Looking

(* Without MusicBrainz there is no release to judge by.                    *)
LEMMA NothingToJudge ==
    ASSUME Inv, "musicbrainz" \notin Provider
    PROVE  UpToDate
<1>1. \A m \in Member : /\ judged[m] \in Nat /\ run[m]["musicbrainz"] \in Nat
                        /\ judged[m] <= run[m]["musicbrainz"] /\ ~(run[m]["musicbrainz"] > 0)
  BY DEF Inv, Types, RowsInv, Askable
<1> QED
  BY <1>1 DEF UpToDate

(* When no job is active, every analysed member has been judged by its     *)
(* latest run, unless a provider job ended without evidence or an enqueue  *)
(* joined a job that had already read: the barrier itself loses nobody.    *)
THEOREM MembersLostOnlyByJoining == Spec => []LostOnlyByJoining
<1>1. Inv => LostOnlyByJoining
  <2> SUFFICES ASSUME Inv, Quiet, ~gaveUp, ~joined
      PROVE  UpToDate
    BY DEF LostOnlyByJoining
  <2>1. CASE "musicbrainz" \notin Provider
    BY <2>1, NothingToJudge
  <2>2. CASE "musicbrainz" \in Provider
    BY <2>2, NothingIsComing DEF Inv, Progress, Stale, UpToDate
  <2> QED
    BY <2>1, <2>2
<1> QED
  BY <1>1, InductiveInvariant, PTL

-----------------------------------------------------------------------------
(***************************************************************************)
(* The provider lookup.  What a lookup has found is in its result, and in  *)
(* the replies of its fan-outs: one of each request that has ended.        *)
(***************************************************************************)

(* The identifiers that a sequence of answers may leave.                   *)
Named == Seq(RecordingId)

LookupTypes ==
    /\ heard \in Named /\ ids \in Named /\ ask.recordings \in Named
    /\ override \in RecordingId \union {None}
    /\ identity \in Pair \union {NoPair}
    /\ refresh \in Pair \union {NoPair}
    /\ \A c \in latest : c.pair \in Pair
    /\ stored \subseteq Pair /\ result.pairs \subseteq Pair
    /\ task \in [RecordingId \union ReleaseId -> {"none", "waiting", "asking", "done"}]
    /\ replies \in Seq([id : RecordingId \union ReleaseId,
                        outcome : Outage \union {"ok"}])

(* A lookup for a pair knows both identifiers; a refresh still has the one *)
(* it was queued for, and nobody has noticed a change of the identity.     *)
AskInv ==
    /\ job = "none" <=> step = "idle"
    /\ step = "pair" => <<ask.release, ask.recording>> \in Pair
    /\ job = "refresh" => /\ refresh = <<ask.release, ask.recording>>
                          /\ identity = refresh \/ overtaken

(* The requests of the fan-outs are answered once each.                    *)
Apart == \A i, j \in DOMAIN replies : replies[i].id = replies[j].id => i = j

Replied(t) == \E k \in DOMAIN replies : replies[k].id = t

ReplyInv ==
    /\ Apart
    /\ step \notin {"browse", "detail", "answered"} => ids = <<>> /\ replies = <<>>
    /\ step \notin {"browse", "detail", "answered"} => \A t \in DOMAIN task : task[t] = "none"
    /\ step = "browse" =>
         /\ \A t \in DOMAIN task : task[t] = "done" <=> Replied(t)
         /\ \A r \in ReleaseId : task[r] = "none"
    /\ step = "detail" =>
         /\ \A i \in DOMAIN ids : \E k \in DOMAIN replies : /\ replies[k].id = ids[i]
                                                            /\ replies[k].outcome = "ok"
         /\ \A r \in ReleaseId : Replied(r) => task[r] = "done"

(* What a recording was answered well with is all that the server lists.   *)
PagesInv ==
    /\ \A r \in RecordingId : got[r] \in 0..Len(Lists[r])
    /\ got \in [RecordingId -> Nat]
    /\ \A k \in DOMAIN replies : replies[k].outcome = "ok" /\ replies[k].id \in RecordingId =>
           got[replies[k].id] = Len(Lists[replies[k].id])

ResultInv ==
    /\ step # "answered" => result.pairs = {}
    /\ ResultInOrder /\ AllIsFound

LookupInv == LookupTypes /\ AskInv /\ ReplyInv /\ PagesInv /\ ResultInv

-----------------------------------------------------------------------------
(* Dropping repetitions.                                                   *)

(* Every place up to the number of first occurrences is taken by one.      *)
LEMMA PlacesTaken ==
    ASSUME NEW n \in Nat, NEW F \in SUBSET (1..n),
           NEW k \in 1..Cardinality(F)
    PROVE  \E i \in F : Cardinality({j \in F : j <= i}) = k
<1> DEFINE upto(i) == {j \in F : j <= i}
           place == [i \in F |-> Cardinality(upto(i))]
<1>1. IsFiniteSet(F) /\ Cardinality(F) \in Nat
  <2>1. IsFiniteSet(1..n)
    BY FS_Interval
  <2> QED
    BY <2>1, FS_Subset, FS_CardinalityType
<1>2. \A i \in F : /\ IsFiniteSet(upto(i)) /\ Cardinality(upto(i)) \in Nat
                   /\ Cardinality(upto(i)) <= Cardinality(F)
  <2> SUFFICES ASSUME NEW i \in F PROVE /\ IsFiniteSet(upto(i)) /\ Cardinality(upto(i)) \in Nat
                   /\ Cardinality(upto(i)) <= Cardinality(F)
    OBVIOUS
  <2>1. upto(i) \in SUBSET F
    OBVIOUS
  <2> HIDE DEF upto
  <2> QED
    BY <1>1, <2>1, FS_Subset, FS_CardinalityType
<1>3. \A i \in F : Cardinality(upto(i)) > 0
  <2> SUFFICES ASSUME NEW i \in F, Cardinality(upto(i)) = 0 PROVE FALSE
    BY <1>2
  <2>1. i \in upto(i)
    OBVIOUS
  <2> HIDE DEF upto
  <2> QED
    BY <1>2, <2>1, FS_EmptySet
<1>4. \A i, j \in F : i < j => Cardinality(upto(i)) # Cardinality(upto(j))
  <2> SUFFICES ASSUME NEW i \in F, NEW j \in F, i < j, Cardinality(upto(i)) = Cardinality(upto(j))
      PROVE  FALSE
    OBVIOUS
  <2>0. F \subseteq Int /\ i \in Int /\ j \in Int
    OBVIOUS
  <2>1. upto(i) \in SUBSET upto(j)
    <3>1. \A x \in F : x <= i => x <= j
      BY <2>0
    <3> QED
      BY <3>1, Zenon
  <2>2. j \in upto(j) /\ j \notin upto(i)
    BY <2>0
  <2> HIDE DEF upto
  <2> QED
    BY <1>2, <2>1, <2>2, FS_Subset
<1> HIDE DEF upto
<1>5. place \in Injection(F, 1..Cardinality(F))
  <2>1. place \in [F -> 1..Cardinality(F)]
    BY <1>1, <1>2, <1>3
  <2>2. \A i, j \in F : place[i] = place[j] => i = j
    BY <1>4
  <2> QED
    BY <2>1, <2>2 DEF Injection, IsInjective
<1>6. IsFiniteSet(1..Cardinality(F)) /\ Cardinality(1..Cardinality(F)) = Cardinality(F)
  BY <1>1, FS_Interval
<1>7. place \in Surjection(F, 1..Cardinality(F))
  <2> HIDE DEF place
  <2> QED
    BY <1>5, <1>6, FS_Injection
<1>8. PICK i \in F : place[i] = k
  BY <1>7 DEF Surjection
<1> QED
  BY <1>8 DEF upto

(* Without the repetitions a sequence has the same elements, or fewer.     *)
LEMMA DedupeType ==
    ASSUME NEW S, NEW s \in Seq(S)
    PROVE  Dedupe(s) \in Seq(S)
<1> DEFINE F == {i \in DOMAIN s : \A j \in DOMAIN s : s[j] = s[i] => i <= j}
           at(k) == CHOOSE i \in F : Cardinality({j \in F : j <= i}) = k
<1>1. Len(s) \in Nat /\ DOMAIN s = 1..Len(s) /\ F \in SUBSET (1..Len(s))
  BY LenProperties
<1>2. Cardinality(F) \in Nat
  <2>1. IsFiniteSet(1..Len(s))
    BY <1>1, FS_Interval
  <2> HIDE DEF F
  <2> QED
    BY <1>1, <2>1, FS_Subset, FS_CardinalityType
<1>3. \A i \in F : s[i] \in S
  BY ElementOfSeq, <1>1
<1>4. Dedupe(s) = [k \in 1..Cardinality(F) |-> s[at(k)]]
  BY DEF Dedupe
<1> HIDE DEF F
<1>5. \A k \in 1..Cardinality(F) : at(k) \in F
  BY <1>1, PlacesTaken
<1> HIDE DEF at
<1>6. [k \in 1..Cardinality(F) |-> s[at(k)]] \in [1..Cardinality(F) -> S]
  BY <1>3, <1>5
<1> QED
  BY <1>2, <1>4, <1>6, SeqDef

(* The identifiers of a list of answers.                                   *)
LEMMA IdsType ==
    ASSUME NEW answers \in Answers
    PROVE  Ids(answers) \in Named
<1>1. Len(answers) \in Nat /\ DOMAIN answers = 1..Len(answers)
  BY LenProperties DEF Answers
<1>2. \A i \in 1..Len(answers) : answers[i].id \in RecordingId
  <2> SUFFICES ASSUME NEW i \in 1..Len(answers) PROVE answers[i].id \in RecordingId
    OBVIOUS
  <2>1. answers[i] \in [id : RecordingId, score : Int]
    BY ElementOfSeq DEF Answers
  <2> QED
    BY <2>1
<1>3. Ids(answers) \in [1..Len(answers) -> RecordingId]
  BY <1>1, <1>2 DEF Ids
<1> QED
  BY <1>1, <1>3, SeqDef DEF Named

LEMMA ReverseType ==
    ASSUME NEW s \in Named
    PROVE  Reverse(s) \in Named
<1>1. Len(s) \in Nat /\ \A i \in 1..Len(s) : s[i] \in RecordingId
  BY LenProperties, ElementOfSeq DEF Named
<1>2. Reverse(s) \in [1..Len(s) -> RecordingId]
  BY <1>1 DEF Reverse
<1> QED
  BY <1>1, <1>2, SeqDef DEF Named

-----------------------------------------------------------------------------
(* The replies.                                                            *)

(* The reply of a request is the one that names it.                        *)
LEMMA ReplyIs ==
    ASSUME Apart, NEW k \in DOMAIN replies
    PROVE  ReplyOf(replies[k].id) = replies[k].outcome
BY DEF ReplyOf, Apart


(* One more reply, of a request that has none yet.                         *)
LEMMA ReplyAdded ==
    ASSUME LookupTypes, Apart, NEW t \in RecordingId \union ReleaseId, NEW a, ~Replied(t),
           a \in Fault \union {"ok"}, Finished(t, a)
    PROVE  /\ replies' \in Seq([id : RecordingId \union ReleaseId, outcome : Outage \union {"ok"}])
           /\ Apart'
           /\ \A u : Replied(u)' <=> Replied(u) \/ u = t
           /\ \A k \in DOMAIN replies : k \in DOMAIN replies' /\ replies'[k] = replies[k]
<1> DEFINE row == [id |-> t, outcome |-> Outcome(a)]
           Rows == [id : RecordingId \union ReleaseId, outcome : Outage \union {"ok"}]
<1>1. Outcome(a) \in Outage \union {"ok"}
  BY DEF Outcome, Outage, Fault
<1>2. row \in Rows /\ row.id = t
  BY <1>1
<1>3. replies \in Seq(Rows) /\ replies' = Append(replies, row)
  BY DEF LookupTypes, Finished
<1> HIDE DEF row, Rows
<1>4. /\ replies' \in Seq(Rows) /\ Len(replies) \in Nat /\ Len(replies') = Len(replies) + 1
      /\ DOMAIN replies = 1..Len(replies) /\ DOMAIN replies' = 1..Len(replies')
      /\ \A k \in 1..Len(replies) : replies'[k] = replies[k]
      /\ replies'[Len(replies) + 1] = row
  BY <1>2, <1>3, AppendProperties, LenProperties
<1>5. \A k \in DOMAIN replies' : k \in DOMAIN replies \/ k = Len(replies) + 1
  BY <1>4
<1>6. Apart'
  BY <1>2, <1>4, <1>5 DEF Apart, Replied
<1>7. \A u : Replied(u)' <=> Replied(u) \/ u = t
  BY <1>2, <1>4, <1>5 DEF Replied
<1> QED
  BY <1>4, <1>6, <1>7 DEF Rows

(* The reply that was not there before is the one just given.              *)
LEMMA ReplyIsLast ==
    ASSUME replies \in Seq([id : RecordingId \union ReleaseId, outcome : Outage \union {"ok"}]),
           NEW t, NEW a, Finished(t, a), NEW k \in DOMAIN replies', k \notin DOMAIN replies
    PROVE  replies'[k].id = t /\ replies'[k].outcome = Outcome(a)
<1> DEFINE row == [id |-> t, outcome |-> Outcome(a)]
<1>1. replies' = Append(replies, row) /\ Len(replies) \in Nat /\ DOMAIN replies = 1..Len(replies)
  BY LenProperties DEF Finished
<1> HIDE DEF row
<1>2. DOMAIN replies' = 1..(Len(replies) + 1) /\ replies'[Len(replies) + 1] = row
  BY <1>1
<1>3. k = Len(replies) + 1
  BY <1>1, <1>2
<1> QED
  BY <1>2, <1>3 DEF row

(* A set of places has a first one.                                        *)
LEMMA FirstPlace ==
    ASSUME NEW S, S \subseteq Nat, S # {}
    PROVE  Min(S) \in S
<1>1. PICK m \in S : \A n \in S : <<n, m>> \notin OpToRel(<, Nat)
  BY WFMin, NatLessThanWellFounded
<1>2. \A n \in S : ~(n < m)
  BY <1>1, Zenon DEF OpToRel
<1>3. \A n \in S : m <= n
  BY <1>2
<1> QED
  BY <1>3 DEF Min

-----------------------------------------------------------------------------
(* The steps.                                                              *)

(* The lists of the server have a length.                                  *)
LEMMA ListTypes == \A r \in RecordingId : Lists[r] \in Seq(ReleaseId) /\ Len(Lists[r]) \in Nat
BY ProviderLookupAssumption, LenProperties

LEMMA LookupStarts ==
    ASSUME LookupInit
    PROVE  LookupInv
<1>1. LookupTypes
  BY ProviderLookupAssumption DEF LookupInit, LookupTypes, Named, NoAsk, NoResult, NoTasks, None
<1>2. AskInv
  BY DEF LookupInit, AskInv, None
<1>3. ReplyInv
  BY DEF LookupInit, ReplyInv, Apart, Replied, NoTasks
<1>4. PagesInv
  BY ListTypes DEF LookupInit, PagesInv
<1>5. ResultInv
  BY DEF LookupInit, ResultInv, ResultInOrder, AllIsFound, NoResult
<1> QED
  BY <1>1, <1>2, <1>3, <1>4, <1>5 DEF LookupInv

LEMMA OrderStays ==
    ASSUME ResultInOrder, UNCHANGED <<step, ids, replies, result>>
    PROVE  ResultInOrder'
<1>1. \A t : ReplyOf(t)' = ReplyOf(t)
  BY DEF ReplyOf
<1> QED
  BY <1>1 DEF ResultInOrder

(* What happens beside the lookup leaves what it has found.                *)
LEMMA BesideKeeps ==
    ASSUME LookupInv, UNCHANGED lookup, LookupTypes', AskInv'
    PROVE  LookupInv'
<1>1. ReplyInv'
  BY DEF LookupInv, lookup, ReplyInv, Apart, Replied
<1>2. ResultInv'
  <2>1. ResultInOrder'
    BY OrderStays DEF LookupInv, lookup, ResultInv
  <2>2. AllIsFound'
    BY DEF LookupInv, lookup, ResultInv, AllIsFound
  <2> QED
    BY <2>1, <2>2 DEF LookupInv, lookup, ResultInv
<1>3. PagesInv'
  BY DEF LookupInv, lookup, PagesInv
<1> QED
  BY <1>1, <1>2, <1>3 DEF LookupInv

LEMMA ListenKeeps ==
    ASSUME LookupInv, NEW a, NEW names \in Answers, Listen(a, names)
    PROVE  LookupInv'
<1>1. heard' \in Named
  BY IdsType, ReverseType, ConcatProperties, DedupeType DEF Listen, LookupInv, LookupTypes, Named
<1>2. LookupTypes'
  BY <1>1 DEF Listen, LookupInv, LookupTypes, lookup, record
<1>3. AskInv'
  BY DEF Listen, LookupInv, AskInv, lookup, record
<1> QED
  BY <1>2, <1>3, BesideKeeps DEF Listen

(* Between jobs nothing is found.                                          *)
LEMMA NothingFound ==
    ASSUME LookupTypes', AskInv', step' \notin {"browse", "detail", "answered"},
           ids' = <<>>, replies' = <<>>, \A t \in DOMAIN task' : task'[t] = "none",
           result'.pairs = {}, PagesInv'
    PROVE  LookupInv'
<1>1. ReplyInv'
  BY DEF ReplyInv, Apart, Replied
<1>2. ResultInv'
  BY DEF ResultInv, ResultInOrder, AllIsFound
<1> QED
  BY <1>1, <1>2 DEF LookupInv

LEMMA StartMusicBrainzKeeps ==
    ASSUME LookupInv, StartMusicBrainz
    PROVE  LookupInv'
<1> DEFINE recording == LookupRecording
           chosen == LookupRelease
           known == IF recording = None THEN heard ELSE Append(heard, recording)
<1>1. recording \in RecordingId \union {None}
  <2>1. \A n \in RecordingId : n # None
    BY ProviderLookupAssumption
  <2>2. heard # <<>> => Head(heard) \in RecordingId
    BY HeadTailProperties DEF LookupInv, LookupTypes, Named
  <2>3. identity[2] \in RecordingId \union {None}
    BY DEF LookupInv, LookupTypes, Pair, NoPair
  <2> QED
    BY <2>2, <2>3 DEF LookupRecording, LookupInv, LookupTypes
<1>2. chosen \in ReleaseId \union {None}
  BY DEF LookupRelease, LookupInv, LookupTypes, Pair, NoPair
<1>3. Dedupe(known) \in Named /\ <<>> \in Named
  <2>1. known \in Named
    BY <1>1, AppendProperties DEF LookupInv, LookupTypes, Named
  <2> HIDE DEF known
  <2> QED
    BY <2>1, DedupeType DEF Named
<1>4. CASE step' = step
  <2>1. UNCHANGED <<job, lookup>> /\ UNCHANGED <<overtaken, refresh, identity>>
    BY <1>4 DEF StartMusicBrainz, lookup, LookupInv, AskInv
  <2>2. LookupTypes' /\ AskInv'
    BY <2>1 DEF StartMusicBrainz, LookupInv, LookupTypes, AskInv, lookup, source
  <2> QED
    BY <2>1, <2>2, BesideKeeps
<1>5. CASE step' # step
  <2>1. /\ step' = IF chosen # None /\ recording # None THEN "pair" ELSE "search"
        /\ ask' = Asking(chosen, recording, IF chosen = None THEN Dedupe(known) ELSE <<>>)
        /\ job' = "musicbrainz" /\ step = "idle"
        /\ UNCHANGED <<refresh, ids, task, replies, result, heard, override, identity, latest, stored>>
    BY <1>5 DEF StartMusicBrainz, LookupInv, AskInv, source
  <2> HIDE DEF recording, chosen, known
  <2>2. /\ ask'.release = chosen /\ ask'.recording = recording
        /\ ask'.recordings \in Named
    BY <1>3, <2>1 DEF Asking
  <2>3. LookupTypes'
    BY <2>1, <2>2 DEF LookupInv, LookupTypes
  <2>4. AskInv'
    BY <1>1, <1>2, <2>1, <2>2 DEF AskInv, Pair
  <2>5. PagesInv'
    BY <1>5 DEF StartMusicBrainz, LookupInv, PagesInv
  <2> QED
    BY <2>1, <2>3, <2>4, <2>5, NothingFound DEF LookupInv, ReplyInv, ResultInv
<1> QED
  BY <1>4, <1>5

LEMMA StartRefreshKeeps ==
    ASSUME LookupInv, StartRefresh
    PROVE  LookupInv'
<1>1. CASE StillConfirmed(refresh)
  <2>1. /\ step' = "pair" /\ job' = "refresh" /\ step = "idle" /\ identity = refresh /\ refresh # NoPair
        /\ ask' = Asking(refresh[1], refresh[2], <<>>)
        /\ UNCHANGED <<refresh, ids, task, replies, result, heard, override, identity, latest, stored>>
    BY <1>1 DEF StartRefresh, StillConfirmed, LookupInv, AskInv, source
  <2>2. /\ ask'.release = refresh[1] /\ ask'.recording = refresh[2] /\ ask'.recordings = <<>>
    BY <2>1 DEF Asking
  <2>3. refresh \in Pair /\ refresh = <<refresh[1], refresh[2]>> /\ <<>> \in Named
    BY <2>1 DEF LookupInv, LookupTypes, Pair, Named
  <2>4. LookupTypes' /\ AskInv'
    BY <2>1, <2>2, <2>3 DEF LookupInv, LookupTypes, AskInv
  <2>5. PagesInv'
    BY DEF StartRefresh, LookupInv, PagesInv
  <2> QED
    BY <2>1, <2>4, <2>5, NothingFound DEF LookupInv, ReplyInv, ResultInv
<1>2. CASE ~StillConfirmed(refresh)
  <2>1. UNCHANGED lookup /\ job = "none" /\ job' = "none"
    BY <1>2 DEF StartRefresh, lookup
  <2>2. LookupTypes' /\ AskInv'
    BY <1>2, <2>1 DEF StartRefresh, LookupInv, LookupTypes, AskInv, lookup, source
  <2> QED
    BY <2>1, <2>2, BesideKeeps
<1> QED
  BY <1>1, <1>2

(* The frame of the steps of a lookup.                                     *)
LEMMA LookupGoesOn ==
    ASSUME LookupTypes, AskInv, UNCHANGED <<refresh, job, ask, source, record>>,
           step # "idle", step' \notin {"idle", "pair"}
    PROVE  /\ AskInv'
           /\ /\ ids' \in Named /\ result'.pairs \subseteq Pair
              /\ task' \in [RecordingId \union ReleaseId -> {"none", "waiting", "asking", "done"}]
              /\ replies' \in Seq([id : RecordingId \union ReleaseId, outcome : Outage \union {"ok"}])
              => LookupTypes'
BY DEF LookupTypes, AskInv, source, record

LEMMA SearchKeeps ==
    ASSUME LookupInv, NEW a, NEW results \in Answers, Search(a, results)
    PROVE  LookupInv'
<1> DEFINE named == Dedupe(ask.recordings \o Ids(results))
<1>1. named \in Named /\ \A t \in ToSet(named) : t \in RecordingId
  <2>1. named \in Named
    BY IdsType, ConcatProperties, DedupeType DEF LookupInv, LookupTypes, Named
  <2> HIDE DEF named
  <2> QED
    BY <2>1, LenProperties, ElementOfSeq DEF ToSet, Named
<1>2. /\ step = "search" /\ replies' = <<>> /\ ids = <<>> /\ \A t \in DOMAIN task : task[t] = "none"
      /\ UNCHANGED <<refresh, job, ask, source, record, replies>> /\ result.pairs = {}
  BY DEF Search, LookupInv, ReplyInv, ResultInv
<1> HIDE DEF named
<1>5. PagesInv'
  BY DEF Search, LookupInv, PagesInv
<1>3. CASE step' = "answered"
  <2>1. ids' = <<>> /\ result'.pairs = {} /\ result'.detailed = {} /\ UNCHANGED task
    BY <1>2, <1>3 DEF Search, Answered, named
  <2>2. LookupTypes' /\ AskInv'
    BY <1>2, <1>3, <2>1, LookupGoesOn DEF LookupInv, LookupTypes, Named
  <2>3. ReplyInv' /\ ResultInv'
    BY <1>2, <1>3, <2>1 DEF ReplyInv, Apart, ResultInv, ResultInOrder, AllIsFound
  <2> QED
    BY <1>5, <2>2, <2>3 DEF LookupInv
<1>4. CASE step' # "answered"
  <2>1. ids' = named /\ step' = "browse" /\ task' = Awaiting(ToSet(named)) /\ UNCHANGED result
    BY <1>2, <1>4 DEF Search, Answered, named
  <2>2. LookupTypes' /\ AskInv'
    BY <1>1, <1>2, <2>1, LookupGoesOn DEF LookupInv, LookupTypes, Named, Awaiting
  <2>3. ReplyInv' /\ ResultInv'
    BY <1>1, <1>2, <2>1, ProviderLookupAssumption
       DEF ReplyInv, Apart, Replied, ResultInv, ResultInOrder, AllIsFound, Awaiting
  <2> QED
    BY <1>5, <2>2, <2>3 DEF LookupInv
<1> QED
  BY <1>3, <1>4

LEMMA BeginKeeps ==
    ASSUME LookupInv, NEW t \in RecordingId \union ReleaseId, Begin(t)
    PROVE  LookupInv'
<1>1. /\ task' = [task EXCEPT ![t] = "asking"] /\ task[t] = "waiting" /\ t \in DOMAIN task
      /\ UNCHANGED <<refresh, job, ask, step, ids, replies, result, source, record>>
  BY DEF Begin, LookupInv, LookupTypes
<1>2. step \in {"browse", "detail", "answered"}
  BY <1>1 DEF LookupInv, ReplyInv
<1>3. LookupTypes' /\ AskInv'
  BY <1>1, <1>2, LookupGoesOn DEF LookupInv, LookupTypes
<1>4. ReplyInv'
  BY <1>1, <1>2 DEF LookupInv, LookupTypes, ReplyInv, Apart, Replied
<1>5. ResultInv'
  BY <1>1, <1>2, OrderStays DEF LookupInv, ResultInv, AllIsFound
<1>6. PagesInv'
  BY DEF Begin, LookupInv, PagesInv
<1> QED
  BY <1>3, <1>4, <1>5, <1>6 DEF LookupInv

(* A page is as long as there is room on it and something left to list.    *)
LEMMA PageIs ==
    ASSUME NEW r \in RecordingId, got[r] \in 0..Len(Lists[r])
    PROVE  /\ Len(Page(r)) \in Nat /\ got[r] + Len(Page(r)) \in 0..Len(Lists[r])
           /\ Page(r) = <<>> => Len(Page(r)) = 0
<1> DEFINE s == Lists[r]
           l == IF got[r] + PageSize < Len(Lists[r]) THEN got[r] + PageSize ELSE Len(Lists[r])
<1>1. /\ Len(s) \in Nat /\ s \in Seq(ReleaseId) /\ l \in Nat /\ got[r] \in Nat /\ got[r] <= l /\ l <= Len(s)
      /\ got[r] + 1 \in 1..(Len(s) + 1) /\ got[r] + 1 \in Nat
  BY ListTypes, ProviderLookupAssumption
<1>2. Page(r) = SubSeq(s, got[r] + 1, l)
  BY DEF Page
<1> HIDE DEF s, l
<1>3. Len(Page(r)) = IF got[r] + 1 <= l THEN l - (got[r] + 1) + 1 ELSE 0
  BY <1>1, <1>2, SubSeqProperties
<1>4. Len(Page(r)) = l - got[r]
  BY <1>1, <1>3
<1> QED
  BY <1>1, <1>4 DEF s

(* A reply that goes well ends a recording when all pages have come.       *)
LEMMA BrowseKeeps ==
    ASSUME LookupInv, NEW r \in RecordingId, NEW a \in {"ok"} \union Fault, Browse(r, a)
    PROVE  LookupInv'
<1>1. /\ step = "browse" /\ task[r] = "asking" /\ r \in DOMAIN task
      /\ UNCHANGED <<refresh, job, ask, step, ids, result, source, record>>
  BY DEF Browse, LookupInv, LookupTypes
<1>2. ResultInv'
  BY <1>1 DEF LookupInv, ResultInv, ResultInOrder, AllIsFound
<1>3. /\ got' \in [RecordingId -> Nat] /\ got'[r] \in 0..Len(Lists[r])
      /\ \A q \in RecordingId \ {r} : got'[q] = got[q]
      /\ got'[r] >= Len(Lists[r]) => got'[r] = Len(Lists[r])
  <2>1. got \in [RecordingId -> Nat] /\ got[r] \in 0..Len(Lists[r])
    BY DEF LookupInv, PagesInv
  <2>2. PICK n \in Nat : got' = [got EXCEPT ![r] = n] /\ n \in 0..Len(Lists[r])
    <3>1. got[r] + Len(Page(r)) \in Nat
      BY <2>1, PageIs
    <3> QED
      BY <2>1, <3>1, PageIs DEF Browse
  <2> QED
    BY <2>1, <2>2, ListTypes
<1>4. ~Replied(r)
  BY <1>1 DEF LookupInv, ReplyInv
<1>5. ASSUME NEW b \in Fault \union {"ok"}, Finished(r, b), b = "ok" => got'[r] >= Len(Lists[r])
      PROVE  LookupInv'
  <2>1. ~Replied(r) /\ task' = [task EXCEPT ![r] = "done"]
    BY <1>4, <1>5 DEF Finished
  <2>2. /\ replies' \in Seq([id : RecordingId \union ReleaseId, outcome : Outage \union {"ok"}])
        /\ Apart' /\ \A u : Replied(u)' <=> Replied(u) \/ u = r
        /\ \A k \in DOMAIN replies : k \in DOMAIN replies' /\ replies'[k] = replies[k]
    BY <1>5, <2>1, ReplyAdded DEF LookupInv, ReplyInv
  <2>3. LookupTypes' /\ AskInv'
    BY <1>1, <2>1, <2>2, LookupGoesOn DEF LookupInv, LookupTypes
  <2>4. ReplyInv'
    <3>1. ASSUME NEW t \in DOMAIN task'
          PROVE  task'[t] = "done" <=> Replied(t)'
      BY <1>1, <2>1, <2>2, <3>1 DEF LookupInv, LookupTypes, ReplyInv
    <3>2. \A q \in ReleaseId : task'[q] = "none"
      BY <1>1, <2>1, ProviderLookupAssumption DEF LookupInv, LookupTypes, ReplyInv
    <3> QED
      BY <1>1, <2>2, <3>1, <3>2 DEF ReplyInv
  <2>5. ASSUME NEW k \in DOMAIN replies', replies'[k].outcome = "ok", replies'[k].id \in RecordingId
        PROVE  got'[replies'[k].id] = Len(Lists[replies'[k].id])
    <3>1. CASE k \in DOMAIN replies
      <4>1. replies'[k] = replies[k] /\ replies[k].id # r
        BY <1>4, <2>2, <3>1 DEF Replied
      <4> QED
        BY <1>3, <2>5, <3>1, <4>1 DEF LookupInv, PagesInv
    <3>2. CASE k \notin DOMAIN replies
      <4>1. replies'[k].id = r /\ replies'[k].outcome = Outcome(b)
        BY <1>5, <2>5, <3>2, ReplyIsLast DEF LookupInv, LookupTypes
      <4>2. b = "ok"
        BY <1>5, <2>5, <4>1 DEF Outcome, Fault
      <4> QED
        BY <1>3, <1>5, <4>1, <4>2
    <3> QED
      BY <3>1, <3>2
  <2>6. PagesInv'
    BY <1>3, <2>5 DEF LookupInv, PagesInv
  <2> QED
    BY <1>2, <2>3, <2>4, <2>6 DEF LookupInv
<1>6. CASE UNCHANGED <<task, replies>>
  <2>1. LookupTypes' /\ AskInv'
    BY <1>1, <1>6, LookupGoesOn DEF LookupInv, LookupTypes
  <2>2. ReplyInv'
    BY <1>1, <1>6 DEF LookupInv, ReplyInv, Apart, Replied
  <2>3. PagesInv'
    <3>1. \A k \in DOMAIN replies : replies[k].id # r
      BY <1>4 DEF Replied
    <3> QED
      BY <1>3, <1>6, <3>1 DEF LookupInv, PagesInv
  <2> QED
    BY <1>2, <2>1, <2>2, <2>3 DEF LookupInv
<1>7. \/ Finished(r, a) /\ a # "ok"
      \/ Finished(r, "ok") /\ got'[r] >= Count(r)
      \/ Finished(r, "garbled")
      \/ UNCHANGED <<task, replies>>
  <2>1. CASE a # "ok"
    BY <2>1 DEF Browse
  <2>2. CASE a = "ok" /\ AllReceived(got'[r], Count(r))
    BY <2>2 DEF Browse, AllReceived
  <2>3. CASE a = "ok" /\ ~AllReceived(got'[r], Count(r)) /\ EmptyPage(Page(r))
    BY <2>3 DEF Browse
  <2>4. CASE a = "ok" /\ ~AllReceived(got'[r], Count(r)) /\ ~EmptyPage(Page(r))
    BY <2>4 DEF Browse
  <2> QED
    BY <2>1, <2>2, <2>3, <2>4
<1>8. got'[r] >= Count(r) => got'[r] >= Len(Lists[r])
  <2>1. Len(Lists[r]) \in Nat /\ got'[r] \in Int
    BY <1>3, ListTypes
  <2>2. Count(r) = Len(Lists[r]) \/ Count(r) = Len(Lists[r]) + 1
    <3>1. CASE r \in miscounted
      BY <2>1, <3>1 DEF Count
    <3>2. CASE r \notin miscounted
      BY <2>1, <3>2 DEF Count
    <3> QED
      BY <3>1, <3>2
  <2> QED
    BY <2>1, <2>2
<1> QED
  BY <1>5, <1>6, <1>7, <1>8 DEF Fault

(* The outcome of a lookup is taken from the first failing recording.      *)
LEMMA FirstFailingIs ==
    ASSUME ids \in Named
    PROVE  LET failed == {i \in DOMAIN ids : ReplyOf(ids[i]) # "ok"} IN
           /\ failed = {} => FirstFailing(InRequestOrder) = 0
           /\ failed # {} => /\ FirstFailing(InRequestOrder) = Min(failed)
                             /\ Min(failed) \in failed
<1> DEFINE failed == {i \in DOMAIN ids : ReplyOf(ids[i]) # "ok"}
<1>1. Len(ids) \in Nat /\ DOMAIN ids = 1..Len(ids)
  BY LenProperties DEF Named
<1>2. failed = {i \in 1..Len(ids) : ReplyOf(ids[i]) # "ok"} /\ failed \subseteq Nat
  BY <1>1
<1>3. FirstFailing(InRequestOrder) = IF failed # {} THEN Min(failed) ELSE 0
  BY <1>2 DEF FirstFailing, InRequestOrder, SelectInSeq
<1> HIDE DEF failed
<1>4. failed # {} => Min(failed) \in failed
  BY <1>2, FirstPlace
<1> QED
  BY <1>3, <1>4 DEF failed

(* A row of the replies.                                                   *)
LEMMA ReplyRow ==
    ASSUME replies \in Seq([id : RecordingId \union ReleaseId, outcome : Outage \union {"ok"}]),
           NEW k \in DOMAIN replies
    PROVE  replies[k].outcome \in Outage \union {"ok"}
<1> DEFINE Rows == [id : RecordingId \union ReleaseId, outcome : Outage \union {"ok"}]
<1>1. replies \in Seq(Rows)
  OBVIOUS
<1> HIDE DEF Rows
<1>2. replies[k] \in Rows
  BY <1>1, LenProperties, ElementOfSeq
<1> QED
  BY <1>2 DEF Rows

(* Of a recording that was answered well every release listed is usable.   *)
LEMMA UsableIsAll ==
    ASSUME PagesInv, NEW k \in DOMAIN replies, replies[k].outcome = "ok", replies[k].id \in RecordingId
    PROVE  Usable(replies[k].id) = ToSet(Lists[replies[k].id]) \ Unofficial
<1> DEFINE r == replies[k].id
           s == Lists[r]
<1>1. got[r] = Len(s) /\ Len(s) \in Nat /\ s \in Seq(ReleaseId)
  BY ListTypes DEF PagesInv
<1> HIDE DEF s
<1>2. SubSeq(s, 1, Len(s)) = s
  <2>1. /\ Len(SubSeq(s, 1, Len(s))) = Len(s) /\ SubSeq(s, 1, Len(s)) \in Seq(ReleaseId)
        /\ \A i \in 1..Len(s) : SubSeq(s, 1, Len(s))[i] = s[i]
    BY <1>1, SubSeqProperties
  <2> QED
    BY <1>1, <2>1, SeqEqual
<1> QED
  BY <1>1, <1>2 DEF Usable, s

LEMMA ExpandKeeps ==
    ASSUME LookupInv, Expand
    PROVE  LookupInv'
<1> DEFINE failing == FirstFailing(InRequestOrder)
           failed == {i \in DOMAIN ids : ReplyOf(ids[i]) # "ok"}
<1>1. /\ step = "browse" /\ result.pairs = {} /\ \A r \in ToSet(ids) : task[r] = "done"
      /\ UNCHANGED <<refresh, job, ask, ids, replies, source, record>>
  BY DEF Expand, LookupInv, ResultInv
<1>2. /\ failed = {} => failing = 0
      /\ failed # {} => failing = Min(failed) /\ failing \in failed
  BY FirstFailingIs DEF LookupInv, LookupTypes
<1>3. failing # 0 <=> failed # {}
  <2>1. 0 \notin DOMAIN ids
    BY LenProperties DEF LookupInv, LookupTypes, Named
  <2> QED
    BY <1>2, <2>1
<1>6. PagesInv'
  BY DEF Expand, LookupInv, PagesInv
<1>7. failed = {} => \A r \in ToSet(ids) : Usable(r) = ToSet(Lists[r]) \ Unofficial
  <2> SUFFICES ASSUME failed = {}, NEW i \in DOMAIN ids
      PROVE  Usable(ids[i]) = ToSet(Lists[ids[i]]) \ Unofficial
    BY DEF ToSet
  <2>1. ids[i] \in RecordingId
    BY LenProperties, ElementOfSeq DEF LookupInv, LookupTypes, Named
  <2>2. task[ids[i]] = "done" /\ ids[i] \in DOMAIN task
    BY <1>1, <2>1 DEF ToSet, LookupInv, LookupTypes
  <2>3. PICK k \in DOMAIN replies : replies[k].id = ids[i]
    BY <1>1, <2>2 DEF LookupInv, ReplyInv, Replied
  <2>4. ReplyOf(ids[i]) = "ok"
    OBVIOUS
  <2>5. replies[k].outcome = "ok"
    BY <2>3, <2>4, ReplyIs DEF LookupInv, ReplyInv
  <2> QED
    BY <2>1, <2>3, <2>5, UsableIsAll DEF LookupInv
<1>8. failed = {} => Listed = ToSet(ids)
  BY DEF Listed, ToSet
<1>4. CASE step' = "answered"
  <2>1. /\ result'.pairs = {} /\ result'.detailed = {} /\ UNCHANGED task
        /\ result'.outcome = IF failed = {} THEN "nomatch" ELSE ReplyOf(ids[Min(failed)])
    BY <1>1, <1>2, <1>3, <1>4 DEF Expand, Answered, InRequestOrder
  <2>2. LookupTypes' /\ AskInv'
    BY <1>1, <1>4, <2>1, LookupGoesOn DEF LookupInv, LookupTypes
  <2>3. ReplyInv'
    BY <1>1, <1>4 DEF LookupInv, ReplyInv, Apart
  <2>4. ResultInOrder'
    <3>1. \A t : ReplyOf(t)' = ReplyOf(t)
      BY <1>1 DEF ReplyOf
    <3>2. failed' = failed
      BY <1>1, <3>1
    <3>3. failed = {} => result'.outcome \notin Outage
      BY <2>1 DEF Outage
    <3> HIDE DEF failed
    <3>4. (IF failed = {} THEN result.outcome \notin Outage
           ELSE result.outcome = ReplyOf(ids[Min(failed)]))'
      BY <1>1, <2>1, <3>1, <3>2, <3>3
    <3> QED
      BY <3>4 DEF ResultInOrder, failed
  <2>5. AllIsFound'
    <3> SUFFICES ASSUME result'.outcome \notin Outage,
                        NEW item \in ReleaseId, NEW recording \in ToSet(ids),
                        item \in ToSet(Lists[recording]) \ Unofficial
        PROVE  FALSE
      BY <1>1, <2>1 DEF AllIsFound
    <3>1. failed = {}
      <4>1. ASSUME failed # {} PROVE FALSE
        <5>1. PICK i \in DOMAIN ids : i = Min(failed)
          BY <1>2, <4>1
        <5>2. ids[i] \in RecordingId
          BY LenProperties, ElementOfSeq DEF LookupInv, LookupTypes, Named
        <5>3. task[ids[i]] = "done" /\ ids[i] \in DOMAIN task
          BY <1>1, <5>2 DEF ToSet, LookupInv, LookupTypes
        <5>4. PICK k \in DOMAIN replies : replies[k].id = ids[i]
          BY <1>1, <5>3 DEF LookupInv, ReplyInv, Replied
        <5>5. ReplyOf(ids[i]) = replies[k].outcome
          BY <5>4, ReplyIs DEF LookupInv, ReplyInv
        <5>6. ReplyOf(ids[i]) # "ok"
          BY <1>2, <4>1, <5>1
        <5>7. replies[k].outcome \in Outage \union {"ok"}
          BY <5>4, ReplyRow DEF LookupInv, LookupTypes
        <5>8. result'.outcome = ReplyOf(ids[i])
          BY <2>1, <4>1, <5>1
        <5> QED
          BY <5>5, <5>6, <5>7, <5>8
      <4> QED
        BY <4>1
    <3>2. UNION {Usable(r) : r \in Listed} = {}
      BY <1>1, <1>3, <1>4, <3>1 DEF Expand
    <3>3. item \in Usable(recording) /\ recording \in Listed
      BY <1>7, <1>8, <3>1
    <3> QED
      BY <3>2, <3>3
  <2>6. ResultInv'
    BY <1>4, <2>1, <2>4, <2>5 DEF ResultInv
  <2> QED
    BY <1>6, <2>2, <2>3, <2>6 DEF LookupInv
<1>5. CASE step' # "answered"
  <2>1. failed = {} /\ step' = "detail" /\ UNCHANGED result
    BY <1>1, <1>3, <1>5 DEF Expand, Answered
  <2>2. PICK releases : task' = Awaiting(releases)
    BY <1>5 DEF Expand, Answered
  <2>3. LookupTypes' /\ AskInv'
    BY <1>1, <2>1, <2>2, LookupGoesOn DEF LookupInv, LookupTypes, Awaiting
  <2>4. ASSUME NEW i \in DOMAIN ids
        PROVE  \E k \in DOMAIN replies : replies[k].id = ids[i] /\ replies[k].outcome = "ok"
    <3>1. ids[i] \in RecordingId
      BY LenProperties, ElementOfSeq DEF LookupInv, LookupTypes, Named
    <3>2. task[ids[i]] = "done" /\ ids[i] \in DOMAIN task
      BY <1>1, <3>1 DEF ToSet, LookupInv, LookupTypes
    <3>3. PICK k \in DOMAIN replies : replies[k].id = ids[i]
      BY <1>1, <3>2 DEF LookupInv, ReplyInv, Replied
    <3>4. ReplyOf(ids[i]) = "ok"
      BY <2>1
    <3> QED
      BY <3>3, <3>4, ReplyIs DEF LookupInv, ReplyInv
  <2>5. \A k \in DOMAIN replies : replies[k].id \in RecordingId
    <3> SUFFICES ASSUME NEW k \in DOMAIN replies PROVE replies[k].id \in RecordingId
      OBVIOUS
    <3> DEFINE Rows == [id : RecordingId \union ReleaseId, outcome : Outage \union {"ok"}]
    <3>0. replies \in Seq(Rows)
      BY DEF LookupInv, LookupTypes
    <3> HIDE DEF Rows
    <3>3. replies[k] \in Rows
      BY <3>0, LenProperties, ElementOfSeq
    <3>1. replies[k] \in [id : RecordingId \union ReleaseId, outcome : Outage \union {"ok"}]
      BY <3>3 DEF Rows
    <3>2. Replied(replies[k].id) /\ replies[k].id \in DOMAIN task
      BY <3>1 DEF Replied, LookupInv, LookupTypes
    <3> QED
      BY <1>1, <3>1, <3>2 DEF LookupInv, LookupTypes, ReplyInv
  <2>6. ReplyInv'
    BY <1>1, <2>1, <2>4, <2>5, ProviderLookupAssumption DEF LookupInv, ReplyInv, Apart, Replied
  <2>7. ResultInv'
    BY <1>1, <2>1 DEF LookupInv, ResultInv, ResultInOrder, AllIsFound
  <2> QED
    BY <1>6, <2>3, <2>6, <2>7 DEF LookupInv
<1> QED
  BY <1>4, <1>5

LEMMA DetailKeeps ==
    ASSUME LookupInv, NEW r \in ReleaseId, NEW a \in {"ok"} \union Fault, Detail(r, a)
    PROVE  LookupInv'
<1>1. /\ step = "detail" /\ task[r] = "asking" /\ Finished(r, a) /\ task' = [task EXCEPT ![r] = "done"]
      /\ UNCHANGED <<refresh, job, ask, step, ids, result, source, record>>
  BY DEF Detail, Finished
<1>2. ~Replied(r)
  BY <1>1 DEF LookupInv, ReplyInv
<1>3. /\ replies' \in Seq([id : RecordingId \union ReleaseId, outcome : Outage \union {"ok"}])
      /\ Apart' /\ \A u : Replied(u)' <=> Replied(u) \/ u = r
      /\ \A k \in DOMAIN replies : k \in DOMAIN replies' /\ replies'[k] = replies[k]
  BY <1>1, <1>2, ReplyAdded DEF LookupInv, ReplyInv
<1>4. LookupTypes' /\ AskInv'
  BY <1>1, <1>3, LookupGoesOn DEF LookupInv, LookupTypes
<1>5. \A i \in DOMAIN ids' : \E k \in DOMAIN replies' : /\ replies'[k].id = ids'[i]
                                                        /\ replies'[k].outcome = "ok"
  BY <1>1, <1>3 DEF LookupInv, ReplyInv
<1>6. ASSUME NEW u \in ReleaseId, Replied(u)'
      PROVE  task'[u] = "done"
  BY <1>1, <1>3, <1>6 DEF LookupInv, LookupTypes, ReplyInv
<1>7. ReplyInv'
  BY <1>1, <1>3, <1>5, <1>6 DEF ReplyInv
<1>8. ResultInv'
  BY <1>1 DEF LookupInv, ResultInv, ResultInOrder, AllIsFound
<1>9. ASSUME NEW k \in DOMAIN replies', replies'[k].id \in RecordingId
      PROVE  k \in DOMAIN replies
  BY <1>1, <1>9, ReplyIsLast, ProviderLookupAssumption DEF LookupInv, LookupTypes
<1>10. PagesInv'
  BY <1>3, <1>9 DEF Detail, LookupInv, PagesInv
<1> QED
  BY <1>4, <1>7, <1>8, <1>10 DEF LookupInv

LEMMA ResolveKeeps ==
    ASSUME LookupInv, Resolve
    PROVE  LookupInv'
<1> DEFINE releases == UNION {Usable(r) : r \in Listed}
           detailed == {r \in releases : ReplyOf(r) = "ok"}
           pairs == {p \in ReleaseId \X Listed :
                       p[1] \in Usable(p[2]) /\ IsCandidate(p[1], p[2], detailed)}
<1>1. /\ step = "detail" /\ Answered(IF pairs = {} THEN "nomatch" ELSE "match", pairs, detailed)
      /\ UNCHANGED <<refresh, job, ask, ids, task, replies, source, record>>
  BY DEF Resolve
<1>2. Listed \subseteq RecordingId
  BY LenProperties, ElementOfSeq DEF Listed, ToSet, LookupInv, LookupTypes, Named
<1>7. \A i \in DOMAIN ids : ReplyOf(ids[i]) = "ok"
  BY <1>1, ReplyIs DEF LookupInv, ReplyInv
<1>10. Listed = ToSet(ids)
  BY <1>7 DEF Listed, ToSet
<1>11. \A r \in ToSet(ids) : Usable(r) = ToSet(Lists[r]) \ Unofficial
  <2> SUFFICES ASSUME NEW i \in DOMAIN ids PROVE Usable(ids[i]) = ToSet(Lists[ids[i]]) \ Unofficial
    BY DEF ToSet
  <2>1. ids[i] \in RecordingId
    BY LenProperties, ElementOfSeq DEF LookupInv, LookupTypes, Named
  <2>2. PICK k \in DOMAIN replies : replies[k].id = ids[i] /\ replies[k].outcome = "ok"
    BY <1>1 DEF LookupInv, ReplyInv
  <2> QED
    BY <2>1, <2>2, UsableIsAll DEF LookupInv
<1>3. /\ pairs \subseteq Pair
      /\ \A item \in ReleaseId, recording \in RecordingId :
            <<item, recording>> \in pairs <=>
                /\ recording \in ToSet(ids) /\ item \in ToSet(Lists[recording]) \ Unofficial
                /\ item \in detailed =>
                       recording \in Tracks[item] \/ recording \notin DataTracks[item]
  <2>1. pairs \subseteq Pair
    BY <1>2 DEF Pair
  <2> HIDE DEF detailed
  <2>2. ASSUME NEW item \in ReleaseId, NEW recording \in RecordingId
        PROVE  <<item, recording>> \in pairs <=>
                 /\ recording \in Listed /\ item \in Usable(recording)
                 /\ IsCandidate(item, recording, detailed)
    OBVIOUS
  <2> HIDE DEF pairs
  <2> QED
    BY <1>10, <1>11, <2>1, <2>2 DEF IsCandidate
<1> HIDE DEF pairs, detailed
<1>4. /\ step' = "answered" /\ result'.pairs = pairs /\ result'.detailed = detailed
      /\ result'.outcome \notin Outage
  BY <1>1 DEF Answered, Outage
<1>5. LookupTypes' /\ AskInv'
  BY <1>1, <1>3, <1>4, LookupGoesOn DEF LookupInv, LookupTypes
<1>6. ReplyInv'
  BY <1>1, <1>4 DEF LookupInv, ReplyInv, Apart
<1>8. ResultInOrder'
  <2>1. (\A i \in DOMAIN ids : ReplyOf(ids[i]) = "ok")'
    BY <1>1, <1>7 DEF ReplyOf
  <2> QED
    BY <1>4, <2>1 DEF ResultInOrder
<1>12. AllIsFound'
  BY <1>1, <1>3, <1>4 DEF AllIsFound
<1>9. ResultInv'
  BY <1>4, <1>8, <1>12 DEF ResultInv
<1>13. PagesInv'
  BY DEF Resolve, LookupInv, PagesInv
<1> QED
  BY <1>5, <1>6, <1>9, <1>13 DEF LookupInv

LEMMA PairReplyKeeps ==
    ASSUME LookupInv, NEW a, NEW item \in ReleaseId, PairReply(a, item)
    PROVE  LookupInv'
<1>1. /\ step = "pair" /\ step' = "answered" /\ ids = <<>>
      /\ result'.pairs \subseteq {<<item, ask.recording>>}
      /\ UNCHANGED <<refresh, job, ask, ids, task, got, replies, source, record>>
  BY DEF PairReply, Answered, LookupInv, ReplyInv
<1>2. <<item, ask.recording>> \in Pair
  BY <1>1 DEF LookupInv, AskInv, Pair
<1>3. LookupTypes' /\ AskInv'
  BY <1>1, <1>2, LookupGoesOn DEF LookupInv, LookupTypes, AskInv
<1>4. ReplyInv' /\ ResultInv' /\ PagesInv'
  BY <1>1 DEF LookupInv, ReplyInv, Apart, ResultInv, ResultInOrder, AllIsFound, PagesInv
<1> QED
  BY <1>3, <1>4 DEF LookupInv

(* A lookup leaves the stage, and its find goes to the source, or nowhere. *)
LEMMA LeavesKeeps ==
    ASSUME LookupInv, Leaves, refresh' \in Pair \union {NoPair},
           UNCHANGED <<heard, override, identity>>,
           Captures \/ UNCHANGED <<latest, stored>>
    PROVE  LookupInv'
<1>1. /\ step' = "idle" /\ job' = "none" /\ ids' = <<>> /\ replies' = <<>> /\ result'.pairs = {}
      /\ ask'.recordings = <<>> /\ task' = NoTasks
  BY DEF Leaves, NoAsk, NoResult
<1>2. stored' \subseteq Pair /\ \A c \in latest' : c.pair \in Pair
  <2>1. \A p : Scored(p).pair = p
    BY DEF Scored
  <2>2. CASE Captures
    BY <2>1, <2>2 DEF Captures, LookupInv, LookupTypes
  <2> QED
    BY <2>2 DEF LookupInv, LookupTypes
<1>3. LookupTypes'
  BY <1>1, <1>2 DEF LookupInv, LookupTypes, Named, NoTasks
<1>4. AskInv'
  BY <1>1 DEF AskInv
<1>5. PagesInv'
  BY ListTypes DEF Leaves, PagesInv
<1> QED
  BY <1>1, <1>3, <1>4, <1>5, NothingFound DEF NoTasks

LEMMA CapturesKeep ==
    ASSUME LookupInv, CaptureAnalysis \/ CaptureRefresh \/ Crash
    PROVE  LookupInv'
<1>1. /\ Leaves /\ UNCHANGED <<heard, override, identity>>
      /\ Captures \/ UNCHANGED <<latest, stored>>
  BY DEF CaptureAnalysis, CaptureRefresh, Crash, record, source
<1>2. refresh' \in Pair \union {NoPair}
  BY DEF CaptureAnalysis, CaptureRefresh, Crash, LookupInv, LookupTypes
<1> QED
  BY <1>1, <1>2, LeavesKeeps

(* The record is changed under the lookup.                                 *)
LEMMA SelectKeeps ==
    ASSUME LookupInv, Select
    PROVE  LookupInv'
<1>1. UNCHANGED <<refresh, lookup, heard, latest, stored, override, job>> /\ job = "none"
  BY DEF Select, source
<1>2. identity' \in Pair \union {NoPair}
  BY DEF Select, StoredCandidates, LookupInv, LookupTypes
<1>3. LookupTypes' /\ AskInv'
  BY <1>1, <1>2 DEF LookupInv, LookupTypes, AskInv, lookup
<1> QED
  BY <1>1, <1>3, BesideKeeps

LEMMA IdentityKeeps ==
    ASSUME LookupInv, NEW pair \in Pair, ConfirmCandidate(pair) \/ UpdateIdentity(pair)
    PROVE  LookupInv'
<1>1. /\ UNCHANGED <<refresh, lookup, job, heard, latest, stored>> /\ identity' = pair
      /\ overtaken' = (overtaken \/ identity # pair)
      /\ override' = override \/ override' = pair[2]
  BY DEF ConfirmCandidate, UpdateIdentity, source
<1>2. LookupTypes'
  BY <1>1 DEF LookupInv, LookupTypes, lookup, Pair
<1>3. AskInv'
  BY <1>1 DEF LookupInv, AskInv, lookup
<1> QED
  BY <1>1, <1>2, <1>3, BesideKeeps

LEMMA LoadKeeps ==
    ASSUME LookupInv, NEW recording \in RecordingId, NEW item \in ReleaseId \union {None}, NEW detailed,
           LoadCandidates(recording, item, detailed)
    PROVE  LookupInv'
<1>1. UNCHANGED <<lookup, job, heard, latest, record, refresh>>
  BY DEF LoadCandidates
<1>2. stored' \subseteq Pair
  <2>1. ToSet(Lists[recording]) \subseteq ReleaseId
    BY ListTypes, LenProperties, ElementOfSeq DEF ToSet
  <2> QED
    BY <2>1 DEF LoadCandidates, Pair, LookupInv, LookupTypes
<1>3. LookupTypes' /\ AskInv'
  BY <1>1, <1>2 DEF LookupInv, LookupTypes, AskInv, lookup, record
<1> QED
  BY <1>1, <1>3, BesideKeeps

LEMMA RequestsKeep ==
    ASSUME LookupInv,
           \/ \E k \in {"acoustid_confirmed", "recording_confirmed"} : ConfirmRecording(k)
           \/ \E r \in RecordingId : Override(r)
           \/ RequestRefresh
           \/ \E k \in {"acoustid", "musicbrainz"} : Reanalyse(k)
           \/ ApplyEncoding
           \/ UNCHANGED lookupVars
    PROVE  LookupInv'
<1>1. UNCHANGED <<lookup, job, heard, identity, stored, overtaken>>
  BY DEF ConfirmRecording, Override, RequestRefresh, Reanalyse, ApplyEncoding, lookupVars, source, record
<1>2. LookupTypes'
  BY <1>1 DEF ConfirmRecording, Override, RequestRefresh, Reanalyse, ApplyEncoding, lookupVars, source, record,
              lookup, LookupInv, LookupTypes
<1>3. AskInv'
  <2>1. refresh' = refresh \/ job # "refresh"
    BY DEF ConfirmRecording, Override, RequestRefresh, Reanalyse, ApplyEncoding, EncodingFree, lookupVars, source, record
  <2> QED
    BY <1>1, <2>1 DEF LookupInv, AskInv, lookup
<1> QED
  BY <1>1, <1>2, <1>3, BesideKeeps

-----------------------------------------------------------------------------
LEMMA LookupStep ==
    ASSUME LookupInv, [LookupNext]_lookupVars
    PROVE  LookupInv'
<1>1. <<>> \in Answers /\ Heard \subseteq Answers /\ Found \subseteq Answers
  <2>1. <<>> \in Answers
    BY DEF Answers
  <2> QED
    BY <2>1, ProviderLookupAssumption
<1>2. CASE Works
  <2>1. CASE \E names \in Answers : \E a : Listen(a, names)
    BY <2>1, ListenKeeps
  <2>2. CASE \E names \in Answers : \E a : Search(a, names)
    BY <2>2, SearchKeeps
  <2>3. CASE StartMusicBrainz \/ StartRefresh
    BY <2>3, StartMusicBrainzKeeps, StartRefreshKeeps
  <2>4. CASE \E t \in RecordingId \union ReleaseId : Begin(t)
    BY <2>4, BeginKeeps
  <2>5. CASE \E r \in RecordingId, a \in {"ok"} \union Fault : Browse(r, a)
    BY <2>5, BrowseKeeps
  <2>6. CASE Expand \/ Resolve
    BY <2>6, ExpandKeeps, ResolveKeeps
  <2>7. CASE \E r \in ReleaseId, a \in {"ok"} \union Fault : Detail(r, a)
    BY <2>7, DetailKeeps
  <2>8. CASE \E a \in {"ok"} \union Fault, r \in ReleaseId : PairReply(a, r)
    BY <2>8, PairReplyKeeps
  <2>9. CASE CaptureAnalysis \/ CaptureRefresh
    BY <2>9, CapturesKeep
  <2> QED
    BY <1>1, <1>2, <2>1, <2>2, <2>3, <2>4, <2>5, <2>6, <2>7, <2>8, <2>9 DEF Works
<1>3. CASE Crash \/ Select
  BY <1>3, CapturesKeep, SelectKeeps
<1>4. CASE Reviewed \/ UNCHANGED lookupVars
  <2>1. stored \subseteq Pair
    BY DEF LookupInv, LookupTypes
  <2> QED
    BY <1>4, <2>1, IdentityKeeps, LoadKeeps, RequestsKeep DEF Reviewed
<1> QED
  BY <1>2, <1>3, <1>4 DEF LookupNext

(* The inductive invariant of the lookup holds in every reachable state.   *)
THEOREM LookupInvariant == LookupSpec => []LookupInv
<1>1. LookupInit => LookupInv
  BY LookupStarts
<1>2. LookupInv /\ [LookupNext]_lookupVars => LookupInv'
  BY LookupStep
<1> QED
  BY <1>1, <1>2, PTL DEF LookupSpec

(* In whatever order the answers of a fan-out come in, a lookup fails as   *)
(* its first failing recording does, for any number of recordings.         *)
THEOREM ResultIsInOrder == LookupSpec => []ResultInOrder
<1>1. LookupInv => ResultInOrder
  BY DEF LookupInv, ResultInv
<1> QED
  BY <1>1, LookupInvariant, PTL

(* A fan-out that does not fail has found all there is: whatever the pages *)
(* hold, in whatever order and with whatever details they are answered.    *)
THEOREM FanOutFindsAll == LookupSpec => []AllIsFound
<1>1. LookupInv => AllIsFound
  BY DEF LookupInv, ResultInv
<1> QED
  BY <1>1, LookupInvariant, PTL

(* A refresh writes the tags of the pair it was queued for, and of no      *)
(* other, while this is what the record carries, unless the record was     *)
(* changed during the requests; a release that answers with another        *)
(* identifier is never written.                                            *)
THEOREM RefreshIsConfirmed == LookupSpec => RefreshWritesConfirmed
<1> DEFINE Written == job = "refresh" /\ job' = "none" /\ final' # final =>
                        final' = refresh /\ (identity = final' \/ overtaken)
<1>1. LookupInv /\ [LookupNext]_lookupVars => [Written]_lookupVars
  <2> SUFFICES ASSUME LookupInv, LookupNext, job = "refresh", job' = "none", final' # final
      PROVE  final' = refresh /\ (identity = final' \/ overtaken)
    BY DEF lookupVars
  <2>1. CaptureRefresh \/ Crash
    <3>1. ~Select
      BY DEF Select
    <3>2. ~Reviewed
      BY DEF Reviewed, ConfirmCandidate, ConfirmRecording, LoadCandidates, Override, UpdateIdentity, RequestRefresh,
             Reanalyse, ApplyEncoding, EncodingFree
    <3>3. Works => CaptureRefresh
      BY DEF Works, Listen, Search, StartMusicBrainz, StartRefresh, Begin, Browse, Expand, Detail,
             Resolve, PairReply, CaptureAnalysis
    <3> QED
      BY <3>1, <3>2, <3>3 DEF LookupNext
  <2>2. CaptureRefresh /\ final' = <<ask.release, ask.recording>>
    BY <2>1 DEF CaptureRefresh, PairConfirmed, Crash, record
  <2> QED
    BY <2>2 DEF LookupInv, AskInv
<1> HIDE DEF Written
<1>2. [][LookupNext]_lookupVars /\ []LookupInv => [][Written]_lookupVars
  BY <1>1, PTL
<1> USE DEF Written
<1> QED
  BY <1>2, LookupInvariant, PTL DEF LookupSpec, RefreshWritesConfirmed
=============================================================================
