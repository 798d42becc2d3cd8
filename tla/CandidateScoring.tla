-------------------------- MODULE CandidateScoring --------------------------
(***************************************************************************)
(* How a recording on a release is scored against the tags of a file, and  *)
(* how the scores choose (services/matching/scoring.py, the readers of     *)
(* stored candidates in services/candidates.py).  A fact is how well one   *)
(* component agrees, in hundredths, or Unknown when either side lacks it.  *)
(* The similarity of two texts is external; that of two durations falls    *)
(* below zero when they are far apart.  Averages are rounded down.         *)
(***************************************************************************)
EXTENDS Integers, FiniteSets, FiniteSetsExt

Unknown == 1000

ScoreWeight ==
    [title |-> 4, recording_artist |-> 4, release_artist |-> 4, release |-> 4, duration |-> 2,
     musicbrainz |-> 2, acoustid |-> 4, track_number |-> 2, disc_number |-> 1,
     track_total |-> 1, disc_total |-> 1]

Component == DOMAIN ScoreWeight

(* The duration and the rank of the search count in both families.         *)
RecordingFactors == {"title", "recording_artist", "duration", "musicbrainz", "acoustid"}
ReleaseFactors == {"release_artist", "release", "duration", "musicbrainz"}
PositionFactors == {"track_number", "disc_number", "track_total", "disc_total"}

Families == {RecordingFactors, ReleaseFactors, PositionFactors}

Available(facts, factors) == {c \in factors : facts[c] # Unknown}

Weight(facts, factors) == MapThenSumSet(LAMBDA c : ScoreWeight[c], Available(facts, factors))

Weighted(facts, factors) ==
    MapThenSumSet(LAMBDA c : ScoreWeight[c] * facts[c], Available(facts, factors))

(* _weighted_score: without evidence the score is zero, never an error.    *)
WeightedScore(facts) ==
    LET weight == MapThenSumSet(LAMBDA f : Weight(facts, f), Families)
        total == MapThenSumSet(LAMBDA f : Weighted(facts, f), Families)
    IN  IF weight = 0 \/ total < 0 THEN 0 ELSE total \div weight

(* A reviewer's identifiers settle the matter; the evidence is not asked.  *)
PairScore(facts, explicit) == IF explicit THEN 100 ELSE WeightedScore(facts)

(* Numbers are compared when both sides give a positive one.               *)
PositionFact(expected, actual) ==
    IF expected > 0 /\ actual > 0 THEN (IF expected = actual THEN 100 ELSE 0) ELSE Unknown

(* candidate_for_release takes a rank of at most one for a fraction.       *)
SearchRank(rank) ==
    IF rank = Unknown THEN Unknown ELSE IF 0 <= rank /\ rank <= 1 THEN 100 * rank ELSE rank

-----------------------------------------------------------------------------
(* A stored candidate is [pair |-> <<release, recording>>, score |-> s].   *)

(* _stored_release_scores: the best of each release in the latest run.     *)
ReleaseScores(run) ==
    [r \in {c.pair[1] : c \in run} |-> Max({c.score : c \in {d \in run : d.pair[1] = r}})]

(* select_folder_release: shared by all groups, the highest sum, the first *)
(* in the order of the identifiers among equals.  Groups are functions     *)
(* from releases to scores; releases are numbered in that order.           *)
SelectFolderRelease(groups, threshold, none) ==
    LET qualified(g) == {r \in DOMAIN groups[g] : groups[g][r] >= threshold}
        shared == {r \in UNION {qualified(g) : g \in DOMAIN groups} :
                      \A g \in DOMAIN groups : r \in qualified(g)}
        total(r) == MapThenSumSet(LAMBDA g : groups[g][r], DOMAIN groups)
    IN  IF shared = {} THEN none
        ELSE Min({r \in shared : \A q \in shared : total(q) <= total(r)})

(* _stored_release_candidate: the best pair of the selected release, the   *)
(* last in the order of the identifiers among equals.                      *)
StoredCandidates(run, release) ==
    LET matching == {c \in run : c.pair[1] = release} IN
    {c \in matching : \A d \in matching :
        d.score < c.score \/ (d.score = c.score /\ d.pair[2] <= c.pair[2])}
=============================================================================
