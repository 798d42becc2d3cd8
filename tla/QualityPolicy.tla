--------------------------- MODULE QualityPolicy ---------------------------
(***************************************************************************)
(* The policy that picks the effective source of a library record          *)
(* (services/quality_policy.py).  It is a pure function: the candidate     *)
(* sources of a record, the decision stored the last time and, when a      *)
(* reviewer chose one, the manual source, give the next decision.          *)
(*                                                                         *)
(* A candidate is a record of the media facts the policy reads.  A fact    *)
(* that was not measured is 0.  SetKey is the hash the code takes of every *)
(* fact of every candidate.                                                *)
(***************************************************************************)
EXTENDS Integers

CONSTANTS NoSource,    \* the absent source of a decision, and of a call without a manual choice
          SetKey(_)    \* the key of a candidate set

PolicyVersion == "quality-policy-v1"

Lossless == {"FLAC", "ALAC"}
Lossy == {"OPUS", "AAC", "MP3", "VORBIS"}
CodecRank == [FLAC |-> 5, ALAC |-> 4, OPUS |-> 3, AAC |-> 2, MP3 |-> 1, VORBIS |-> 0]
ExcludedStates == {"disappeared", "quarantined", "unsupported", "failed", "invalid_audio"}

NoQuality == <<>>

\* The facts a codec of either family must have, and the one it must not have.
Measured(c) ==
  \/ c.codec \in Lossless /\ c.depth > 0 /\ c.rate > 0 /\ c.channels > 0 /\ c.bitrate = 0
  \/ c.codec \in Lossy /\ c.rate > 0 /\ c.channels > 0 /\ c.bitrate > 0 /\ c.depth = 0

Eligible(c) ==
  /\ c.confirmed
  /\ ~c.disappeared
  /\ c.state \notin ExcludedStates
  /\ Measured(c)

QualityTuple(c) ==
  IF ~Eligible(c) THEN NoQuality
  ELSE <<1, IF c.codec \in Lossless THEN 2 ELSE 1, CodecRank[c.codec],
         c.depth, c.rate, c.channels, c.bitrate>>

\* Python compares tuples of equal length position by position.
Greater(a, b) ==
  \E i \in 1..7 : a[i] > b[i] /\ \A j \in 1..(i - 1) : a[j] = b[j]

StrictlyBetter(c, quality) == Eligible(c) /\ Greater(QualityTuple(c), quality)

EligibleOf(candidates) == {c \in candidates : Eligible(c)}

\* c comes first in the order of min: by quality, and by source id among equals.
Leads(c, d) ==
  \/ Greater(QualityTuple(c), QualityTuple(d))
  \/ QualityTuple(c) = QualityTuple(d) /\ c.id <= d.id

Best(candidates) ==
  CHOOSE c \in EligibleOf(candidates) : \A d \in EligibleOf(candidates) : Leads(c, d)

NoDecision == [source |-> NoSource, baseline |-> NoSource, version |-> PolicyVersion,
               quality |-> NoQuality, key |-> SetKey({})]

Select(c, baseline, candidates) ==
  [source |-> c.id, baseline |-> baseline, version |-> PolicyVersion,
   quality |-> QualityTuple(c), key |-> SetKey(candidates)]

Retain(previous, candidates) ==
  [source |-> previous.source, baseline |-> previous.baseline, version |-> PolicyVersion,
   quality |-> previous.quality, key |-> SetKey(candidates)]

ManualAllowed(candidates, manual) == \E c \in EligibleOf(candidates) : c.id = manual

\* The decision of a record that a reviewer gave a baseline, once a source was selected.
EvaluateBaseline(candidates, previous) ==
  LET eligible == EligibleOf(candidates)
      winner == Best(candidates)
      current == \E c \in eligible : c.id = previous.source
  IN  CASE ~current /\ eligible # {} -> Select(winner, previous.baseline, candidates)
        [] current /\ SetKey(candidates) = previous.key -> previous
        [] eligible = {} -> Retain(previous, candidates)
        [] OTHER -> IF StrictlyBetter(winner, previous.quality)
                    THEN Select(winner, previous.baseline, candidates)
                    ELSE Retain(previous, candidates)

EvaluateAutomatic(candidates, previous) ==
  LET eligible == EligibleOf(candidates)
      winner == Best(candidates)
      current == \E c \in eligible : c.id = previous.source
  IN  IF eligible = {} THEN Retain(previous, candidates)
      ELSE IF ~current \/ StrictlyBetter(winner, previous.quality)
           THEN Select(winner, NoSource, candidates)
           ELSE Retain(previous, candidates)

\* The caller of Evaluate with a manual source checks ManualAllowed first: the code raises otherwise.
Evaluate(candidates, previous, manual) ==
  IF manual # NoSource
  THEN Select(CHOOSE c \in EligibleOf(candidates) : c.id = manual, manual, candidates)
  ELSE IF previous.version # PolicyVersion THEN Retain(previous, candidates)
  ELSE IF previous.source = NoSource \/ previous.quality = NoQuality
       THEN IF EligibleOf(candidates) = {} THEN [NoDecision EXCEPT !.key = SetKey(candidates)]
            ELSE Select(Best(candidates), NoSource, candidates)
  ELSE IF previous.baseline # NoSource THEN EvaluateBaseline(candidates, previous)
  ELSE EvaluateAutomatic(candidates, previous)
=============================================================================
