------------------------ MODULE LibraryRecordProofs ------------------------
(***************************************************************************)
(* What the quality policy guarantees for any set of candidates, and what  *)
(* the chain of jobs around it keeps of that although every link decides   *)
(* from what it read before it held a lock.                                *)
(***************************************************************************)
EXTENDS LibraryRecord, FiniteSetTheorems, SequenceTheorems, WellFoundedInduction, TLAPS

(* The order of the quality tuples.                                         *)

Tuples == [1..7 -> Nat]

\* What the policy reads: ids of sources, and measured facts that are counts.
WellFormed(c) == c.id \in Nat \ {NoSource} /\ {c.depth, c.rate, c.channels, c.bitrate} \subseteq Nat
AllWellFormed(candidates) == \A c \in candidates : WellFormed(c)

\* The comparison of two quality tuples (quality_policy.py:212) never goes both ways.
LEMMA GreaterAsymmetric ==
  ASSUME NEW a \in Tuples, NEW b \in Tuples, Greater(a, b)
  PROVE  ~Greater(b, a)
<1>1. PICK i \in 1..7 : a[i] > b[i] /\ \A j \in 1..(i - 1) : a[j] = b[j]
  BY DEF Greater
<1>2. SUFFICES ASSUME NEW k \in 1..7, b[k] > a[k], \A j \in 1..(k - 1) : b[j] = a[j]
               PROVE  FALSE
  BY DEF Greater
<1>3. a[i] \in Nat /\ b[i] \in Nat /\ a[k] \in Nat /\ b[k] \in Nat
  BY DEF Tuples
<1>4. CASE i = k
  BY <1>1, <1>2, <1>3, <1>4
<1>5. CASE i < k
  <2>1. i \in 1..(k - 1)
    BY <1>5
  <2> QED
    BY <2>1, <1>1, <1>2, <1>3
<1>6. CASE k < i
  <2>1. k \in 1..(i - 1)
    BY <1>6
  <2> QED
    BY <2>1, <1>1, <1>2, <1>3
<1> QED
  BY <1>4, <1>5, <1>6

\* Two comparisons in a row agree with the direct one: min() over the candidates is well defined.
LEMMA GreaterTransitive ==
  ASSUME NEW a \in Tuples, NEW b \in Tuples, NEW c \in Tuples, Greater(a, b), Greater(b, c)
  PROVE  Greater(a, c)
<1>1. PICK i \in 1..7 : a[i] > b[i] /\ \A j \in 1..(i - 1) : a[j] = b[j]
  BY DEF Greater
<1>2. PICK k \in 1..7 : b[k] > c[k] /\ \A j \in 1..(k - 1) : b[j] = c[j]
  BY DEF Greater
<1>3. \A n \in 1..7 : a[n] \in Nat /\ b[n] \in Nat /\ c[n] \in Nat
  BY DEF Tuples
<1>4. CASE i <= k
  <2>1. a[i] > c[i]
    <3>1. CASE i = k
      BY <3>1, <1>1, <1>2, <1>3
    <3>2. CASE i < k
      <4>1. i \in 1..(k - 1)
        BY <3>2
      <4> QED
        BY <4>1, <1>1, <1>2, <1>3
    <3> QED
      BY <1>4, <3>1, <3>2
  <2>2. \A j \in 1..(i - 1) : a[j] = c[j]
    <3>1. \A j \in 1..(i - 1) : j \in 1..(k - 1)
      BY <1>4
    <3> QED
      BY <3>1, <1>1, <1>2
  <2> QED
    BY <2>1, <2>2 DEF Greater
<1>5. CASE k < i
  <2>1. k \in 1..(i - 1)
    BY <1>5
  <2>2. a[k] > c[k]
    BY <2>1, <1>1, <1>2, <1>3
  <2>3. \A j \in 1..(k - 1) : j \in 1..(i - 1)
    BY <1>5
  <2>4. \A j \in 1..(k - 1) : a[j] = c[j]
    BY <2>3, <1>1, <1>2
  <2> QED
    BY <2>2, <2>4 DEF Greater
<1> QED
  BY <1>4, <1>5

\* Two tuples that differ are ordered by the first position where they do.
LEMMA GreaterTotal ==
  ASSUME NEW a \in Tuples, NEW b \in Tuples, a # b
  PROVE  Greater(a, b) \/ Greater(b, a)
<1> DEFINE differ == {i \in 1..7 : a[i] # b[i]}
<1>1. differ # {}
  BY DEF Tuples
<1>2. PICK i \in differ : \A j \in differ : ~(<<j, i>> \in OpToRel(<, Nat))
  <2>1. differ \subseteq Nat
    OBVIOUS
  <2> QED
    BY <2>1, <1>1, NatLessThanWellFounded, WFMin
<1>3. \A j \in 1..(i - 1) : a[j] = b[j]
  <2>1. SUFFICES ASSUME NEW j \in 1..(i - 1), a[j] # b[j]
                 PROVE  FALSE
    OBVIOUS
  <2>2. j \in differ /\ j \in Nat /\ i \in Nat /\ j < i
    BY <2>1
  <2>3. <<j, i>> \in OpToRel(<, Nat)
    BY <2>2 DEF OpToRel
  <2> QED
    BY <2>2, <2>3, <1>2
<1>4. a[i] \in Nat /\ b[i] \in Nat /\ a[i] # b[i] /\ i \in 1..7
  BY DEF Tuples
<1>5. a[i] > b[i] \/ b[i] > a[i]
  BY <1>4
<1> QED
  BY <1>3, <1>4, <1>5 DEF Greater

-----------------------------------------------------------------------------
(* One evaluation.                                                          *)

\* The tuple of an eligible source holds seven counts (quality_policy.py:145-171).
LEMMA TupleOfEligible ==
  ASSUME NEW c, WellFormed(c), Eligible(c)
  PROVE  QualityTuple(c) \in Tuples
<1>1. c.codec \in Lossless \cup Lossy
  BY DEF Eligible, Measured
<1>2. CodecRank[c.codec] \in Nat
  BY <1>1 DEF CodecRank, Lossless, Lossy
<1>3. c.depth \in Nat /\ c.rate \in Nat /\ c.channels \in Nat /\ c.bitrate \in Nat
  BY DEF WellFormed
<1>4. QualityTuple(c) = <<1, IF c.codec \in Lossless THEN 2 ELSE 1, CodecRank[c.codec],
                          c.depth, c.rate, c.channels, c.bitrate>>
  BY DEF QualityTuple
<1> QED
  BY <1>2, <1>3, <1>4 DEF Tuples

\* c comes before d for min(): it leads, and is not led.
Before(c, d) ==
  \/ Greater(QualityTuple(c), QualityTuple(d))
  \/ QualityTuple(c) = QualityTuple(d) /\ c.id < d.id

\* The winner of _best exists in every finite set of candidates (quality_policy.py:180): the eligible one
\* that the fewest others come before.
LEMMA BestExists ==
  ASSUME NEW candidates, IsFiniteSet(candidates), AllWellFormed(candidates), EligibleOf(candidates) # {}
  PROVE  \E c \in EligibleOf(candidates) : \A d \in EligibleOf(candidates) : Leads(c, d)
<1> DEFINE eligible == EligibleOf(candidates)
           ahead(c) == {d \in eligible : Before(d, c)}
           counts == {Cardinality(ahead(c)) : c \in eligible}
<1>1. IsFiniteSet(eligible) /\ \A c \in eligible : IsFiniteSet(ahead(c))
  BY FS_Subset DEF EligibleOf
<1>2. counts \subseteq Nat /\ counts # {}
  BY <1>1, FS_CardinalityType
<1>3. PICK c \in eligible : \A d \in eligible : ~(Cardinality(ahead(d)) < Cardinality(ahead(c)))
  <2>1. PICK n \in counts : \A m \in counts : ~(<<m, n>> \in OpToRel(<, Nat))
    BY <1>2, NatLessThanWellFounded, WFMin
  <2>2. \A m \in counts : ~(m < n)
    BY <2>1, <1>2 DEF OpToRel
  <2> QED
    BY <2>2
<1>4. \A d \in eligible : d.id \in Nat /\ QualityTuple(d) \in Tuples
  BY TupleOfEligible DEF EligibleOf, AllWellFormed, WellFormed
<1>5. SUFFICES ASSUME NEW d \in eligible, ~Leads(c, d)
               PROVE  FALSE
  OBVIOUS
<1>6. Before(d, c)
  BY <1>4, <1>5, GreaterTotal DEF Leads, Before
<1>7. \A e \in ahead(d) : e \in ahead(c)
  <2>1. SUFFICES ASSUME NEW e \in eligible, Before(e, d)
                 PROVE  Before(e, c)
    OBVIOUS
  <2>2. CASE Greater(QualityTuple(e), QualityTuple(d)) /\ Greater(QualityTuple(d), QualityTuple(c))
    BY <2>2, <1>4, GreaterTransitive DEF Before
  <2>3. CASE ~(Greater(QualityTuple(e), QualityTuple(d)) /\ Greater(QualityTuple(d), QualityTuple(c)))
    BY <2>1, <2>3, <1>4, <1>6 DEF Before
  <2> QED
    BY <2>2, <2>3
<1>8. d \in ahead(c) /\ d \notin ahead(d)
  BY <1>4, <1>6, GreaterAsymmetric DEF Before
<1>9. ahead(d) \subseteq ahead(c) \ {d}
  BY <1>7, <1>8
<1>10. /\ IsFiniteSet(ahead(c) \ {d}) /\ Cardinality(ahead(c) \ {d}) = Cardinality(ahead(c)) - 1
       /\ Cardinality(ahead(d)) <= Cardinality(ahead(c) \ {d})
  BY <1>1, <1>8, <1>9, FS_RemoveElement, FS_Subset
<1>11. Cardinality(ahead(d)) \in Nat /\ Cardinality(ahead(c)) \in Nat
  BY <1>1, FS_CardinalityType
<1> QED
  <2> HIDE DEF ahead, eligible
  <2> QED
    BY <1>3, <1>10, <1>11

\* The best of the candidates is one of the eligible ones.
LEMMA BestIsEligible ==
  ASSUME NEW candidates, IsFiniteSet(candidates), AllWellFormed(candidates), EligibleOf(candidates) # {}
  PROVE  Best(candidates) \in EligibleOf(candidates)
BY BestExists DEF Best

\* A measured quality is a tuple, never the absent one.
LEMMA QualityOfEligible ==
  ASSUME NEW c, Eligible(c)
  PROVE  QualityTuple(c) # NoQuality
BY DEF QualityTuple, NoQuality

\* A source that stays eligible is replaced, whether a reviewer chose it or not, only by a source
\* strictly better than the quality it was chosen for (quality_policy.py:113-138).
THEOREM OnlyBetterReplaces ==
  ASSUME NEW candidates, NEW previous,
         previous.version = PolicyVersion,
         previous.source # NoSource, previous.quality # NoQuality,
         \E c \in EligibleOf(candidates) : c.id = previous.source,
         Evaluate(candidates, previous, NoSource).source # previous.source
  PROVE  Greater(Evaluate(candidates, previous, NoSource).quality, previous.quality)
<1>1. EligibleOf(candidates) # {}
  OBVIOUS
<1>2. Retain(previous, candidates).source = previous.source
  BY DEF Retain
<1> DEFINE better == StrictlyBetter(Best(candidates), previous.quality)
<1>3. ASSUME NEW b, better
      PROVE  Greater(Select(Best(candidates), b, candidates).quality, previous.quality)
  BY <1>3 DEF Select, StrictlyBetter
<1>4. CASE previous.baseline # NoSource
  <2>1. Evaluate(candidates, previous, NoSource) = EvaluateBaseline(candidates, previous)
    BY <1>4 DEF Evaluate
  <2>2. EvaluateBaseline(candidates, previous) \in
          {previous, Retain(previous, candidates)} \cup
          (IF better THEN {Select(Best(candidates), previous.baseline, candidates)} ELSE {})
    BY <1>1 DEF EvaluateBaseline
  <2> QED
    BY <2>1, <2>2, <1>2, <1>3
<1>5. CASE previous.baseline = NoSource
  <2>1. Evaluate(candidates, previous, NoSource) = EvaluateAutomatic(candidates, previous)
    BY <1>5 DEF Evaluate
  <2>2. EvaluateAutomatic(candidates, previous) \in
          {Retain(previous, candidates)} \cup
          (IF better THEN {Select(Best(candidates), NoSource, candidates)} ELSE {})
    BY <1>1 DEF EvaluateAutomatic
  <2> QED
    BY <2>1, <2>2, <1>2, <1>3
<1> QED
  BY <1>4, <1>5

-----------------------------------------------------------------------------
(* Evaluating again.                                                        *)

\* No tuple is greater than itself, so the source a decision was just taken for is no replacement of it.
LEMMA NotBetterThanItself ==
  ASSUME NEW c, WellFormed(c)
  PROVE  ~StrictlyBetter(c, QualityTuple(c))
BY TupleOfEligible, GreaterAsymmetric DEF StrictlyBetter

\* What a selection leaves behind is stable under the same candidates: with a baseline because the
\* candidate set is the one it was taken for, without one because the winner does not beat itself.
LEMMA SelectionIsStable ==
  ASSUME NEW candidates, AllWellFormed(candidates),
         NEW w \in EligibleOf(candidates), NEW baseline,
         baseline = NoSource => w = Best(candidates)
  PROVE  LET d == Select(w, baseline, candidates)
         IN  Evaluate(candidates, d, NoSource) = d
<1> DEFINE d == Select(w, baseline, candidates)
<1>1. /\ d.source = w.id /\ d.baseline = baseline /\ d.version = PolicyVersion
      /\ d.quality = QualityTuple(w) /\ d.key = SetKey(candidates)
  BY DEF Select
<1>2. d.source # NoSource /\ d.quality # NoQuality
  BY <1>1, QualityOfEligible DEF AllWellFormed, WellFormed, EligibleOf
<1>3. EligibleOf(candidates) # {} /\ \E c \in EligibleOf(candidates) : c.id = d.source
  BY <1>1
<1>4. CASE baseline # NoSource
  <2>1. Evaluate(candidates, d, NoSource) = EvaluateBaseline(candidates, d)
    BY <1>1, <1>2, <1>4 DEF Evaluate
  <2>2. EvaluateBaseline(candidates, d) = d
    BY <1>1, <1>3 DEF EvaluateBaseline
  <2> QED
    BY <2>1, <2>2
<1>5. CASE baseline = NoSource
  <2>1. Evaluate(candidates, d, NoSource) = EvaluateAutomatic(candidates, d)
    BY <1>1, <1>2, <1>5 DEF Evaluate
  <2>2. ~StrictlyBetter(Best(candidates), d.quality)
    BY <1>1, <1>5, NotBetterThanItself DEF AllWellFormed, EligibleOf
  <2>3. EvaluateAutomatic(candidates, d) = Retain(d, candidates)
    BY <1>3, <2>2 DEF EvaluateAutomatic
  <2>4. Retain(d, candidates) = d
    BY DEF Retain, Select
  <2> QED
    BY <2>1, <2>3, <2>4
<1> QED
  BY <1>4, <1>5

\* The reviewer's choice survives the refresh that follows it (quality_policy.py:95-99): the same
\* candidates give the same decision, however much better another of them is.
THEOREM ManualChoiceHolds ==
  ASSUME NEW candidates, AllWellFormed(candidates), NEW previous,
         NEW manual, manual # NoSource, ManualAllowed(candidates, manual)
  PROVE  LET d == Evaluate(candidates, previous, manual)
         IN  d.source = manual /\ Evaluate(candidates, d, NoSource) = d
<1> DEFINE w == CHOOSE c \in EligibleOf(candidates) : c.id = manual
<1>1. w \in EligibleOf(candidates) /\ w.id = manual
  BY DEF ManualAllowed
<1>2. Evaluate(candidates, previous, manual) = Select(w, manual, candidates)
  BY DEF Evaluate
<1>3. Select(w, manual, candidates).source = manual
  BY <1>1 DEF Select
<1> HIDE DEF w
<1>4. Evaluate(candidates, Select(w, manual, candidates), NoSource) = Select(w, manual, candidates)
  BY <1>1, SelectionIsStable
<1> QED
  BY <1>2, <1>3, <1>4

\* Once evaluated under the current policy, the same candidates change nothing more: every refresh,
\* publish and association evaluates the record again, and none of them flips it back.
THEOREM EvaluationSettles ==
  ASSUME NEW candidates, IsFiniteSet(candidates), AllWellFormed(candidates),
         NEW previous, previous.version = PolicyVersion
  PROVE  LET d == Evaluate(candidates, previous, NoSource)
         IN  Evaluate(candidates, d, NoSource) = d
<1> DEFINE eligible == EligibleOf(candidates)
           winner == Best(candidates)
           kept == Retain(previous, candidates)
           stays == \E c \in eligible : c.id = previous.source
<1>1. kept = [source |-> previous.source, baseline |-> previous.baseline, version |-> PolicyVersion,
              quality |-> previous.quality, key |-> SetKey(candidates)]
  BY DEF Retain
<1>2. Retain(kept, candidates) = kept
  BY <1>1 DEF Retain
<1>3. ASSUME eligible # {}
      PROVE  winner \in eligible
  BY <1>3, BestIsEligible
<1>4. ASSUME NEW b, eligible # {}
      PROVE  Evaluate(candidates, Select(winner, b, candidates), NoSource) = Select(winner, b, candidates)
  BY <1>3, <1>4, SelectionIsStable
<1>5. CASE previous.source = NoSource \/ previous.quality = NoQuality
  <2>1. CASE eligible = {}
    <3>1. Evaluate(candidates, previous, NoSource) = [NoDecision EXCEPT !.key = SetKey(candidates)]
      BY <1>5, <2>1 DEF Evaluate
    <3>2. Evaluate(candidates, [NoDecision EXCEPT !.key = SetKey(candidates)], NoSource)
            = [NoDecision EXCEPT !.key = SetKey(candidates)]
      BY <2>1 DEF Evaluate, NoDecision
    <3> QED
      BY <3>1, <3>2
  <2>2. CASE eligible # {}
    <3>1. Evaluate(candidates, previous, NoSource) = Select(winner, NoSource, candidates)
      BY <1>5, <2>2 DEF Evaluate
    <3> QED
      BY <3>1, <2>2, <1>4
  <2> QED
    BY <2>1, <2>2
<1>6. CASE previous.source # NoSource /\ previous.quality # NoQuality /\ previous.baseline # NoSource
  <2>1. /\ Evaluate(candidates, previous, NoSource) = EvaluateBaseline(candidates, previous)
        /\ Evaluate(candidates, kept, NoSource) = EvaluateBaseline(candidates, kept)
    BY <1>1, <1>6 DEF Evaluate
  <2>2. CASE ~stays /\ eligible # {}
    <3>1. EvaluateBaseline(candidates, previous) = Select(winner, previous.baseline, candidates)
      BY <2>2 DEF EvaluateBaseline
    <3> QED
      BY <3>1, <2>1, <2>2, <1>4
  <2>3. CASE stays /\ SetKey(candidates) = previous.key
    <3>1. EvaluateBaseline(candidates, previous) = previous
      BY <2>3 DEF EvaluateBaseline
    <3> QED
      BY <3>1, <2>1
  <2>4. CASE eligible = {}
    <3>1. /\ EvaluateBaseline(candidates, previous) = kept
          /\ EvaluateBaseline(candidates, kept) = Retain(kept, candidates)
      BY <2>4 DEF EvaluateBaseline
    <3> QED
      BY <3>1, <2>1, <1>2
  <2>5. CASE stays /\ SetKey(candidates) # previous.key
    <3>1. eligible # {}
      BY <2>5
    <3>2. CASE StrictlyBetter(winner, previous.quality)
      <4>1. EvaluateBaseline(candidates, previous) = Select(winner, previous.baseline, candidates)
        BY <2>5, <3>1, <3>2 DEF EvaluateBaseline
      <4> QED
        BY <4>1, <2>1, <3>1, <1>4
    <3>3. CASE ~StrictlyBetter(winner, previous.quality)
      <4>1. EvaluateBaseline(candidates, previous) = kept
        BY <2>5, <3>1, <3>3 DEF EvaluateBaseline
      <4>2. EvaluateBaseline(candidates, kept) = kept
        BY <2>5, <1>1 DEF EvaluateBaseline
      <4> QED
        BY <4>1, <4>2, <2>1
    <3> QED
      BY <3>2, <3>3
  <2> QED
    BY <2>2, <2>3, <2>4, <2>5
<1>7. CASE previous.source # NoSource /\ previous.quality # NoQuality /\ previous.baseline = NoSource
  <2>1. /\ Evaluate(candidates, previous, NoSource) = EvaluateAutomatic(candidates, previous)
        /\ Evaluate(candidates, kept, NoSource) = EvaluateAutomatic(candidates, kept)
    BY <1>1, <1>7 DEF Evaluate
  <2>2. CASE eligible # {} /\ (~stays \/ StrictlyBetter(winner, previous.quality))
    <3>1. EvaluateAutomatic(candidates, previous) = Select(winner, NoSource, candidates)
      BY <2>2 DEF EvaluateAutomatic
    <3> QED
      BY <3>1, <2>1, <2>2, <1>4
  <2>3. CASE eligible = {} \/ (stays /\ ~StrictlyBetter(winner, previous.quality))
    <3>1. /\ EvaluateAutomatic(candidates, previous) = kept
          /\ EvaluateAutomatic(candidates, kept) = Retain(kept, candidates)
      BY <2>3, <1>1 DEF EvaluateAutomatic
    <3> QED
      BY <3>1, <2>1, <1>2
  <2> QED
    BY <2>2, <2>3
<1> QED
  BY <1>5, <1>6, <1>7

-----------------------------------------------------------------------------
(* What an evaluation may change, whatever the stored decision is.          *)

\* A decision is kept, or goes to the best candidate.
LEMMA ChangeIsBest ==
  ASSUME NEW candidates, EligibleOf(candidates) # {}, NEW previous,
         Evaluate(candidates, previous, NoSource).source # previous.source
  PROVE  Evaluate(candidates, previous, NoSource).source = Best(candidates).id
<1>1. Retain(previous, candidates).source = previous.source
  BY DEF Retain
<1>2. \A b : Select(Best(candidates), b, candidates).source = Best(candidates).id
  BY DEF Select
<1>3. \/ Evaluate(candidates, previous, NoSource) \in {previous, Retain(previous, candidates)}
      \/ \E b : Evaluate(candidates, previous, NoSource) = Select(Best(candidates), b, candidates)
  BY DEF Evaluate, EvaluateBaseline, EvaluateAutomatic
<1> QED
  BY <1>1, <1>2, <1>3

\* A source that is not eligible any more is replaced by the best candidate.
LEMMA LostIsReplaced ==
  ASSUME NEW candidates, EligibleOf(candidates) # {}, NEW previous, previous.version = PolicyVersion,
         ~\E c \in EligibleOf(candidates) : c.id = previous.source
  PROVE  Evaluate(candidates, previous, NoSource).source = Best(candidates).id
<1>1. \A b : Select(Best(candidates), b, candidates).source = Best(candidates).id
  BY DEF Select
<1>2. \E b : Evaluate(candidates, previous, NoSource) = Select(Best(candidates), b, candidates)
  BY DEF Evaluate, EvaluateBaseline, EvaluateAutomatic
<1> QED
  BY <1>1, <1>2

\* A decision names the current policy and the candidates it was taken for.
LEMMA EvaluatedFor ==
  ASSUME NEW candidates, NEW previous
  PROVE  /\ Evaluate(candidates, previous, NoSource).version = PolicyVersion
         /\ Evaluate(candidates, previous, NoSource).key = SetKey(candidates)
<1> DEFINE e == Evaluate(candidates, previous, NoSource)
<1>1. \/ e = Retain(previous, candidates)
      \/ e = [NoDecision EXCEPT !.key = SetKey(candidates)]
      \/ e = previous /\ previous.version = PolicyVersion /\ SetKey(candidates) = previous.key
      \/ \E b : e = Select(Best(candidates), b, candidates)
  BY DEF Evaluate, EvaluateBaseline, EvaluateAutomatic
<1> QED
  BY <1>1 DEF Retain, NoDecision, Select

\* A source that stays eligible and whose quality is stored is left for a strictly better one only.
LEMMA KeptOrImproved ==
  ASSUME NEW candidates, NEW previous, previous.source # NoSource, previous.quality # NoQuality,
         \E c \in EligibleOf(candidates) : c.id = previous.source,
         Evaluate(candidates, previous, NoSource).source # previous.source
  PROVE  Greater(Evaluate(candidates, previous, NoSource).quality, previous.quality)
<1>1. CASE previous.version = PolicyVersion
  BY <1>1, OnlyBetterReplaces
<1>2. CASE previous.version # PolicyVersion
  BY <1>2 DEF Evaluate, Retain
<1> QED
  BY <1>1, <1>2

-----------------------------------------------------------------------------
(* The invariant.                                                           *)

RevisionRow == [record : Record, source : Source \cup {NoSource}, path : Path, provider : BOOLEAN]
AttemptRow == [record : Record, source : Source, revision : Nat,
               state : Pending \cup {"failed", "finalized", "deleted"}]

\* A reviewer's request names sources and records, also those that are gone when it writes.
RequestInv ==
  request # Nothing =>
    /\ "op" \in DOMAIN request
    /\ request.op = "edit" => request.record \in Record /\ request.source \in Source /\ request.path \in Path
    /\ (request.op = "remap" /\ request.album # Nothing) => request.album \subseteq Source

\* The tables hold rows of this model; a decision, which is only ever evaluated or flushed, is left open.
TablesInv ==
  /\ owner \in [Source -> Record \cup {NoRecord}] /\ usable \in [Source -> BOOLEAN]
  /\ decision = [r \in Record |-> decision[r]]
  /\ waits = [r \in Record |-> waits[r]]
  /\ publish = [s \in Source |->
       [state |-> publish[s].state, revision |-> publish[s].revision, view |-> publish[s].view]]
  /\ revisions \in Seq(RevisionRow) /\ attempts \in Seq(AttemptRow)
  /\ RequestInv

\* A publish row names a revision of its source, which may be one of another record.
OwnRow(s) ==
  publish[s].state # "none" =>
    publish[s].revision \in DOMAIN revisions /\ revisions[publish[s].revision].source = s

OwnAttempt(a) ==
  attempts[a].state # "deleted" =>
    LET i == attempts[a].revision
    IN  i \in DOMAIN revisions /\ revisions[i].record = attempts[a].record /\ revisions[i].source = attempts[a].source

Known(s) == \E i \in DOMAIN revisions : revisions[i].source = s

LogInv ==
  /\ \A s \in Source : OwnRow(s)
  /\ \A a \in DOMAIN attempts : OwnAttempt(a)
  /\ \A r \in Record : Locked(r) => Known(waits[r].source)

\* What was decided before a lock was held was decided for some candidates of the record.
DecidedFor(d, loaded, r) ==
  \E owners \in [Source -> Record \cup {NoRecord}], usables \in [Source -> BOOLEAN] :
    d = Evaluate(CandidatesIn(owners, usables, r), loaded, NoSource)

\* While a refresh waits, nobody else decides for its record.
Waited(r) ==
  \E loaded : /\ DecidedFor(waits[r].decided, loaded, r)
              /\ loaded.source = decision[r].source /\ loaded.quality = decision[r].quality

Evaluated(s) == LET view == publish[s].view IN DecidedFor(view.decided, view.loaded, view.record)

DecisionInv ==
  /\ \A r \in Record : Locked(r) => Waited(r)
  /\ \A s \in Source : Executing(s) => Evaluated(s)

\* An import is one of a source, for the record it was read with.
ImportInv ==
  import # Nothing =>
    /\ import = [source |-> import.source, record |-> import.record, view |-> import.view]
    /\ import.source \in Source /\ import.record \in Record
    /\ import.view # Nothing => DecidedFor(import.view.decided, import.view.loaded, import.record)

Inv == TablesInv /\ LogInv /\ DecisionInv

-----------------------------------------------------------------------------
(* The operators of the model.                                              *)

\* The latest of some revisions is one of them.
LEMMA MaxOfMany ==
  ASSUME NEW n \in Nat, NEW S, S \subseteq 1..n, S # {}
  PROVE  Max0(S) \in S /\ Max0(S) # 0 /\ \A i \in S : i <= Max0(S)
<1> DEFINE down == {n - i : i \in S}
<1>2. down \subseteq Nat /\ down # {}
  <2>1. \A i \in S : n - i \in Nat
    OBVIOUS
  <2> QED
    BY <2>1
<1>3. PICK k \in down : \A j \in down : ~(<<j, k>> \in OpToRel(<, Nat))
  BY <1>2, NatLessThanWellFounded, WFMin
<1>4. PICK m \in S : k = n - m
  OBVIOUS
<1>5. \A i \in S : i <= m
  <2>1. SUFFICES ASSUME NEW i \in S, ~(i <= m)
                 PROVE  FALSE
    OBVIOUS
  <2>2. i \in Nat /\ m \in Nat /\ i \in 1..n /\ m \in 1..n
    OBVIOUS
  <2>3. n - i \in down /\ n - i < n - m /\ n - i \in Nat /\ n - m \in Nat
    BY <2>1, <2>2
  <2>4. <<n - i, n - m>> \in OpToRel(<, Nat)
    BY <2>3 DEF OpToRel
  <2> QED
    BY <2>3, <2>4, <1>3, <1>4
<1>6. \E x \in S : \A i \in S : i <= x
  BY <1>5
<1>7. Max0(S) \in S /\ \A i \in S : i <= Max0(S)
  BY <1>6 DEF Max0
<1>8. \A i \in S : i # 0
  OBVIOUS
<1> QED
  BY <1>7, <1>8

LEMMA LatestIsOne ==
  ASSUME NEW n \in Nat, NEW S, S \subseteq 1..n, Max0(S) # 0
  PROVE  Max0(S) \in S
BY MaxOfMany DEF Max0

LEMMA LatestFinalRow ==
  ASSUME revisions \in Seq(RevisionRow), NEW r, NEW s, LatestFinal(r, s) # 0
  PROVE  /\ LatestFinal(r, s) \in DOMAIN revisions
         /\ revisions[LatestFinal(r, s)].record = r /\ revisions[LatestFinal(r, s)].source = s
<1> DEFINE S == {i \in DOMAIN revisions : revisions[i].record = r /\ revisions[i].source = s}
<1>1. Len(revisions) \in Nat /\ S \subseteq 1..Len(revisions)
  BY LenProperties
<1>2. LatestFinal(r, s) = Max0(S)
  BY DEF LatestFinal
<1>3. Max0(S) \in S
  <2> HIDE DEF S
  <2> QED
    BY <1>1, <1>2, LatestIsOne
<1> QED
  BY <1>2, <1>3

LEMMA LatestAnywhereRow ==
  ASSUME revisions \in Seq(RevisionRow), NEW s, LatestAnywhere(s) # 0
  PROVE  LatestAnywhere(s) \in DOMAIN revisions /\ revisions[LatestAnywhere(s)].source = s
<1> DEFINE S == {i \in DOMAIN revisions : revisions[i].source = s}
<1>1. Len(revisions) \in Nat /\ S \subseteq 1..Len(revisions)
  BY LenProperties
<1>2. LatestAnywhere(s) = Max0(S)
  BY DEF LatestAnywhere
<1>3. Max0(S) \in S
  <2> HIDE DEF S
  <2> QED
    BY <1>1, <1>2, LatestIsOne
<1> QED
  BY <1>2, <1>3

LEMMA ProviderFinalRow ==
  ASSUME revisions \in Seq(RevisionRow), NEW r, ProviderFinal(r) # 0
  PROVE  ProviderFinal(r) \in DOMAIN revisions
<1> DEFINE S == {i \in DOMAIN revisions : revisions[i].record = r /\ revisions[i].provider}
<1>1. Len(revisions) \in Nat /\ S \subseteq 1..Len(revisions)
  BY LenProperties
<1>2. ProviderFinal(r) = Max0(S)
  BY DEF ProviderFinal
<1>3. Max0(S) \in S
  <2> HIDE DEF S
  <2> QED
    BY <1>1, <1>2, LatestIsOne
<1> QED
  BY <1>2, <1>3

\* A finite set can be enumerated.
LEMMA Enumerated ==
  ASSUME NEW S, IsFiniteSet(S)
  PROVE  SetToSeq(S) \in Seq(S) /\ DOMAIN SetToSeq(S) = 1..Len(SetToSeq(S)) /\ \A i \in DOMAIN SetToSeq(S) : SetToSeq(S)[i] \in S
<1>1. Cardinality(S) \in Nat /\ ExistsBijection(1..Cardinality(S), S)
  BY FS_CardinalityType
<1>2. \E f \in [1..Cardinality(S) -> S] : IsInjective(f)
  BY <1>1 DEF ExistsBijection, Bijection, Injection, IsInjective
<1>3. SetToSeq(S) \in [1..Cardinality(S) -> S]
  BY <1>2 DEF SetToSeq
<1>4. SetToSeq(S) \in Seq(S)
  BY <1>1, <1>3, SeqDef
<1> QED
  BY <1>4, LenProperties, ElementOfSeq

\* What a move appends are revisions of the sources that move.
LEMMA BroughtRows ==
  ASSUME TablesInv, NEW moved \in SUBSET Source, NEW target \in [moved -> Record]
  PROVE  Brought(target) \in Seq(RevisionRow)
<1> DEFINE bringing == {s \in DOMAIN target : Inherited(s, target[s]) # 0}
           order == SetToSeq(bringing)
           row(i) == Revision(target[order[i]], order[i], revisions[Inherited(order[i], target[order[i]])].path, FALSE)
<1>1. IsFiniteSet(bringing)
  BY LibraryRecordAssumption, FS_Subset
<1>2. /\ order \in Seq(bringing) /\ DOMAIN order = 1..Len(order) /\ Len(order) \in Nat
      /\ \A i \in DOMAIN order : order[i] \in bringing
  <2> HIDE DEF bringing
  <2> QED
    BY <1>1, Enumerated, LenProperties
<1>3. \A s \in bringing : Inherited(s, target[s]) \in DOMAIN revisions
  BY LatestFinalRow, ProviderFinalRow DEF Inherited, TablesInv
<1>4. \A i \in DOMAIN revisions : revisions[i] \in RevisionRow
  BY ElementOfSeq, LenProperties DEF TablesInv
<1>5. \A i \in 1..Len(order) : row(i) \in RevisionRow
  <2>1. SUFFICES ASSUME NEW i \in 1..Len(order)
                 PROVE  row(i) \in RevisionRow
    OBVIOUS
  <2>2. order[i] \in Source /\ target[order[i]] \in Record
    BY <1>2
  <2>3. revisions[Inherited(order[i], target[order[i]])].path \in Path
    BY <1>2, <1>3, <1>4 DEF RevisionRow
  <2> QED
    BY <2>2, <2>3 DEF RevisionRow, Revision
<1>6. Brought(target) = [i \in 1..Len(order) |-> row(i)]
  BY <1>2 DEF Brought
<1> HIDE DEF row, order
<1> QED
  BY <1>2, <1>5, <1>6, IsASeq

LEMMA FinalsRows ==
  ASSUME NEW moved \in SUBSET Source, NEW target \in [moved -> Record], NEW tagged \in SUBSET moved, NEW path \in Path
  PROVE  Finals(target, tagged, path) \in Seq(RevisionRow)
<1> DEFINE order == SetToSeq(tagged)
           row(i) == Revision(target[order[i]], order[i], path, FALSE)
<1>1. /\ order \in Seq(tagged) /\ DOMAIN order = 1..Len(order) /\ Len(order) \in Nat
      /\ \A i \in DOMAIN order : order[i] \in tagged
  BY LibraryRecordAssumption, FS_Subset, Enumerated, LenProperties
<1>2. \A i \in 1..Len(order) : row(i) \in RevisionRow
  BY <1>1 DEF RevisionRow, Revision
<1>3. Finals(target, tagged, path) = [i \in 1..Len(order) |-> row(i)]
  BY <1>1 DEF Finals
<1> HIDE DEF row, order
<1> QED
  BY <1>1, <1>2, <1>3, IsASeq

\* A source may be effective when it is a usable one of the record, and measured.
LEMMA EligibleIds ==
  ASSUME NEW owners, NEW usables, NEW r, NEW s
  PROVE  (\E c \in EligibleOf(CandidatesIn(owners, usables, r)) : c.id = s)
           <=> s \in Source /\ owners[s] = r /\ Eligible(Candidate(s, usables[s]))
<1>1. \A m : Candidate(m, usables[m]).id = m
  BY DEF Candidate
<1>2. ASSUME NEW c \in EligibleOf(CandidatesIn(owners, usables, r)), c.id = s
      PROVE  s \in Source /\ owners[s] = r /\ Eligible(Candidate(s, usables[s]))
  <2>1. PICK m \in {x \in Source : owners[x] = r} : c = Candidate(m, usables[m])
    BY DEF EligibleOf, CandidatesIn
  <2>2. m = s /\ Eligible(c)
    BY <1>1, <1>2, <2>1 DEF EligibleOf
  <2> QED
    BY <2>1, <2>2
<1>3. ASSUME s \in Source, owners[s] = r, Eligible(Candidate(s, usables[s]))
      PROVE  \E c \in EligibleOf(CandidatesIn(owners, usables, r)) : c.id = s
  <2>1. Candidate(s, usables[s]) \in EligibleOf(CandidatesIn(owners, usables, r))
    BY <1>3 DEF EligibleOf, CandidatesIn
  <2> QED
    BY <2>1, <1>1
<1> QED
  BY <1>2, <1>3

LEMMA EligibleAre ==
  ASSUME NEW owners, NEW usables, NEW r, NEW c \in EligibleOf(CandidatesIn(owners, usables, r))
  PROVE  c.id \in Source /\ owners[c.id] = r /\ Eligible(Candidate(c.id, usables[c.id]))
BY EligibleIds

LEMMA CandidatesWell ==
  ASSUME NEW owners, NEW usables, NEW r
  PROVE  IsFiniteSet(CandidatesIn(owners, usables, r)) /\ AllWellFormed(CandidatesIn(owners, usables, r))
<1> DEFINE members == {m \in Source : owners[m] = r}
<1>1. IsFiniteSet({Candidate(s, usables[s]) : s \in members})
  <2> DEFINE image == {Candidate(s, usables[s]) : s \in members}
             f == [s \in members |-> Candidate(s, usables[s])]
  <2>1. f \in Surjection(members, image)
    BY DEF Surjection
  <2>2. IsFiniteSet(members)
    BY FS_Subset, LibraryRecordAssumption
  <2>3. IsFiniteSet(image)
    <3> HIDE DEF f, image, members
    <3> QED
      BY <2>1, <2>2, FS_Surjection
  <2> QED
    BY <2>3
<1>2. \A s \in members : WellFormed(Candidate(s, usables[s]))
  <2>1. SUFFICES ASSUME NEW s \in Source
                 PROVE  WellFormed(Candidate(s, usables[s]))
    OBVIOUS
  <2>2. {Media[s].depth, Media[s].rate, Media[s].channels, Media[s].bitrate} \subseteq Nat /\ s \in Nat \ {NoSource}
    BY LibraryRecordAssumption
  <2> QED
    BY <2>2 DEF WellFormed, Candidate
<1> QED
  BY <1>1, <1>2 DEF CandidatesIn, AllWellFormed

LEMMA ChoosableIs ==
  ASSUME NEW r, NEW s
  PROVE  /\ s \in Choosable(r) <=> \E c \in EligibleOf(CandidatesIn(owner, usable, r)) : c.id = s
         /\ s \in Choosable(r)' <=> \E c \in EligibleOf(CandidatesIn(owner', usable', r)) : c.id = s
BY DEF Choosable, Candidates

LEMMA ChoosableShrinks ==
  ASSUME NEW r, usable \in [Source -> BOOLEAN], usable' \in [Source -> BOOLEAN],
         \A s \in Source : (owner'[s] = r => owner[s] = r) /\ (usable'[s] => usable[s])
  PROVE  Choosable(r)' \subseteq Choosable(r)
<1>1. SUFFICES ASSUME NEW s \in Choosable(r)'
               PROVE  s \in Choosable(r)
  OBVIOUS
<1>2. s \in Source /\ owner'[s] = r /\ Eligible(Candidate(s, usable'[s]))
  BY ChoosableIs, EligibleIds
<1>3. usable'[s] = TRUE
  BY <1>2 DEF Eligible, Candidate, ExcludedStates
<1>4. usable[s] = TRUE /\ owner[s] = r
  BY <1>2, <1>3
<1> QED
  <2>1. usable[s] = usable'[s]
    BY <1>3, <1>4
  <2> QED
    BY <1>2, <1>4, <2>1, ChoosableIs, EligibleIds

\* The log of revisions only grows.
Grows ==
  /\ revisions' \in Seq(RevisionRow) /\ DOMAIN revisions \subseteq DOMAIN revisions'
  /\ \A i \in DOMAIN revisions : revisions'[i] = revisions[i]

LEMMA Appended ==
  ASSUME revisions \in Seq(RevisionRow), NEW extra \in Seq(RevisionRow), revisions' = revisions \o extra
  PROVE  Grows
<1>1. /\ revisions' \in Seq(RevisionRow) /\ Len(revisions') = Len(revisions) + Len(extra)
      /\ \A i \in 1..Len(revisions) : revisions'[i] = revisions[i]
  BY ConcatProperties
<1>2. Len(revisions) \in Nat /\ Len(extra) \in Nat /\ DOMAIN revisions = 1..Len(revisions)
  BY LenProperties
<1>3. DOMAIN revisions' = 1..Len(revisions')
  BY <1>1, LenProperties
<1> QED
  BY <1>1, <1>2, <1>3 DEF Grows

LEMMA AppendedOne ==
  ASSUME revisions \in Seq(RevisionRow), NEW row \in RevisionRow, revisions' = Append(revisions, row)
  PROVE  Grows /\ Len(revisions) + 1 \in DOMAIN revisions' /\ revisions'[Len(revisions) + 1] = row
<1>1. /\ revisions' \in Seq(RevisionRow) /\ Len(revisions') = Len(revisions) + 1
      /\ \A i \in 1..Len(revisions) : revisions'[i] = revisions[i]
      /\ revisions'[Len(revisions) + 1] = row
  BY AppendProperties
<1>2. Len(revisions) \in Nat /\ DOMAIN revisions = 1..Len(revisions)
  BY LenProperties
<1>3. DOMAIN revisions' = 1..Len(revisions')
  BY <1>1, LenProperties
<1> QED
  BY <1>1, <1>2, <1>3 DEF Grows

LEMMA Unchanged ==
  ASSUME revisions \in Seq(RevisionRow), revisions' = revisions
  PROVE  Grows
BY DEF Grows

-----------------------------------------------------------------------------
(* What keeps the parts of the invariant.                                   *)

\* Rows and attempts stay, or name a revision of theirs in the grown log.
LEMMA LogKept ==
  ASSUME LogInv, Grows,
         \A s \in Source : publish'[s].state # "none" =>
           \/ publish[s].state # "none" /\ publish'[s].revision = publish[s].revision
           \/ publish'[s].revision \in DOMAIN revisions' /\ revisions'[publish'[s].revision].source = s,
         \A a \in DOMAIN attempts' : attempts'[a].state # "deleted" =>
           \/ /\ a \in DOMAIN attempts /\ attempts[a].state # "deleted"
              /\ attempts'[a].record = attempts[a].record /\ attempts'[a].source = attempts[a].source
              /\ attempts'[a].revision = attempts[a].revision
           \/ /\ attempts'[a].revision \in DOMAIN revisions'
              /\ revisions'[attempts'[a].revision].record = attempts'[a].record
              /\ revisions'[attempts'[a].revision].source = attempts'[a].source,
         \A r \in Record : waits'[r] # Nothing =>
           \/ waits[r] # Nothing /\ waits'[r].source = waits[r].source
           \/ \E i \in DOMAIN revisions' : revisions'[i].source = waits'[r].source
  PROVE  LogInv'
<1>1. \A s \in Source : OwnRow(s)'
  BY DEF LogInv, OwnRow, Grows
<1>2. \A a \in DOMAIN attempts' : OwnAttempt(a)'
  BY DEF LogInv, OwnAttempt, Grows
<1>3. \A r \in Record : Locked(r)' => \E i \in DOMAIN revisions' : revisions'[i].source = waits'[r].source
  <2>1. SUFFICES ASSUME NEW r \in Record, waits'[r] # Nothing,
                        waits[r] # Nothing, waits'[r].source = waits[r].source
                 PROVE  \E i \in DOMAIN revisions' : revisions'[i].source = waits'[r].source
    BY DEF Locked
  <2>2. PICK i \in DOMAIN revisions : revisions[i].source = waits[r].source
    BY <2>1 DEF LogInv, Known, Locked
  <2> QED
    BY <2>1, <2>2 DEF Grows
<1> QED
  BY <1>1, <1>2, <1>3 DEF LogInv, Known

\* A waiting record is left alone, and an executing row too.
LEMMA DecisionKept ==
  ASSUME DecisionInv,
         \A r \in Record : Locked(r)' =>
           \/ Waited(r)'
           \/ /\ Locked(r) /\ waits'[r] = waits[r]
              /\ decision'[r].source = decision[r].source /\ decision'[r].quality = decision[r].quality,
         \A s \in Source : Executing(s)' => publish'[s] = publish[s] \/ Evaluated(s)'
  PROVE  DecisionInv'
<1>1. \A r \in Record : Locked(r)' => Waited(r)'
  BY DEF DecisionInv, Waited, DecidedFor
<1>2. \A s \in Source : Executing(s)' => Evaluated(s)'
  BY DEF DecisionInv, Executing, Evaluated, DecidedFor
<1> QED
  BY <1>1, <1>2 DEF DecisionInv

-----------------------------------------------------------------------------
(* The initial state.                                                       *)

LEMMA InitInv == Init => Inv
<1> SUFFICES ASSUME Init
             PROVE  Inv
  OBVIOUS
<1> USE DEF Init
<1>1. revisions \in Seq(RevisionRow)
  <2> DEFINE row(i) == Revision(InitialRecord[InitialSources[i]], InitialSources[i], InitialPath[InitialSources[i]],
                                InitialRecord[InitialSources[i]] \in ProviderRecord)
  <2>1. Cardinality(Source) \in Nat /\ \E f \in [1..Cardinality(Source) -> Source] : IsInjective(f)
    <3>1. Cardinality(Source) \in Nat /\ ExistsBijection(1..Cardinality(Source), Source)
      BY LibraryRecordAssumption, FS_CardinalityType
    <3> QED
      BY <3>1 DEF ExistsBijection, Bijection, Injection, IsInjective
  <2>2. InitialSources \in [1..Cardinality(Source) -> Source]
    BY <2>1 DEF InitialSources, SetToSeq
  <2>3. \A i \in 1..Cardinality(Source) : row(i) \in RevisionRow
    <3> HIDE DEF Init
    <3>1. SUFFICES ASSUME NEW i \in 1..Cardinality(Source)
                   PROVE  row(i) \in RevisionRow
      OBVIOUS
    <3>2. InitialSources[i] \in Source
      BY <2>2
    <3>3. InitialRecord[InitialSources[i]] \in Record /\ InitialPath[InitialSources[i]] \in Path
      BY <3>2, LibraryRecordAssumption
    <3>4. (InitialRecord[InitialSources[i]] \in ProviderRecord) \in BOOLEAN
      OBVIOUS
    <3> QED
      BY <3>2, <3>3, <3>4 DEF RevisionRow, Revision
  <2>4. revisions = [i \in 1..Cardinality(Source) |-> row(i)]
    OBVIOUS
  <2> HIDE DEF row, Init
  <2> QED
    BY <2>1, <2>3, <2>4, IsASeq
<1>2. TablesInv
  BY <1>1, LibraryRecordAssumption, EmptySeq DEF TablesInv, RequestInv, NoRow
<1>3. LogInv
  BY DEF LogInv, OwnRow, NoRow, Locked
<1>4. DecisionInv
  BY DEF DecisionInv, Executing, NoRow, Locked
<1> QED
  BY <1>2, <1>3, <1>4 DEF Inv

-----------------------------------------------------------------------------
(* The steps that touch neither the log nor a decision.                     *)

LEMMA AsideKeeps ==
  ASSUME Inv, RequestInv', UNCHANGED <<owner, usable, decision, revisions, attempts, waits, publish>>
  PROVE  Inv'
<1>1. TablesInv'
  BY DEF Inv, TablesInv
<1>2. LogInv'
  BY DEF Inv, LogInv, OwnRow, OwnAttempt, Known, Locked
<1>3. DecisionInv'
  BY DecisionKept DEF Inv, Locked, Executing
<1> QED
  BY <1>1, <1>2, <1>3 DEF Inv

LEMMA RequestsKeep ==
  ASSUME Inv,
         \/ \E s \in Source, path \in EditPaths : EditReads(s, path)
         \/ \E r \in Record, s \in Source : SelectReads(r, s)
         \/ RequestFails \/ RemapReads \/ RemapLists \/ RemapConflicts
         \/ \E s \in Source : FileVanishes(s)
         \/ ScanPlans \/ ScanAborts
         \/ \E s \in Source : ImportBegins(s)
         \/ ImportEnds \/ ImportJudges
         \/ \E r \in Record : Withdraw(r)
         \/ Sweep
  PROVE  Inv'
<1>1. UNCHANGED <<owner, usable, decision, revisions, attempts, waits, publish>>
  BY DEF EditReads, SelectReads, RequestFails, RemapReads, RemapLists, RemapConflicts, FileVanishes, ScanPlans, ScanAborts,
         ImportBegins, ImportEnds, ImportJudges, Withdraw, Sweep
<1>2. RequestInv'
  <2>0. RequestInv
    BY DEF Inv, TablesInv
  <2>1. ASSUME NEW s \in Source, NEW path \in EditPaths, EditReads(s, path)
        PROVE  RequestInv'
    BY <2>1, LibraryRecordAssumption DEF EditReads, RequestInv
  <2>2. ASSUME NEW r \in Record, NEW s \in Source, SelectReads(r, s)
        PROVE  RequestInv'
    BY <2>2 DEF SelectReads, RequestInv
  <2>3. CASE RequestFails \/ RemapConflicts
    BY <2>3 DEF RequestFails, RemapConflicts, RequestInv
  <2>4. CASE RemapReads
    BY <2>4 DEF RemapReads, RequestInv
  <2>5. CASE RemapLists
    <3>1. Album \subseteq Source
      BY DEF Album
    <3>2. request' = [request EXCEPT !.album = Album] /\ request # Nothing /\ request.op = "remap" /\ "op" \in DOMAIN request
      BY <2>0, <2>5 DEF RemapLists, RequestInv
    <3>3. "op" \in DOMAIN request' /\ request'.op = "remap"
      BY <3>2
    <3>4. request'.album # Nothing => request'.album \subseteq Source
      BY <3>1, <3>2
    <3> QED
      BY <3>3, <3>4 DEF RequestInv
  <2>6. CASE (\E s \in Source : FileVanishes(s)) \/ ScanPlans \/ ScanAborts
    BY <2>0, <2>6 DEF FileVanishes, ScanPlans, ScanAborts, RequestInv
  <2>7. CASE (\E s \in Source : ImportBegins(s)) \/ ImportEnds \/ ImportJudges
    BY <2>0, <2>7 DEF ImportBegins, ImportEnds, ImportJudges, RequestInv
  <2>8. CASE (\E r \in Record : Withdraw(r)) \/ Sweep
    BY <2>0, <2>8 DEF Withdraw, Sweep, RequestInv
  <2> QED
    BY <2>1, <2>2, <2>3, <2>4, <2>5, <2>6, <2>7, <2>8
<1> QED
  BY <1>1, <1>2, AsideKeeps

\* An attempt settles: only its state changes.
LEMMA SettlesKeep ==
  ASSUME Inv, NEW a \in DOMAIN attempts, Settles(a)
  PROVE  Inv'
<1>1. attempts \in Seq(AttemptRow) /\ DOMAIN attempts = 1..Len(attempts)
  BY LenProperties DEF Inv, TablesInv
<1>2. PICK x \in Pending \cup {"failed", "finalized", "deleted"} :
        attempts' = [attempts EXCEPT ![a].state = x] /\ x # "deleted" /\ attempts[a].state # "deleted"
  BY DEF Settles, Expose, Finalize, FinalizeFails, Pending
<1>3. UNCHANGED <<owner, usable, decision, revisions, waits, publish, request>>
  BY DEF Settles, Expose, Finalize, FinalizeFails
<1>4. attempts[a] \in AttemptRow
  BY <1>1, ElementOfSeq
<1> DEFINE row == [attempts[a] EXCEPT !.state = x]
<1>5. /\ row \in AttemptRow /\ row.record = attempts[a].record /\ row.source = attempts[a].source
      /\ row.revision = attempts[a].revision /\ row.state = x
  BY <1>4 DEF AttemptRow
<1>6. attempts' = [attempts EXCEPT ![a] = row]
  BY <1>2
<1> HIDE DEF row
<1>7. /\ attempts' \in Seq(AttemptRow) /\ DOMAIN attempts' = DOMAIN attempts
      /\ \A b \in DOMAIN attempts : attempts'[b] = IF b = a THEN row ELSE attempts[b]
  BY <1>1, <1>5, <1>6, ExceptSeq, LenProperties
<1>8. TablesInv'
  BY <1>3, <1>7 DEF Inv, TablesInv, RequestInv
<1>9. Grows
  BY <1>3 DEF Inv, TablesInv, Grows
<1>10. LogInv'
  <2>1. \A b \in DOMAIN attempts' : attempts'[b].state # "deleted" =>
          /\ b \in DOMAIN attempts /\ attempts[b].state # "deleted"
          /\ attempts'[b].record = attempts[b].record /\ attempts'[b].source = attempts[b].source
          /\ attempts'[b].revision = attempts[b].revision
    BY <1>2, <1>5, <1>7
  <2> QED
    BY <2>1, <1>3, <1>9, LogKept DEF Inv
<1>11. DecisionInv'
  BY <1>3, DecisionKept DEF Inv, Locked, Executing
<1> QED
  BY <1>8, <1>10, <1>11 DEF Inv

-----------------------------------------------------------------------------
(* Moves of sources, and the edits.                                         *)

\* The log grows and nothing is written of the job rows and of the waiting records.
LEMMA GrowthKeeps ==
  ASSUME Inv, Grows, RequestInv', UNCHANGED <<usable, attempts, waits, publish>>,
         owner' \in [Source -> Record \cup {NoRecord}],
         decision' = [r \in Record |-> decision'[r]],
         \A r \in Record : Locked(r) => decision'[r] = decision[r]
  PROVE  Inv'
<1>1. TablesInv'
  BY DEF Inv, TablesInv, Grows
<1>2. LogInv'
  BY LogKept DEF Inv
<1>3. DecisionInv'
  BY DecisionKept DEF Inv, Locked, Executing
<1> QED
  BY <1>1, <1>2, <1>3 DEF Inv

\* Sources move to records, and both are decided again: neither is a waiting one.
LEMMA MoveKeeps ==
  ASSUME Inv, NEW moved \in SUBSET Source, NEW target \in [moved -> Record],
         \A r \in Touched(target) \cap Record : ~Locked(r),
         owner' = Moved(target), Grows, RequestInv', UNCHANGED <<usable, attempts, waits, publish>>,
         decision' = [r \in Record |-> decision'[r]],
         \A r \in Record \ Touched(target) : decision'[r] = decision[r]
  PROVE  Inv'
<1>1. owner \in [Source -> Record \cup {NoRecord}]
  BY DEF Inv, TablesInv
<1>2. owner' \in [Source -> Record \cup {NoRecord}]
  BY <1>1 DEF Moved
<1>3. \A r \in Record : Locked(r) => decision'[r] = decision[r]
  OBVIOUS
<1> QED
  BY <1>2, <1>3, GrowthKeeps

LEMMA AssociateKeeps ==
  ASSUME Inv, NEW s \in Source, NEW q \in Record, Associate(s, q)
  PROVE  Inv'
<1> DEFINE target == [m \in {s} |-> q]
<1>1. {s} \in SUBSET Source /\ target \in [{s} -> Record]
  OBVIOUS
<1>2. Touched(target) = {owner[s], q}
  BY DEF Touched, Range
<1>3. /\ ~Locked(owner[s]) /\ ~Locked(q) /\ owner' = Moved(target) /\ revisions' = revisions \o Brought(target)
      /\ decision' = [r \in Record |-> IF r \in Touched(target) THEN DecidedAgain(decision[r], owner', r) ELSE decision[r]]
      /\ UNCHANGED <<usable, attempts, waits, publish, request>>
  BY DEF Associate
<1> HIDE DEF target
<1>4. Grows
  BY <1>1, <1>3, BroughtRows, Appended DEF Inv, TablesInv
<1>5. RequestInv'
  BY <1>3 DEF Inv, TablesInv, RequestInv
<1>6. decision' = [r \in Record |-> decision'[r]] /\ \A r \in Record \ Touched(target) : decision'[r] = decision[r]
  BY <1>3
<1>7. \A r \in Touched(target) \cap Record : ~Locked(r)
  BY <1>2, <1>3
<1> QED
  BY <1>1, <1>3, <1>4, <1>5, <1>6, <1>7, MoveKeeps

LEMMA AssociateFolderKeeps ==
  ASSUME Inv, NEW path \in EditPaths, AssociateFolder(path)
  PROVE  Inv'
<1>1. PICK moved \in SUBSET {s \in Source : owner[s] # NoRecord} \ {{}} :
      \E target \in [moved -> Record], retagged \in SUBSET moved :
       /\ \A r \in Touched(target) : ~Locked(r)
       /\ owner' = Moved(target)
       /\ revisions' = revisions \o Brought(target) \o Finals(target, retagged, path)
       /\ decision' = [r \in Record |->
            IF r \in Touched(target) THEN DecidedAgain(decision[r], owner', r) ELSE decision[r]]
  BY DEF AssociateFolder
<1>2. PICK target \in [moved -> Record], retagged \in SUBSET moved :
       /\ \A r \in Touched(target) : ~Locked(r)
       /\ owner' = Moved(target)
       /\ revisions' = revisions \o Brought(target) \o Finals(target, retagged, path)
       /\ decision' = [r \in Record |->
            IF r \in Touched(target) THEN DecidedAgain(decision[r], owner', r) ELSE decision[r]]
  BY <1>1
<1>3. moved \in SUBSET Source /\ UNCHANGED <<usable, attempts, waits, publish, request>>
  BY DEF AssociateFolder
<1>4. Grows
  <2>1. Brought(target) \in Seq(RevisionRow) /\ Finals(target, retagged, path) \in Seq(RevisionRow)
    BY <1>3, BroughtRows, FinalsRows, LibraryRecordAssumption DEF Inv
  <2>2. revisions' = revisions \o (Brought(target) \o Finals(target, retagged, path))
    BY <1>2, <2>1, ConcatAssociative DEF Inv, TablesInv
  <2> QED
    BY <2>1, <2>2, ConcatProperties, Appended DEF Inv, TablesInv
<1>5. RequestInv'
  BY <1>3 DEF Inv, TablesInv, RequestInv
<1>6. decision' = [r \in Record |-> decision'[r]] /\ \A r \in Record \ Touched(target) : decision'[r] = decision[r]
  BY <1>2
<1> QED
  BY <1>2, <1>3, <1>4, <1>5, <1>6, MoveKeeps

LEMMA RemapKeeps ==
  ASSUME Inv, NEW path \in EditPaths, RemapWrites(path)
  PROVE  Inv'
<1>0. PICK assigned \in SUBSET {s \in request.album : owner[s] # NoRecord} \ {{}} : \E track \in Injection(assigned, Record) :
        /\ \A s \in assigned : ~Locked(track[s])
        /\ owner' = Moved(track)
        /\ revisions' = revisions \o Brought(track) \o Finals(track, assigned, path)
        /\ decision' = [r \in Record |-> decision'[r]]
        /\ \A r \in Record \ Touched(track) : decision'[r] = decision[r]
  BY DEF RemapWrites
<1>1. PICK track \in Injection(assigned, Record) :
        /\ \A s \in assigned : ~Locked(track[s])
        /\ owner' = Moved(track)
        /\ revisions' = revisions \o Brought(track) \o Finals(track, assigned, path)
        /\ decision' = [r \in Record |-> decision'[r]]
        /\ \A r \in Record \ Touched(track) : decision'[r] = decision[r]
  BY <1>0
<1>2. /\ RemapHolds /\ request' = Nothing /\ UNCHANGED <<usable, attempts, waits, publish>>
  BY DEF RemapWrites
<1>3. request.album \subseteq Source /\ \A s \in request.album : owner[s] \in Record => ~Locked(owner[s])
  BY <1>2 DEF RemapHolds, Inv, TablesInv, RequestInv
<1>4. assigned \in SUBSET Source /\ track \in [assigned -> Record]
  BY <1>1, <1>3 DEF Injection
<1>5. \A r \in Touched(track) \cap Record : ~Locked(r)
  BY <1>1, <1>3, <1>4 DEF Touched, Range
<1>6. Grows
  <2>1. Brought(track) \in Seq(RevisionRow) /\ Finals(track, assigned, path) \in Seq(RevisionRow)
    BY <1>4, BroughtRows, FinalsRows, LibraryRecordAssumption DEF Inv
  <2>2. revisions' = revisions \o (Brought(track) \o Finals(track, assigned, path))
    BY <1>1, <2>1, ConcatAssociative DEF Inv, TablesInv
  <2> QED
    BY <2>1, <2>2, ConcatProperties, Appended DEF Inv, TablesInv
<1>7. RequestInv'
  BY <1>2 DEF RequestInv
<1>8. decision' = [r \in Record |-> decision'[r]] /\ \A r \in Record \ Touched(track) : decision'[r] = decision[r]
  BY <1>1
<1> QED
  BY <1>1, <1>2, <1>4, <1>5, <1>6, <1>7, <1>8, MoveKeeps

LEMMA AttachKeeps ==
  ASSUME Inv, NEW s \in Source, NEW q \in Record, Attach(s, q)
  PROVE  Inv'
<1>1. Grows /\ RequestInv'
  BY DEF Attach, Inv, TablesInv, RequestInv, Grows
<1> QED
  BY <1>1, GrowthKeeps DEF Attach, Inv, TablesInv

LEMMA EditsKeep ==
  ASSUME Inv, EditWrites \/ SelectWrites
  PROVE  Inv'
<1>1. RequestInv'
  BY DEF EditWrites, SelectWrites, RequestInv
<1>2. CASE EditWrites
  <2> DEFINE row == Revision(request.record, request.source, request.path, FALSE)
  <2>1. row \in RevisionRow
    BY <1>2 DEF EditWrites, Inv, TablesInv, RequestInv, RevisionRow, Revision
  <2>2. revisions' = Append(revisions, row)
    BY <1>2 DEF EditWrites
  <2>3. Grows
    BY <2>1, <2>2, AppendedOne DEF Inv, TablesInv
  <2> QED
    BY <1>1, <1>2, <2>3, GrowthKeeps DEF EditWrites, Inv, TablesInv
<1>3. CASE SelectWrites
  <2>1. Grows
    BY <1>3 DEF SelectWrites, Inv, TablesInv, Grows
  <2> QED
    BY <1>1, <1>3, <2>1, GrowthKeeps DEF SelectWrites, Inv, TablesInv
<1> QED
  BY <1>2, <1>3

-----------------------------------------------------------------------------
(* The refresh.                                                             *)

\* A refresh finds the revision to publish, or writes it.
LEMMA RefreshedLog ==
  ASSUME TablesInv, NEW r \in Record, NEW s, revisions' = RevisionsAfterRefresh(r, s)
  PROVE  /\ Grows
         /\ WantedRevision(r, s) # 0 =>
              WantedRevision(r, s) \in DOMAIN revisions' /\ revisions'[WantedRevision(r, s)].source = s
<1>1. revisions \in Seq(RevisionRow)
  BY DEF TablesInv
<1>2. CASE Recovers(r, s)
  <2> DEFINE row == Revision(r, s, revisions[LatestAnywhere(s)].path, FALSE)
  <2>1. LatestAnywhere(s) \in DOMAIN revisions /\ revisions[LatestAnywhere(s)].source = s
    BY <1>1, <1>2, LatestAnywhereRow DEF Recovers
  <2>2. revisions[LatestAnywhere(s)] \in RevisionRow
    BY <1>1, <2>1, ElementOfSeq, LenProperties
  <2>3. row \in RevisionRow /\ row.source = s
    BY <2>1, <2>2 DEF RevisionRow, Revision
  <2>4. revisions' = Append(revisions, row) /\ WantedRevision(r, s) = Len(revisions) + 1
    BY <1>2 DEF RevisionsAfterRefresh, WantedRevision
  <2> HIDE DEF row
  <2> QED
    BY <1>1, <2>3, <2>4, AppendedOne
<1>3. CASE ~Recovers(r, s)
  <2>1. revisions' = revisions /\ WantedRevision(r, s) = LatestFinal(r, s)
    BY <1>3 DEF RevisionsAfterRefresh, WantedRevision
  <2> QED
    BY <1>1, <2>1, LatestFinalRow, Unchanged
<1> QED
  BY <1>2, <1>3

\* A source that some revision names has a revision to publish.
LEMMA KnownIsWanted ==
  ASSUME TablesInv, NEW r \in Record, NEW s, Known(s)
  PROVE  WantedRevision(r, s) # 0
<1>1. Len(revisions) \in Nat /\ DOMAIN revisions = 1..Len(revisions)
  BY LenProperties DEF TablesInv
<1>2. CASE Recovers(r, s)
  BY <1>1, <1>2 DEF WantedRevision
<1>3. CASE ~Recovers(r, s)
  <2> DEFINE S == {i \in DOMAIN revisions : revisions[i].source = s}
  <2>1. LatestAnywhere(s) = Max0(S) /\ S # {} /\ S \subseteq 1..Len(revisions)
    BY <1>1 DEF LatestAnywhere, Known
  <2>2. Max0(S) # 0
    <3> HIDE DEF S
    <3> QED
      BY <1>1, <2>1, MaxOfMany
  <2> QED
    BY <1>3, <2>1, <2>2 DEF Recovers, WantedRevision
<1> QED
  BY <1>2, <1>3

LEMMA RefreshRunKeeps ==
  ASSUME Inv, NEW r \in Record, RefreshRun(r)
  PROVE  Inv'
<1> DEFINE d == Evaluate(Candidates(r), decision[r], NoSource)
           s == d.source
           asks == Publishes(r, d)
<1>1. /\ ~Locked(r) /\ decision' = [decision EXCEPT ![r] = d]
      /\ revisions' = IF s = NoSource THEN revisions ELSE RevisionsAfterRefresh(r, s)
      /\ publish' = IF asks THEN [publish EXCEPT ![s] = Row(WantedRevision(r, s))] ELSE publish
      /\ UNCHANGED <<owner, usable, attempts, waits, request>>
  BY DEF RefreshRun
<1>2. asks => s # NoSource /\ WantedRevision(r, s) # 0
  BY DEF Publishes
<1> HIDE DEF d, asks
<1>3. /\ Grows
      /\ asks => WantedRevision(r, s) \in DOMAIN revisions' /\ revisions'[WantedRevision(r, s)].source = s
  <2>0. TablesInv
    BY DEF Inv
  <2>1. CASE s = NoSource
    BY <2>0, <2>1, <1>1, <1>2, Unchanged DEF TablesInv
  <2>2. CASE s # NoSource
    BY <2>0, <2>2, <1>1, <1>2, RefreshedLog
  <2> QED
    BY <2>1, <2>2
<1>4. TablesInv'
  <2>1. publish' = [x \in Source |->
          [state |-> publish'[x].state, revision |-> publish'[x].revision, view |-> publish'[x].view]]
    BY <1>1 DEF Inv, TablesInv, Row
  <2>2. decision' = [q \in Record |-> decision'[q]]
    BY <1>1 DEF Inv, TablesInv
  <2> QED
    BY <1>1, <1>3, <2>1, <2>2 DEF Inv, TablesInv, RequestInv, Grows
<1>5. \A x \in Source : publish'[x] = publish[x] \/ (asks /\ x = s /\ publish'[x] = Row(WantedRevision(r, s)))
  BY <1>1 DEF Inv, TablesInv
<1>6. LogInv'
  <2>1. \A x \in Source : publish'[x].state # "none" =>
           \/ publish[x].state # "none" /\ publish'[x].revision = publish[x].revision
           \/ publish'[x].revision \in DOMAIN revisions' /\ revisions'[publish'[x].revision].source = x
    BY <1>3, <1>5 DEF Row
  <2> QED
    BY <1>1, <1>3, <2>1, LogKept DEF Inv
<1>7. DecisionInv'
  <2>1. \A q \in Record : Locked(q)' => Locked(q) /\ waits'[q] = waits[q] /\ decision'[q] = decision[q]
    BY <1>1 DEF Inv, TablesInv, Locked
  <2>2. \A x \in Source : Executing(x)' => publish'[x] = publish[x]
    BY <1>5 DEF Executing, Row
  <2> QED
    BY <2>1, <2>2, DecisionKept DEF Inv
<1> QED
  BY <1>4, <1>6, <1>7 DEF Inv

LEMMA RefreshWaitsKeeps ==
  ASSUME Inv, NEW r \in Record, RefreshWaits(r)
  PROVE  Inv'
<1> DEFINE d == Evaluate(Candidates(r), decision[r], NoSource)
           w == [source |-> d.source, decided |-> d]
<1>1. /\ waits' = [waits EXCEPT ![r] = w] /\ Publishes(r, d)
      /\ UNCHANGED <<owner, usable, decision, revisions, attempts, publish, request>>
  BY DEF RefreshWaits
<1>2. \A q \in Record : waits'[q] = IF q = r THEN w ELSE waits[q]
  BY <1>1 DEF Inv, TablesInv
<1>3. TablesInv'
  BY <1>1 DEF Inv, TablesInv, RequestInv
<1>4. Grows
  BY <1>1 DEF Inv, TablesInv, Grows
<1>5. Known(d.source)
  <2>1. d.source # NoSource /\ WantedRevision(r, d.source) # 0
    BY <1>1 DEF Publishes
  <2> HIDE DEF d
  <2> QED
    BY <2>1, LatestFinalRow, LatestAnywhereRow DEF WantedRevision, Recovers, Known, Inv, TablesInv
<1>6. LogInv'
  <2>1. \A q \in Record : waits'[q] # Nothing =>
           \/ waits[q] # Nothing /\ waits'[q].source = waits[q].source
           \/ \E i \in DOMAIN revisions' : revisions'[i].source = waits'[q].source
    <3> HIDE DEF d
    <3> QED
      BY <1>1, <1>2, <1>5 DEF Known
  <2> QED
    BY <1>1, <1>4, <2>1, LogKept DEF Inv
<1>7. Waited(r)'
  <2>1. waits'[r].decided = d /\ decision' = decision
    BY <1>1, <1>2
  <2>2. owner \in [Source -> Record \cup {NoRecord}] /\ usable \in [Source -> BOOLEAN]
    BY DEF Inv, TablesInv
  <2>3. DecidedFor(d, decision[r], r)
    BY <2>2 DEF DecidedFor, Candidates
  <2> HIDE DEF d
  <2> QED
    BY <2>1, <2>3 DEF Waited, DecidedFor
<1>8. DecisionInv'
  <2>1. \A q \in Record : Locked(q)' =>
          Waited(q)' \/ (Locked(q) /\ waits'[q] = waits[q] /\ decision'[q] = decision[q])
    BY <1>1, <1>2, <1>7 DEF Locked
  <2>2. \A x \in Source : Executing(x)' => publish'[x] = publish[x]
    BY <1>1
  <2> QED
    BY <2>1, <2>2, DecisionKept DEF Inv
<1> QED
  BY <1>3, <1>6, <1>8 DEF Inv

LEMMA RefreshResumesKeeps ==
  ASSUME Inv, NEW r \in Record, RefreshResumes(r)
  PROVE  Inv'
<1> DEFINE s == waits[r].source
<1>1. /\ Locked(r) /\ ~Executing(s) /\ waits' = [waits EXCEPT ![r] = Nothing]
      /\ decision' = [decision EXCEPT ![r] = waits[r].decided]
      /\ revisions' = RevisionsAfterRefresh(r, s)
      /\ publish' = IF publish[s].state = "queued"
                    THEN [publish EXCEPT ![s] = Row(WantedRevision(r, s))] ELSE publish
      /\ UNCHANGED <<owner, usable, attempts, request>>
  BY DEF RefreshResumes
<1>2. /\ Grows
      /\ WantedRevision(r, s) \in DOMAIN revisions' /\ revisions'[WantedRevision(r, s)].source = s
  BY <1>1, RefreshedLog, KnownIsWanted DEF Inv, LogInv
<1>3. \A q \in Record : waits'[q] = IF q = r THEN Nothing ELSE waits[q]
  BY <1>1 DEF Inv, TablesInv
<1>4. TablesInv'
  <2>1. publish' = [x \in Source |->
          [state |-> publish'[x].state, revision |-> publish'[x].revision, view |-> publish'[x].view]]
    BY <1>1 DEF Inv, TablesInv, Row
  <2>2. decision' = [q \in Record |-> decision'[q]] /\ waits' = [q \in Record |-> waits'[q]]
    BY <1>1 DEF Inv, TablesInv
  <2> QED
    BY <1>1, <1>2, <2>1, <2>2 DEF Inv, TablesInv, RequestInv, Grows
<1>5. \A x \in Source : publish'[x] = publish[x] \/ (x = s /\ publish'[x] = Row(WantedRevision(r, s)))
  BY <1>1 DEF Inv, TablesInv
<1>6. LogInv'
  <2>1. \A x \in Source : publish'[x].state # "none" =>
           \/ publish[x].state # "none" /\ publish'[x].revision = publish[x].revision
           \/ publish'[x].revision \in DOMAIN revisions' /\ revisions'[publish'[x].revision].source = x
    BY <1>2, <1>5 DEF Row
  <2> QED
    BY <1>1, <1>2, <1>3, <2>1, LogKept DEF Inv
<1>7. DecisionInv'
  <2>1. \A q \in Record : Locked(q)' => Locked(q) /\ waits'[q] = waits[q] /\ decision'[q] = decision[q]
    BY <1>1, <1>3 DEF Inv, TablesInv, Locked
  <2>2. \A x \in Source : Executing(x)' => publish'[x] = publish[x]
    BY <1>5 DEF Executing, Row
  <2> QED
    BY <2>1, <2>2, DecisionKept DEF Inv
<1> QED
  BY <1>4, <1>6, <1>7 DEF Inv

-----------------------------------------------------------------------------
(* The publish.                                                             *)

LEMMA PublishReadsKeeps ==
  ASSUME Inv, NEW s \in Source, PublishReads(s)
  PROVE  Inv'
<1> DEFINE r == owner[s]
           view == [record |-> r, loaded |-> decision[r],
                    decided |-> Evaluate(CandidatesIn(owner, usable, r), decision[r], NoSource),
                    revisions |-> Len(revisions), current |-> current[r]]
           row == [state |-> "running", revision |-> publish[s].revision, view |-> view]
<1>1. /\ publish[s].state = "queued" /\ publish' = [publish EXCEPT ![s] = row]
      /\ UNCHANGED <<owner, usable, decision, revisions, attempts, waits, request>>
  BY DEF PublishReads, Candidates
<1>2. view.decided = Evaluate(CandidatesIn(owner, usable, view.record), view.loaded, NoSource)
  OBVIOUS
<1> HIDE DEF view
<1>3. row.revision = publish[s].revision
  OBVIOUS
<1>4. \A x \in Source : publish'[x] = IF x = s THEN row ELSE publish[x]
  BY <1>1 DEF Inv, TablesInv
<1>5. TablesInv'
  <2>1. publish' = [x \in Source |->
          [state |-> publish'[x].state, revision |-> publish'[x].revision, view |-> publish'[x].view]]
    BY <1>1 DEF Inv, TablesInv
  <2> QED
    BY <1>1, <2>1 DEF Inv, TablesInv, RequestInv
<1>6. Grows
  BY <1>1 DEF Inv, TablesInv, Grows
<1>7. LogInv'
  <2>1. \A x \in Source : publish'[x].state # "none" => publish[x].state # "none" /\ publish'[x].revision = publish[x].revision
    <3> HIDE DEF row
    <3> QED
      BY <1>1, <1>3, <1>4
  <2> QED
    BY <1>1, <1>6, <2>1, LogKept DEF Inv
<1>8. Evaluated(s)'
  <2>1. publish'[s].view = view
    BY <1>4
  <2>2. /\ owner \in [Source -> Record \cup {NoRecord}] /\ usable \in [Source -> BOOLEAN]
    BY DEF Inv, TablesInv
  <2> QED
    BY <1>2, <2>1, <2>2 DEF Evaluated, DecidedFor
<1>9. DecisionInv'
  <2>1. \A q \in Record : Locked(q)' => Locked(q) /\ waits'[q] = waits[q] /\ decision'[q] = decision[q]
    BY <1>1 DEF Locked
  <2>2. \A x \in Source : Executing(x)' => publish'[x] = publish[x] \/ Evaluated(x)'
    BY <1>4, <1>8
  <2> QED
    BY <2>1, <2>2, DecisionKept DEF Inv
<1> QED
  BY <1>5, <1>7, <1>9 DEF Inv

\* A publish ends: its row is done with or queued again, and only a record that nobody waits for is decided.
LEMMA EndsKeeps ==
  ASSUME Inv, NEW s \in Source, publish[s].state # "none",
         UNCHANGED <<owner, revisions, waits, request>>, usable' \in [Source -> BOOLEAN],
         NEW row \in {NoRow, Row(publish[s].revision)}, publish' = [publish EXCEPT ![s] = row],
         decision' = [r \in Record |-> decision'[r]],
         \A r \in Record : Locked(r) => decision'[r] = decision[r],
         \/ attempts' = attempts
         \/ \E new \in AttemptRow :
              /\ attempts' = Append(attempts, new) /\ new.revision \in DOMAIN revisions
              /\ revisions[new.revision].record = new.record /\ revisions[new.revision].source = new.source
  PROVE  Inv'
<1>1. \A x \in Source : publish'[x] = IF x = s THEN row ELSE publish[x]
  BY DEF Inv, TablesInv
<1>2. Grows
  BY DEF Inv, TablesInv, Grows
<1>3. /\ attempts' \in Seq(AttemptRow)
      /\ \A a \in DOMAIN attempts' :
           \/ a \in DOMAIN attempts /\ attempts'[a] = attempts[a]
           \/ /\ attempts'[a].revision \in DOMAIN revisions'
              /\ revisions'[attempts'[a].revision].record = attempts'[a].record
              /\ revisions'[attempts'[a].revision].source = attempts'[a].source
  <2>0. attempts \in Seq(AttemptRow)
    BY DEF Inv, TablesInv
  <2>1. CASE attempts' = attempts
    BY <2>0, <2>1
  <2>2. ASSUME NEW new \in AttemptRow, attempts' = Append(attempts, new), new.revision \in DOMAIN revisions,
               revisions[new.revision].record = new.record, revisions[new.revision].source = new.source
        PROVE  <1>3!1 /\ <1>3!2
    <3>1. /\ attempts' \in Seq(AttemptRow) /\ Len(attempts') = Len(attempts) + 1
          /\ \A i \in 1..Len(attempts) : attempts'[i] = attempts[i]
          /\ attempts'[Len(attempts) + 1] = new
      BY <2>0, <2>2, AppendProperties
    <3>2. Len(attempts) \in Nat /\ DOMAIN attempts = 1..Len(attempts) /\ DOMAIN attempts' = 1..Len(attempts')
      BY <2>0, <3>1, LenProperties
    <3>3. \A a \in DOMAIN attempts' : a \in DOMAIN attempts \/ a = Len(attempts) + 1
      BY <3>1, <3>2
    <3> QED
      BY <2>2, <3>1, <3>2, <3>3
  <2> QED
    BY <2>1, <2>2
<1>4. TablesInv'
  <2>1. publish' = [x \in Source |->
          [state |-> publish'[x].state, revision |-> publish'[x].revision, view |-> publish'[x].view]]
    BY DEF Inv, TablesInv, Row, NoRow
  <2> QED
    BY <1>3, <2>1 DEF Inv, TablesInv, RequestInv
<1>5. LogInv'
  <2>1. \A x \in Source : publish'[x].state # "none" => publish[x].state # "none" /\ publish'[x].revision = publish[x].revision
    BY <1>1 DEF NoRow, Row
  <2> QED
    BY <1>2, <1>3, <2>1, LogKept DEF Inv
<1>6. DecisionInv'
  <2>1. \A q \in Record : Locked(q)' => Locked(q) /\ waits'[q] = waits[q] /\ decision'[q] = decision[q]
    BY DEF Locked
  <2>2. \A x \in Source : Executing(x)' => publish'[x] = publish[x]
    BY <1>1 DEF Executing, NoRow, Row
  <2> QED
    BY <2>1, <2>2, DecisionKept DEF Inv
<1> QED
  BY <1>4, <1>5, <1>6 DEF Inv

\* Whatever a publish writes of decisions, it writes of the record it read and holds.
LEMMA HeldOnly ==
  ASSUME Inv, NEW s \in Source, NEW new, PublishHolds(s),
         decision' = [decision EXCEPT ![publish[s].view.record] = new]
  PROVE  /\ decision' = [r \in Record |-> decision'[r]]
         /\ \A r \in Record : Locked(r) => decision'[r] = decision[r]
BY DEF Inv, TablesInv, PublishHolds

LEMMA PublishAbortedKeeps ==
  ASSUME Inv, NEW s \in Source, PublishAborted(s) \/ PublishFails(s)
  PROVE  Inv'
<1>1. /\ publish[s].state # "none"
      /\ \E row \in {NoRow, Row(publish[s].revision)} : publish' = [publish EXCEPT ![s] = row]
      /\ UNCHANGED <<owner, usable, decision, revisions, attempts, waits, request>>
  BY DEF PublishAborted, PublishFails, Executing, PublishHolds
<1> QED
  BY <1>1, EndsKeeps DEF Inv, TablesInv

LEMMA PublishFlushesKeeps ==
  ASSUME Inv, NEW s \in Source,
         PublishStale(s) \/ PublishReviewed(s) \/ PublishUnchanged(s) \/ PublishConflicts(s)
  PROVE  Inv'
<1>1. /\ PublishHolds(s) /\ PublishEnds(s, publish[s].view)
      /\ UNCHANGED <<owner, usable, revisions, attempts, waits, request>>
  BY DEF PublishStale, PublishReviewed, PublishUnchanged, PublishConflicts, Ready
<1>2. publish' = [publish EXCEPT ![s] = NoRow] /\ publish[s].state # "none"
  BY <1>1 DEF PublishEnds, PublishHolds, Executing
<1>3. \E new : decision' = [decision EXCEPT ![publish[s].view.record] = new]
  BY <1>1 DEF PublishEnds
<1>4. /\ decision' = [r \in Record |-> decision'[r]]
      /\ \A r \in Record : Locked(r) => decision'[r] = decision[r]
  BY <1>1, <1>3, HeldOnly
<1> QED
  BY <1>1, <1>2, <1>4, EndsKeeps DEF Inv, TablesInv

LEMMA PublishQuarantinesKeeps ==
  ASSUME Inv, NEW s \in Source, PublishQuarantines(s)
  PROVE  Inv'
<1>1. /\ PublishHolds(s) /\ usable' = [usable EXCEPT ![s] = FALSE] /\ publish' = [publish EXCEPT ![s] = NoRow]
      /\ UNCHANGED <<owner, revisions, attempts, waits, request>>
  BY DEF PublishQuarantines, Ready
<1>2. \E new : decision' = [decision EXCEPT ![publish[s].view.record] = new]
  BY DEF PublishQuarantines
<1>3. /\ decision' = [r \in Record |-> decision'[r]]
      /\ \A r \in Record : Locked(r) => decision'[r] = decision[r]
  BY <1>1, <1>2, HeldOnly
<1>4. usable' \in [Source -> BOOLEAN]
  BY <1>1 DEF Inv, TablesInv
<1>5. publish[s].state # "none"
  BY <1>1 DEF PublishHolds, Executing
<1> QED
  BY <1>1, <1>3, <1>4, <1>5, EndsKeeps

LEMMA PublishPreparesKeeps ==
  ASSUME Inv, NEW s \in Source, PublishPrepares(s)
  PROVE  Inv'
<1> DEFINE r == publish[s].view.record
           i == publish[s].revision
           new == [record |-> r, source |-> s, revision |-> i, state |-> "prepared"]
<1>1. /\ PublishHolds(s) /\ ~Foreign(s, publish[s].view) /\ publish' = [publish EXCEPT ![s] = NoRow]
      /\ attempts' = Append(attempts, new) /\ usable' \in [Source -> BOOLEAN]
      /\ UNCHANGED <<owner, revisions, waits, request>>
  BY DEF PublishPrepares, Ready, Inv, TablesInv
<1>2. \E x : decision' = [decision EXCEPT ![publish[s].view.record] = x]
  BY DEF PublishPrepares
<1>3. /\ decision' = [q \in Record |-> decision'[q]]
      /\ \A q \in Record : Locked(q) => decision'[q] = decision[q]
  BY <1>1, <1>2, HeldOnly
<1>4. publish[s].state # "none" /\ i \in DOMAIN revisions /\ revisions[i].source = s
  BY <1>1 DEF PublishHolds, Executing, Inv, LogInv, OwnRow
<1>5. revisions[i].record = r
  BY <1>1 DEF Foreign
<1>6. new \in AttemptRow
  <2>1. revisions \in Seq(RevisionRow) /\ DOMAIN revisions = 1..Len(revisions) /\ Len(revisions) \in Nat
    BY LenProperties DEF Inv, TablesInv
  <2>2. revisions[i] \in RevisionRow /\ i \in Nat
    BY <1>4, <2>1, ElementOfSeq
  <2>3. r \in Record
    BY <1>5, <2>2 DEF RevisionRow
  <2> QED
    BY <2>2, <2>3 DEF AttemptRow, Pending
<1>7. /\ new.revision \in DOMAIN revisions
      /\ revisions[new.revision].record = new.record /\ revisions[new.revision].source = new.source
  BY <1>4, <1>5
<1> HIDE DEF new
<1> QED
  BY <1>1, <1>3, <1>4, <1>6, <1>7, EndsKeeps

-----------------------------------------------------------------------------
(* The sources that are deleted.                                            *)

\* The rows of a deleted source go, and what only mentions it loses the mention: nothing that is left
\* names a revision that lost its source.
LEMMA DeletesKeep ==
  ASSUME Inv, NEW gone, NEW asked, Deletes(gone, asked),
         usable' \in [Source -> BOOLEAN], UNCHANGED <<waits, request>>
  PROVE  Inv'
<1> DEFINE bared(i) == [revisions[i] EXCEPT !.source = IF @ \in gone THEN NoSource ELSE @]
           marked(a) == [attempts[a] EXCEPT !.state = IF attempts[a].source \in gone THEN "deleted" ELSE @]
           stripped(d) == [f \in Columns |->
                             IF f \in {"source", "baseline"} /\ d[f] \in gone THEN NoSource ELSE d[f]]
<1>1. /\ owner' = [s \in Source |-> IF s \in gone THEN NoRecord ELSE owner[s]]
      /\ decision' = [r \in Record |-> stripped(decision[r])]
      /\ revisions' = [i \in DOMAIN revisions |-> bared(i)]
      /\ attempts' = [a \in DOMAIN attempts |-> marked(a)]
      /\ publish' = [s \in Source |-> IF s \in gone THEN NoRow ELSE publish[s]]
  BY DEF Deletes
<1>2. \A r \in Record : Locked(r) => waits[r].source \notin gone /\ decision[r].source \notin gone
  BY DEF Deletes
<1>3. /\ revisions \in Seq(RevisionRow) /\ DOMAIN revisions = 1..Len(revisions) /\ Len(revisions) \in Nat
      /\ attempts \in Seq(AttemptRow) /\ DOMAIN attempts = 1..Len(attempts) /\ Len(attempts) \in Nat
  BY LenProperties DEF Inv, TablesInv
<1>4. \A i \in DOMAIN revisions :
        /\ bared(i) \in RevisionRow /\ bared(i).record = revisions[i].record
        /\ revisions[i].source \notin gone => bared(i).source = revisions[i].source
  <2>1. SUFFICES ASSUME NEW i \in DOMAIN revisions
                 PROVE  /\ bared(i) \in RevisionRow /\ bared(i).record = revisions[i].record
                        /\ revisions[i].source \notin gone => bared(i).source = revisions[i].source
    OBVIOUS
  <2>2. revisions[i] \in RevisionRow
    BY <1>3, ElementOfSeq
  <2> QED
    BY <2>2 DEF RevisionRow
<1>5. \A a \in DOMAIN attempts :
        /\ marked(a) \in AttemptRow
        /\ marked(a).record = attempts[a].record /\ marked(a).source = attempts[a].source
        /\ marked(a).revision = attempts[a].revision
        /\ marked(a).state # "deleted" => attempts[a].source \notin gone /\ attempts[a].state # "deleted"
  <2>1. SUFFICES ASSUME NEW a \in DOMAIN attempts
                 PROVE  /\ marked(a) \in AttemptRow
                        /\ marked(a).record = attempts[a].record /\ marked(a).source = attempts[a].source
                        /\ marked(a).revision = attempts[a].revision
                        /\ marked(a).state # "deleted" => attempts[a].source \notin gone /\ attempts[a].state # "deleted"
    OBVIOUS
  <2>2. attempts[a] \in AttemptRow
    BY <1>3, ElementOfSeq
  <2> DEFINE state == IF attempts[a].source \in gone THEN "deleted" ELSE attempts[a].state
  <2>3. /\ state \in Pending \cup {"failed", "finalized", "deleted"}
        /\ state # "deleted" => attempts[a].source \notin gone /\ attempts[a].state # "deleted"
    BY <2>2 DEF AttemptRow
  <2>4. marked(a) = [attempts[a] EXCEPT !.state = state]
    OBVIOUS
  <2> HIDE DEF state, marked
  <2> QED
    BY <2>2, <2>3, <2>4 DEF AttemptRow
<1>6. /\ DOMAIN revisions' = DOMAIN revisions /\ DOMAIN attempts' = DOMAIN attempts
      /\ \A i \in DOMAIN revisions : revisions'[i] = bared(i)
      /\ \A a \in DOMAIN attempts : attempts'[a] = marked(a)
  BY <1>1
<1> HIDE DEF bared, marked
<1>7. revisions' \in Seq(RevisionRow) /\ attempts' \in Seq(AttemptRow)
  BY <1>1, <1>3, <1>4, <1>5, IsASeq
<1>8. \A s \in Source : publish'[s] = IF s \in gone THEN NoRow ELSE publish[s]
  BY <1>1
<1>9. TablesInv'
  <2>1. owner' \in [Source -> Record \cup {NoRecord}]
    BY <1>1 DEF Inv, TablesInv
  <2>2. publish' = [s \in Source |->
          [state |-> publish'[s].state, revision |-> publish'[s].revision, view |-> publish'[s].view]]
    BY <1>1 DEF Inv, TablesInv, NoRow
  <2>3. decision' = [r \in Record |-> decision'[r]]
    <3> HIDE DEF stripped
    <3> QED
      BY <1>1
  <2> QED
    BY <1>1, <1>7, <2>1, <2>2, <2>3 DEF Inv, TablesInv, RequestInv
<1>10. LogInv'
  <2>1. \A s \in Source : OwnRow(s)'
    <3>1. SUFFICES ASSUME NEW s \in Source, publish'[s].state # "none"
                   PROVE  /\ publish'[s].revision \in DOMAIN revisions'
                          /\ revisions'[publish'[s].revision].source = s
      BY DEF OwnRow
    <3>2. s \notin gone /\ publish'[s] = publish[s]
      BY <3>1, <1>8 DEF NoRow
    <3>3. publish[s].revision \in DOMAIN revisions /\ revisions[publish[s].revision].source = s
      BY <3>1, <3>2 DEF Inv, LogInv, OwnRow
    <3> QED
      BY <3>2, <3>3, <1>4, <1>6
  <2>2. \A a \in DOMAIN attempts' : OwnAttempt(a)'
    <3>1. SUFFICES ASSUME NEW a \in DOMAIN attempts, marked(a).state # "deleted"
                   PROVE  /\ marked(a).revision \in DOMAIN revisions'
                          /\ revisions'[marked(a).revision].record = marked(a).record
                          /\ revisions'[marked(a).revision].source = marked(a).source
      BY <1>6 DEF OwnAttempt
    <3>2. /\ attempts[a].revision \in DOMAIN revisions
          /\ revisions[attempts[a].revision].record = attempts[a].record
          /\ revisions[attempts[a].revision].source = attempts[a].source
      BY <3>1, <1>5 DEF Inv, LogInv, OwnAttempt
    <3> QED
      BY <3>1, <3>2, <1>4, <1>5, <1>6
  <2>3. \A r \in Record : Locked(r)' => Known(waits[r].source)'
    <3>1. SUFFICES ASSUME NEW r \in Record, Locked(r)
                   PROVE  \E i \in DOMAIN revisions' : revisions'[i].source = waits[r].source
      BY <1>1 DEF Locked, Known
    <3>2. PICK i \in DOMAIN revisions : revisions[i].source = waits[r].source
      BY <3>1 DEF Inv, LogInv, Known
    <3> QED
      BY <3>1, <3>2, <1>2, <1>4, <1>6
  <2> QED
    BY <2>1, <2>2, <2>3, <1>1 DEF LogInv, Known
<1>11. DecisionInv'
  <2>1. ASSUME NEW r \in Record, Locked(r)'
        PROVE  /\ Locked(r) /\ waits'[r] = waits[r]
               /\ decision'[r].source = decision[r].source /\ decision'[r].quality = decision[r].quality
    BY <1>1, <1>2, <2>1 DEF Columns, Locked
  <2>2. \A s \in Source : Executing(s)' => publish'[s] = publish[s]
    BY <1>8 DEF NoRow, Executing
  <2> QED
    BY <2>1, <2>2, DecisionKept DEF Inv
<1> QED
  BY <1>9, <1>10, <1>11 DEF Inv

LEMMA DeletionsKeep ==
  ASSUME Inv, ScanApplies \/ Disappear \/ Cleanup
  PROVE  Inv'
<1>1. CASE ScanApplies
  <2>1. Deletes(scan.gone, scan.refresh) /\ UNCHANGED <<usable, waits, request>>
    BY <1>1 DEF ScanApplies
  <2> QED
    BY <2>1, DeletesKeep DEF Inv, TablesInv
<1>2. CASE Disappear
  <2>1. PICK missing \in SUBSET Source : \E published, asked :
          /\ Deletes(missing \ published, asked)
          /\ usable' = [s \in Source |-> IF s \in published THEN FALSE ELSE usable[s]]
          /\ UNCHANGED <<waits, request>>
    BY <1>2 DEF Disappear
  <2>2. usable' \in [Source -> BOOLEAN]
    BY <2>1 DEF Inv, TablesInv
  <2> QED
    BY <2>1, <2>2, DeletesKeep
<1>3. CASE Cleanup
  <2>1. PICK gone : Deletes(gone, {}) /\ UNCHANGED <<usable, waits, request>>
    BY <1>3 DEF Cleanup
  <2> QED
    BY <2>1, DeletesKeep DEF Inv, TablesInv
<1> QED
  BY <1>1, <1>2, <1>3

-----------------------------------------------------------------------------
(* The import.                                                              *)

\* A source is judged again, and its record decided when nobody waits for it.
LEMMA ImportDecisionKeeps ==
  ASSUME Inv, ImportInv, ImportRejects \/ ImportDefers
  PROVE  Inv'
<1>1. /\ import.record \in Record /\ ~Locked(import.record) /\ usable' \in [Source -> BOOLEAN]
      /\ \E new : decision' = [decision EXCEPT ![import.record] = new]
      /\ UNCHANGED <<owner, revisions, attempts, waits, publish, request>>
  BY DEF ImportRejects, ImportDefers, ImportDecides, ImportInv, Inv, TablesInv
<1>2. /\ decision' = [r \in Record |-> decision'[r]]
      /\ \A r \in Record : Locked(r) => decision'[r] = decision[r]
  BY <1>1 DEF Inv, TablesInv
<1>3. TablesInv'
  BY <1>1, <1>2 DEF Inv, TablesInv, RequestInv
<1>4. LogInv'
  BY <1>1 DEF Inv, LogInv, OwnRow, OwnAttempt, Known, Locked
<1>5. DecisionInv'
  BY <1>1, <1>2, DecisionKept DEF Inv, Locked, Executing
<1> QED
  BY <1>3, <1>4, <1>5 DEF Inv

LEMMA ImportPreparesKeeps ==
  ASSUME Inv, ImportInv, NEW path \in Path, ImportPrepares(path)
  PROVE  Inv'
<1> DEFINE row == Revision(import.record, import.source, path, FALSE)
           new == [record |-> import.record, source |-> import.source, revision |-> Len(revisions) + 1, state |-> "prepared"]
<1>1. /\ import.record \in Record /\ import.source \in Source /\ ~Locked(import.record)
      /\ usable' \in [Source -> BOOLEAN] /\ revisions' = Append(revisions, row) /\ attempts' = Append(attempts, new)
      /\ UNCHANGED <<owner, waits, publish, request>>
  BY DEF ImportPrepares, ImportDecides, ImportInv, Inv, TablesInv
<1>2. /\ decision' = [r \in Record |-> decision'[r]]
      /\ \A r \in Record : Locked(r) => decision'[r] = decision[r]
  BY <1>1 DEF ImportPrepares, ImportDecides, Inv, TablesInv
<1>3. row \in RevisionRow /\ row.record = import.record /\ row.source = import.source
  BY <1>1 DEF Revision, RevisionRow
<1>4. revisions \in Seq(RevisionRow) /\ attempts \in Seq(AttemptRow) /\ Len(revisions) \in Nat
  BY LenProperties DEF Inv, TablesInv
<1>5. new \in AttemptRow
  BY <1>1, <1>4 DEF AttemptRow, Pending
<1>6. /\ new.revision = Len(revisions) + 1 /\ new.record = import.record /\ new.source = import.source
  OBVIOUS
<1> HIDE DEF row, new
<1>7. Grows /\ Len(revisions) + 1 \in DOMAIN revisions' /\ revisions'[Len(revisions) + 1] = row
  BY <1>1, <1>3, <1>4, AppendedOne
<1>8. /\ attempts' \in Seq(AttemptRow) /\ Len(attempts') = Len(attempts) + 1
      /\ \A a \in 1..Len(attempts) : attempts'[a] = attempts[a]
      /\ attempts'[Len(attempts) + 1] = new
  BY <1>1, <1>4, <1>5, AppendProperties
<1>9. \A a \in DOMAIN attempts' : (a \in DOMAIN attempts /\ attempts'[a] = attempts[a]) \/ attempts'[a] = new
  <2>1. Len(attempts) \in Nat /\ DOMAIN attempts = 1..Len(attempts) /\ DOMAIN attempts' = 1..Len(attempts')
    BY <1>4, <1>8, LenProperties
  <2> QED
    BY <1>8, <2>1
<1>10. TablesInv'
  BY <1>1, <1>2, <1>7, <1>8 DEF Inv, TablesInv, RequestInv, Grows
<1>11. LogInv'
  BY <1>1, <1>3, <1>6, <1>7, <1>9, LogKept DEF Inv
<1>12. DecisionInv'
  BY <1>1, <1>2, DecisionKept DEF Inv, Locked, Executing
<1> QED
  BY <1>10, <1>11, <1>12 DEF Inv

\* Only the steps of the import write it, and its verdict is the one for the candidates of that moment.
LEMMA ImportKept ==
  ASSUME Inv, ImportInv, [Next]_vars
  PROVE  ImportInv'
<1>1. ASSUME NEW s \in Source, ImportBegins(s)
      PROVE  ImportInv'
  BY <1>1 DEF ImportBegins, ImportInv
<1>2. CASE ImportJudges
  <2> DEFINE r == import.record
             excluded == [usable EXCEPT ![import.source] = FALSE]
             verdict == [loaded |-> decision[r],
                         decided |-> Evaluate(CandidatesIn(owner, excluded, r), decision[r], NoSource)]
  <2>1. import # Nothing /\ import' = [import EXCEPT !.view = verdict]
    BY <1>2 DEF ImportJudges
  <2>2. DecidedFor(verdict.decided, verdict.loaded, r)
    <3>1. owner \in [Source -> Record \cup {NoRecord}] /\ excluded \in [Source -> BOOLEAN]
      BY DEF Inv, TablesInv
    <3> HIDE DEF excluded
    <3> QED
      BY <3>1 DEF DecidedFor
  <2> HIDE DEF verdict
  <2>3. import' = [source |-> import.source, record |-> import.record, view |-> verdict]
    BY <2>1 DEF ImportInv
  <2>4. import.source \in Source /\ import.record \in Record
    BY <2>1 DEF ImportInv
  <2> QED
    BY <2>2, <2>3, <2>4 DEF ImportInv, DecidedFor
<1>3. CASE ImportEnds \/ ImportRejects \/ ImportDefers \/ \E path \in EditPaths \cup Range(InitialPath) : ImportPrepares(path)
  BY <1>3 DEF ImportEnds, ImportRejects, ImportDefers, ImportPrepares, ImportDecides, ImportInv
<1>4. ASSUME import' = import
      PROVE  ImportInv'
  BY <1>4 DEF ImportInv, DecidedFor
<1>5. ASSUME NEW r \in Record, Refreshes(r) \/ Withdraw(r)
      PROVE  import' = import
  BY <1>5 DEF Refreshes, RefreshRun, RefreshWaits, RefreshResumes, Withdraw
<1>6. ASSUME NEW s \in Source, PublishReads(s) \/ PublishFinishes(s) \/ PublishAborted(s)
      PROVE  import' = import
  BY <1>6 DEF PublishReads, PublishFinishes, PublishAborted, PublishStale, PublishFails, PublishReviewed,
              PublishQuarantines, PublishUnchanged, PublishConflicts, PublishPrepares
<1>7. ASSUME NEW a \in DOMAIN attempts, Settles(a)
      PROVE  import' = import
  BY <1>7 DEF Settles, Expose, Finalize, FinalizeFails
<1>8. ASSUME NEW s \in Source, NEW q \in Record, Associate(s, q) \/ Attach(s, q) \/ SelectReads(q, s)
      PROVE  import' = import
  BY <1>8 DEF Associate, Attach, SelectReads
<1>9. ASSUME NEW path, AssociateFolder(path) \/ RemapWrites(path) \/ \E s \in Source : EditReads(s, path)
      PROVE  import' = import
  BY <1>9 DEF AssociateFolder, RemapWrites, EditReads
<1>10. CASE EditWrites \/ SelectWrites \/ RequestFails \/ RemapReads \/ RemapLists \/ RemapConflicts \/ Sweep
  BY <1>4, <1>10 DEF EditWrites, SelectWrites, RequestFails, RemapReads, RemapLists, RemapConflicts, Sweep
<1>11. CASE (\E s \in Source : FileVanishes(s)) \/ ScanPlans \/ ScanApplies \/ ScanAborts \/ Disappear \/ Cleanup
  BY <1>4, <1>11 DEF FileVanishes, ScanPlans, ScanApplies, ScanAborts, Disappear, Cleanup
<1>12. CASE UNCHANGED vars
  BY <1>4, <1>12 DEF vars
<1> QED
  BY <1>1, <1>2, <1>3, <1>4, <1>5, <1>6, <1>7, <1>8, <1>9, <1>10, <1>11, <1>12 DEF Next

-----------------------------------------------------------------------------
(* The theorem of the invariant.                                            *)

LEMMA NextInv == Inv /\ ImportInv /\ [Next]_vars => Inv' /\ ImportInv'
<1> SUFFICES ASSUME Inv, ImportInv, [Next]_vars
             PROVE  Inv'
  BY ImportKept
<1>1. ASSUME NEW r \in Record, Refreshes(r)
      PROVE  Inv'
  BY <1>1, RefreshRunKeeps, RefreshWaitsKeeps, RefreshResumesKeeps DEF Refreshes
<1>2. ASSUME NEW s \in Source, PublishReads(s) \/ PublishFinishes(s) \/ PublishAborted(s)
      PROVE  Inv'
  BY <1>2, PublishReadsKeeps, PublishAbortedKeeps, PublishFlushesKeeps, PublishQuarantinesKeeps, PublishPreparesKeeps
     DEF PublishFinishes
<1>3. ASSUME NEW a \in DOMAIN attempts, Settles(a)
      PROVE  Inv'
  BY <1>3, SettlesKeep
<1>4. ASSUME NEW s \in Source, NEW q \in Record, Associate(s, q) \/ Attach(s, q)
      PROVE  Inv'
  BY <1>4, AssociateKeeps, AttachKeeps
<1>5. ASSUME NEW path \in EditPaths, AssociateFolder(path) \/ RemapWrites(path)
      PROVE  Inv'
  BY <1>5, AssociateFolderKeeps, RemapKeeps
<1>6. CASE EditWrites \/ SelectWrites
  BY <1>6, EditsKeep
<1>7. CASE ScanApplies \/ Disappear \/ Cleanup
  BY <1>7, DeletionsKeep
<1>8. CASE ImportRejects \/ ImportDefers
  BY <1>8, ImportDecisionKeeps
<1>9. ASSUME NEW path \in EditPaths \cup Range(InitialPath), ImportPrepares(path)
      PROVE  Inv'
  <2>1. path \in Path
    BY LibraryRecordAssumption DEF Range
  <2> QED
    BY <1>9, <2>1, ImportPreparesKeeps
<1>10. CASE UNCHANGED vars
  BY <1>10, AsideKeeps DEF vars, Inv, TablesInv, RequestInv
<1> QED
  BY <1>1, <1>2, <1>3, <1>4, <1>5, <1>6, <1>7, <1>8, <1>9, <1>10, RequestsKeep DEF Next

\* Job rows, publication attempts and waiting refreshes name revisions of their source whatever the
\* transactions in between, and what a job decided before it held a lock it decided for the record.
THEOREM InductiveInvariant == Spec => [](Inv /\ ImportInv)
<1>1. Init => ImportInv
  BY DEF Init, ImportInv
<1> QED
  BY <1>1, InitInv, NextInv, PTL DEF Spec

\* An attempt, and so a publication, carries a revision of its own record and source: the publish row is
\* shared by all records a source moved between, and checked once it holds the lock (finalize.py:201).
THEOREM AttemptsOwn == Spec => []AttemptsOwnTheirRevision
<1>1. Inv => AttemptsOwnTheirRevision
  BY DEF Inv, LogInv, OwnAttempt, AttemptsOwnTheirRevision
<1> QED
  BY <1>1, InductiveInvariant, PTL

-----------------------------------------------------------------------------
(* What a step may make of an effective source that stays eligible.         *)

\* The record leaves an effective source that it could keep, and no reviewer asked for that.
Leaves(r) ==
  /\ decision'[r].source # decision[r].source
  /\ decision[r].source \in Choosable(r) /\ decision[r].source \in Choosable(r)'
  /\ request' = request

Justified(r) ==
  \/ /\ ~\E x \in Source : PublishOf(x, r)
     /\ decision[r].quality = NoQuality \/ Greater(decision'[r].quality, decision[r].quality)
  \/ \E x \in Source :
       /\ PublishOf(x, r)
       /\ DecidedOnOthers(x) \/ decision'[r].source = Best(Candidates(r)').id
  \/ /\ RejectionOf(r)
     /\ RejectedOnOthers(r) \/ decision'[r].source = Best(Candidates(r)').id
  \/ Locked(r) /\ waits[r].decided.key # SetKey(Candidates(r))

\* The effective source of a record that leaves it is a candidate, before and after.
LEMMA LeavesCandidate ==
  ASSUME NEW r, Leaves(r)
  PROVE  /\ decision[r].source # NoSource
         /\ \E c \in EligibleOf(CandidatesIn(owner, usable, r)) : c.id = decision[r].source
         /\ \E c \in EligibleOf(CandidatesIn(owner', usable', r)) : c.id = decision[r].source
<1>1. /\ \E c \in EligibleOf(CandidatesIn(owner, usable, r)) : c.id = decision[r].source
      /\ \E c \in EligibleOf(CandidatesIn(owner', usable', r)) : c.id = decision[r].source
  BY ChoosableIs DEF Leaves
<1>2. decision[r].source \in Source
  BY <1>1, EligibleIds
<1> QED
  BY <1>1, <1>2, LibraryRecordAssumption

\* Decided again among the sources it has then, a record leaves an eligible one for a better one only.
LEMMA DecidedAgainJustified ==
  ASSUME NEW r \in Record, Leaves(r), \A x \in Source : ~PublishOf(x, r),
         decision'[r] = Evaluate(CandidatesIn(owner', usable', r), decision[r], NoSource)
  PROVE  Justified(r)
<1> DEFINE candidates == CandidatesIn(owner', usable', r)
<1>1. /\ decision[r].source # NoSource
      /\ \E c \in EligibleOf(candidates) : c.id = decision[r].source
      /\ Evaluate(candidates, decision[r], NoSource).source # decision[r].source
  BY LeavesCandidate DEF Leaves
<1> HIDE DEF candidates
<1>2. decision[r].quality # NoQuality =>
        Greater(Evaluate(candidates, decision[r], NoSource).quality, decision[r].quality)
  BY <1>1, KeptOrImproved
<1> QED
  BY <1>2 DEF Justified, candidates

LEMMA MovesJustified ==
  ASSUME Inv, NEW r \in Record, Leaves(r),
         \/ \E s \in Source, q \in Record : Associate(s, q) \/ Attach(s, q)
         \/ \E path \in EditPaths : AssociateFolder(path)
  PROVE  Justified(r)
<1>1. UNCHANGED <<usable, publish>>
  BY DEF Associate, Attach, AssociateFolder
<1>2. decision'[r] = Evaluate(CandidatesIn(owner', usable, r), decision[r], NoSource)
  <2>0. decision = [x \in Record |-> decision[x]] /\ decision'[r] # decision[r]
    BY DEF Leaves, Inv, TablesInv
  <2>1. ASSUME NEW s \in Source, NEW q \in Record, Associate(s, q)
        PROVE  decision'[r] = Evaluate(CandidatesIn(owner', usable, r), decision[r], NoSource)
    <3>1. \E touched : decision' = [x \in Record |->
             IF x \in touched THEN DecidedAgain(decision[x], owner', x) ELSE decision[x]]
      BY <2>1 DEF Associate
    <3> QED
      BY <2>0, <3>1 DEF DecidedAgain
  <2>2. ASSUME NEW s \in Source, NEW q \in Record, Attach(s, q)
        PROVE  decision'[r] = Evaluate(CandidatesIn(owner', usable, r), decision[r], NoSource)
    <3>1. decision' = [decision EXCEPT ![q] = Evaluate(CandidatesIn(owner', usable, q), decision[q], NoSource)]
      BY <2>2 DEF Attach
    <3> QED
      BY <2>0, <3>1
  <2>3. ASSUME NEW path \in EditPaths, AssociateFolder(path)
        PROVE  decision'[r] = Evaluate(CandidatesIn(owner', usable, r), decision[r], NoSource)
    <3>1. \E touched : decision' = [x \in Record |->
             IF x \in touched THEN DecidedAgain(decision[x], owner', x) ELSE decision[x]]
      BY <2>3 DEF AssociateFolder
    <3> QED
      BY <2>0, <3>1 DEF DecidedAgain
  <2> QED
    BY <2>1, <2>2, <2>3
<1>3. \A x \in Source : ~PublishOf(x, r)
  BY <1>1 DEF PublishOf
<1> QED
  BY <1>1, <1>2, <1>3, DecidedAgainJustified

\* What was decided for candidates with the key of others was decided for them.
LEMMA DecidedForSame ==
  ASSUME NEW d, NEW loaded, NEW r \in Record, DecidedFor(d, loaded, r),
         NEW owners \in [Source -> Record \cup {NoRecord}], NEW usables \in [Source -> BOOLEAN],
         d.key = SetKey(CandidatesIn(owners, usables, r))
  PROVE  d = Evaluate(CandidatesIn(owners, usables, r), loaded, NoSource)
<1>1. PICK others \in [Source -> Record \cup {NoRecord}], uses \in [Source -> BOOLEAN] :
        d = Evaluate(CandidatesIn(others, uses, r), loaded, NoSource)
  BY DEF DecidedFor
<1>2. d.key = SetKey(CandidatesIn(others, uses, r))
  BY <1>1, EvaluatedFor
<1>3. SetKey(CandidatesIn(others, uses, r)) = SetKey(CandidatesIn(owners, usables, r))
  BY <1>2
<1>4. CandidatesIn(others, uses, r) = CandidatesIn(owners, usables, r)
  BY <1>3, KeyAssumption, Zenon
<1> QED
  BY <1>1, <1>4

LEMMA RefreshJustified ==
  ASSUME Inv, NEW r \in Record, Leaves(r), NEW q \in Record, Refreshes(q)
  PROVE  Justified(r)
<1>0. decision = [x \in Record |-> decision[x]] /\ decision'[r] # decision[r]
  BY DEF Leaves, Inv, TablesInv
<1>1. CASE RefreshRun(q)
  <2> DEFINE d == Evaluate(Candidates(q), decision[q], NoSource)
             s == d.source
             asks == Publishes(q, d)
  <2>1. /\ decision' = [decision EXCEPT ![q] = d] /\ UNCHANGED <<owner, usable>>
        /\ asks => ~Executing(s)
        /\ publish' = IF asks THEN [publish EXCEPT ![s] = Row(WantedRevision(q, s))] ELSE publish
    BY <1>1 DEF RefreshRun
  <2>2. d = Evaluate(CandidatesIn(owner', usable', q), decision[q], NoSource)
    BY <2>1 DEF Candidates
  <2> HIDE DEF d, asks
  <2>3. q = r /\ decision'[r] = d
    BY <1>0, <2>1
  <2>4. \A x \in Source : ~PublishOf(x, r)
    BY <2>1 DEF PublishOf, Inv, TablesInv
  <2> QED
    BY <2>2, <2>3, <2>4, DecidedAgainJustified
<1>2. CASE RefreshWaits(q)
  BY <1>0, <1>2 DEF RefreshWaits
<1>3. CASE RefreshResumes(q)
  <2> DEFINE s == waits[q].source
  <2>1. /\ decision' = [decision EXCEPT ![q] = waits[q].decided] /\ Locked(q) /\ ~Executing(s)
        /\ publish' = IF publish[s].state = "queued"
                      THEN [publish EXCEPT ![s] = Row(WantedRevision(q, s))] ELSE publish
    BY <1>3 DEF RefreshResumes
  <2>2. q = r /\ decision'[r] = waits[r].decided
    BY <1>0, <2>1
  <2>3. \A x \in Source : ~PublishOf(x, r)
    BY <2>1 DEF PublishOf, Inv, TablesInv
  <2>4. SUFFICES ASSUME waits[r].decided.key = SetKey(Candidates(r)), decision[r].quality # NoQuality
                 PROVE  Greater(decision'[r].quality, decision[r].quality)
    BY <2>1, <2>2, <2>3 DEF Justified
  <2>5. PICK loaded : /\ DecidedFor(waits[r].decided, loaded, r)
                      /\ loaded.source = decision[r].source /\ loaded.quality = decision[r].quality
    BY <2>1, <2>2 DEF Inv, DecisionInv, Waited
  <2>6. waits[r].decided = Evaluate(Candidates(r), loaded, NoSource)
    BY <2>4, <2>5, DecidedForSame DEF Candidates, Inv, TablesInv
  <2>7. \E c \in EligibleOf(Candidates(r)) : c.id = loaded.source
    BY <2>5, LeavesCandidate DEF Candidates
  <2>8. loaded.source # NoSource /\ waits[r].decided.source # loaded.source
    BY <2>2, <2>5, LeavesCandidate DEF Leaves
  <2> QED
    BY <2>2, <2>4, <2>5, <2>6, <2>7, <2>8, KeptOrImproved
<1> QED
  BY <1>1, <1>2, <1>3 DEF Refreshes

\* What a publish decided, and the record did not have, is the best of what the record has now: unless
\* the candidates it decided on are other ones.
LEMMA DecidedIsBest ==
  ASSUME Inv, NEW s \in Source, Executing(s), publish[s].view.record \in Record,
         EligibleOf(Candidates(publish[s].view.record)) # {},
         publish[s].view.decided.source # publish[s].view.loaded.source, ~DecidedOnOthers(s)
  PROVE  publish[s].view.decided.source = Best(Candidates(publish[s].view.record)).id
<1> DEFINE view == publish[s].view
           r == view.record
<1>1. DecidedFor(view.decided, view.loaded, r)
  BY DEF Inv, DecisionInv, Evaluated
<1>2. view.decided.key = SetKey(Candidates(r))
  BY DEF DecidedOnOthers
<1>3. view.decided = Evaluate(Candidates(r), view.loaded, NoSource)
  BY <1>1, <1>2, DecidedForSame DEF Candidates, Inv, TablesInv
<1> HIDE DEF view
<1> QED
  BY <1>3, ChangeIsBest DEF view

\* The decision of the record an ending publish read.
LEMMA FlushedSource ==
  ASSUME NEW stored, NEW loaded, NEW new
  PROVE  Flush(stored, loaded, new).source = IF new.source = loaded.source THEN stored.source ELSE new.source
BY DEF Flush, Columns

LEMMA PublishFlushesJustified ==
  ASSUME Inv, NEW r \in Record, Leaves(r), NEW s \in Source,
         PublishStale(s) \/ PublishReviewed(s) \/ PublishUnchanged(s) \/ PublishConflicts(s)
  PROVE  Justified(r)
<1> DEFINE view == publish[s].view
<1>1. /\ Executing(s) /\ publish' = [publish EXCEPT ![s] = NoRow] /\ UNCHANGED <<owner, usable>>
      /\ decision' = [decision EXCEPT ![view.record] = Flush(decision[view.record], view.loaded, view.decided)]
  BY DEF PublishStale, PublishReviewed, PublishUnchanged, PublishConflicts, Ready, PublishHolds, PublishEnds
<1>2. /\ decision = [x \in Record |-> decision[x]] /\ publish'[s] = NoRow
      /\ decision'[r].source # decision[r].source
  BY <1>1 DEF Leaves, Inv, TablesInv
<1>3. view.record = r /\ decision'[r] = Flush(decision[r], view.loaded, view.decided)
  <2> HIDE DEF view
  <2> QED
    BY <1>1, <1>2
<1>4. view.decided.source # view.loaded.source /\ decision'[r].source = view.decided.source
  BY <1>2, <1>3, FlushedSource
<1>5. PublishOf(s, r)
  BY <1>1, <1>2, <1>3 DEF PublishOf, Executing, NoRow
<1>6. EligibleOf(Candidates(r)) # {} /\ Candidates(r)' = Candidates(r)
  BY <1>1, LeavesCandidate DEF Candidates
<1>7. DecidedOnOthers(s) \/ decision'[r].source = Best(Candidates(r)').id
  BY <1>1, <1>3, <1>4, <1>6, DecidedIsBest
<1> QED
  BY <1>5, <1>7 DEF Justified

LEMMA BestOfRecord ==
  ASSUME NEW r, EligibleOf(Candidates(r)) # {}
  PROVE  LET b == Best(Candidates(r)).id IN b \in Source /\ owner[b] = r /\ Eligible(Candidate(b, usable[b]))
<1> DEFINE b == Best(CandidatesIn(owner, usable, r)).id
<1>1. EligibleOf(CandidatesIn(owner, usable, r)) # {}
  BY DEF Candidates
<1>2. b \in Source /\ owner[b] = r /\ Eligible(Candidate(b, usable[b]))
  BY <1>1, CandidatesWell, BestIsEligible, EligibleAre
<1> QED
  BY <1>2 DEF Candidates

LEMMA PublishPreparesJustified ==
  ASSUME Inv, NEW r \in Record, Leaves(r), NEW s \in Source, PublishPrepares(s) \/ PublishQuarantines(s)
  PROVE  Justified(r)
<1> DEFINE view == publish[s].view
           candidates == CandidatesIn(owner', usable', view.record)
           first == Flush(decision[view.record], view.loaded, view.decided)
           again == Evaluate(candidates, view.decided, NoSource)
<1>1. /\ Executing(s) /\ publish' = [publish EXCEPT ![s] = NoRow] /\ owner' = owner
      /\ decision' = [decision EXCEPT ![view.record] = Flush(first, view.decided, again)]
      /\ view.decided.source \in {NoSource, s}
      /\ usable' = [usable EXCEPT ![s] = TRUE] \/ usable' = [usable EXCEPT ![s] = FALSE]
  BY DEF PublishPrepares, PublishQuarantines, Ready, PublishHolds, Superseded, Candidates
<1>2. /\ decision = [x \in Record |-> decision[x]] /\ publish'[s] = NoRow
      /\ decision'[r].source # decision[r].source
  BY <1>1 DEF Leaves, Inv, TablesInv
<1> HIDE DEF first, again
<1>3. view.record = r /\ decision'[r] = Flush(first, view.decided, again)
  <2> HIDE DEF view
  <2> QED
    BY <1>1, <1>2
<1>4. PublishOf(s, r)
  BY <1>1, <1>2, <1>3 DEF PublishOf, Executing, NoRow
<1>5. EligibleOf(Candidates(r)) # {} /\ EligibleOf(candidates) # {} /\ Candidates(r)' = candidates
  BY <1>3, LeavesCandidate DEF Candidates
<1>6. CASE again.source # view.decided.source
  <2>1. decision'[r].source = again.source
    BY <1>3, <1>6, FlushedSource
  <2>2. again.source = Best(candidates).id
    <3> HIDE DEF candidates, view
    <3> QED
      BY <1>5, <1>6, ChangeIsBest DEF again
  <2> QED
    BY <1>4, <1>5, <2>1, <2>2 DEF Justified
<1>7. CASE again.source = view.decided.source
  <2>1. decision'[r].source = first.source
    BY <1>3, <1>7, FlushedSource
  <2>2. view.decided.source # view.loaded.source /\ decision'[r].source = view.decided.source
    BY <1>2, <1>3, <2>1, FlushedSource DEF first
  <2>3. CASE usable' = [usable EXCEPT ![s] = TRUE]
    <3>1. SUFFICES ASSUME ~DecidedOnOthers(s)
                   PROVE  decision'[r].source = Best(Candidates(r)').id
      BY <1>4 DEF Justified
    <3>2. view.decided.source = Best(Candidates(r)).id
      BY <1>1, <1>3, <1>5, <2>2, <3>1, DecidedIsBest
    <3>3. usable[s] = TRUE
      <4>1. usable \in [Source -> BOOLEAN]
        BY DEF Inv, TablesInv
      <4>3. view.decided.source \in Source /\ Eligible(Candidate(view.decided.source, usable[view.decided.source]))
        BY <1>5, <3>2, BestOfRecord
      <4>4. view.decided.source = s
        BY <1>1, <4>3, LibraryRecordAssumption
      <4> QED
        BY <4>1, <4>3, <4>4 DEF Eligible, Candidate, ExcludedStates
    <3>4. usable' = usable
      BY <2>3, <3>3 DEF Inv, TablesInv
    <3>5. candidates = Candidates(r)
      BY <1>1, <1>3, <3>4 DEF Candidates
    <3> QED
      BY <1>5, <2>2, <3>2, <3>5
  <2>4. CASE usable' = [usable EXCEPT ![s] = FALSE]
    <3>1. ~\E c \in EligibleOf(candidates) : c.id = view.decided.source
      <4>1. usable'[s] = FALSE
        BY <2>4 DEF Inv, TablesInv
      <4>2. ~Eligible(Candidate(s, usable'[s]))
        BY <4>1 DEF Eligible, Candidate, ExcludedStates
      <4>3. NoSource \notin Source
        BY LibraryRecordAssumption
      <4> HIDE DEF view
      <4>4. ASSUME \E c \in EligibleOf(CandidatesIn(owner', usable', view.record)) : c.id = view.decided.source
            PROVE  FALSE
        <5>1. view.decided.source \in Source /\ Eligible(Candidate(view.decided.source, usable'[view.decided.source]))
          BY <4>4, EligibleAre
        <5> QED
          BY <1>1, <4>2, <4>3, <5>1
      <4> QED
        BY <4>4
    <3>2. view.decided.version = PolicyVersion
      <4>1. \E known, previous : view.decided = Evaluate(known, previous, NoSource)
        BY <1>1 DEF Inv, DecisionInv, Evaluated, DecidedFor
      <4> QED
        BY <4>1, EvaluatedFor
    <3>3. again.source = Best(candidates).id
      <4> HIDE DEF candidates, view
      <4> QED
        BY <1>5, <3>1, <3>2, LostIsReplaced DEF again
    <3> QED
      BY <1>4, <1>5, <1>7, <2>2, <3>3 DEF Justified
  <2> QED
    BY <1>1, <2>3, <2>4
<1> QED
  BY <1>6, <1>7

LEMMA ImportJustified ==
  ASSUME Inv, ImportInv, NEW r \in Record, Leaves(r),
         ImportRejects \/ ImportDefers \/ \E path \in EditPaths \cup Range(InitialPath) : ImportPrepares(path)
  PROVE  Justified(r)
<1>0. decision = [x \in Record |-> decision[x]] /\ decision'[r] # decision[r]
  BY DEF Leaves, Inv, TablesInv
<1>1. CASE ImportRejects
  <2> DEFINE view == import.view
  <2>1. /\ import # Nothing /\ view # Nothing /\ import' = Nothing
        /\ usable' = [usable EXCEPT ![import.source] = FALSE] /\ owner' = owner
        /\ decision' = [decision EXCEPT ![import.record] = Flush(decision[import.record], view.loaded, view.decided)]
    BY <1>1 DEF ImportRejects
  <2>2. import.record = r /\ decision'[r] = Flush(decision[r], view.loaded, view.decided)
    <3> HIDE DEF view
    <3> QED
      BY <1>0, <2>1
  <2>3. RejectionOf(r)
    BY <2>1, <2>2 DEF RejectionOf
  <2>4. SUFFICES ASSUME ~RejectedOnOthers(r)
                 PROVE  decision'[r].source = Best(Candidates(r)').id
    BY <2>3 DEF Justified
  <2>5. view.decided.source # view.loaded.source /\ decision'[r].source = view.decided.source
    <3> HIDE DEF view
    <3> QED
      BY <2>2, FlushedSource DEF Leaves
  <2>6. view.decided.key = SetKey(CandidatesIn(owner', usable', r))
    BY <2>4, <2>5 DEF RejectedOnOthers, Candidates
  <2>7. DecidedFor(view.decided, view.loaded, r)
    BY <2>1, <2>2 DEF ImportInv
  <2>8. owner' \in [Source -> Record \cup {NoRecord}] /\ usable' \in [Source -> BOOLEAN]
    BY <2>1 DEF Inv, TablesInv
  <2> HIDE DEF view
  <2>9. view.decided = Evaluate(CandidatesIn(owner', usable', r), view.loaded, NoSource)
    BY <2>6, <2>7, <2>8, DecidedForSame
  <2>10. EligibleOf(CandidatesIn(owner', usable', r)) # {}
    BY LeavesCandidate
  <2> QED
    BY <2>5, <2>9, <2>10, ChangeIsBest DEF Candidates
<1>2. CASE ImportDefers \/ \E path \in EditPaths \cup Range(InitialPath) : ImportPrepares(path)
  <2>1. ImportDecides /\ UNCHANGED <<owner, publish>>
    BY <1>2 DEF ImportDefers, ImportPrepares
  <2>2. decision' = [decision EXCEPT ![import.record] =
          Evaluate(CandidatesIn(owner', usable', import.record), decision[import.record], NoSource)]
    BY <2>1 DEF ImportDecides
  <2>3. decision'[r] = Evaluate(CandidatesIn(owner', usable', r), decision[r], NoSource)
    BY <1>0, <2>2
  <2>4. \A x \in Source : ~PublishOf(x, r)
    BY <2>1 DEF PublishOf
  <2> QED
    BY <2>3, <2>4, DecidedAgainJustified
<1> QED
  BY <1>1, <1>2

\* A vanished source cannot be chosen any more.
LEMMA DeletesNeverLeaves ==
  ASSUME Inv, NEW r \in Record, NEW gone, NEW asked, Deletes(gone, asked)
  PROVE  ~Leaves(r)
<1>1. SUFFICES ASSUME Leaves(r)
               PROVE  FALSE
  OBVIOUS
<1>2. /\ owner' = [s \in Source |-> IF s \in gone THEN NoRecord ELSE owner[s]]
      /\ decision' = [q \in Record |-> [f \in Columns |->
           IF f \in {"source", "baseline"} /\ decision[q][f] \in gone THEN NoSource ELSE decision[q][f]]]
  BY DEF Deletes
<1>3. decision[r].source \in gone
  BY <1>1, <1>2 DEF Leaves, Columns
<1>4. decision[r].source \in Source /\ owner'[decision[r].source] = r
  <2>1. \E c \in EligibleOf(CandidatesIn(owner', usable', r)) : c.id = decision[r].source
    BY <1>1, LeavesCandidate
  <2> QED
    BY <2>1, EligibleAre
<1> QED
  BY <1>2, <1>3, <1>4, LibraryRecordAssumption

LEMMA StepJustified ==
  ASSUME Inv, ImportInv, [Next]_vars, NEW r \in Record, Leaves(r)
  PROVE  Justified(r)
<1>1. ASSUME UNCHANGED decision
      PROVE  FALSE
  BY <1>1 DEF Leaves
<1>2. ASSUME request # Nothing, request' = Nothing
      PROVE  FALSE
  BY <1>2 DEF Leaves
<1>3. ASSUME NEW s \in Source, PublishReads(s) \/ PublishFinishes(s) \/ PublishAborted(s)
      PROVE  Justified(r)
  <2>1. CASE PublishReads(s) \/ PublishFails(s) \/ PublishAborted(s)
    BY <2>1, <1>1 DEF PublishReads, PublishFails, PublishAborted
  <2> QED
    BY <2>1, <1>3, PublishFlushesJustified, PublishPreparesJustified DEF PublishFinishes
<1>4. CASE (\E a \in DOMAIN attempts : Settles(a)) \/ UNCHANGED vars
  BY <1>1, <1>4 DEF Settles, Expose, Finalize, FinalizeFails, vars
<1>5. ASSUME NEW path \in EditPaths, RemapWrites(path)
      PROVE  FALSE
  BY <1>2, <1>5 DEF RemapWrites, RemapHolds
<1>6. CASE EditWrites \/ SelectWrites
  BY <1>2, <1>6 DEF EditWrites, SelectWrites
<1>7. CASE \/ \E s \in Source, path \in EditPaths : EditReads(s, path)
           \/ \E q \in Record, s \in Source : SelectReads(q, s)
           \/ RequestFails \/ RemapReads \/ RemapLists \/ RemapConflicts
           \/ \E s \in Source : FileVanishes(s)
           \/ ScanPlans \/ ScanAborts
           \/ \E s \in Source : ImportBegins(s)
           \/ ImportEnds \/ ImportJudges
           \/ \E q \in Record : Withdraw(q)
           \/ Sweep
  BY <1>1, <1>7 DEF EditReads, SelectReads, RequestFails, RemapReads, RemapLists, RemapConflicts, FileVanishes,
                    ScanPlans, ScanAborts, ImportBegins, ImportEnds, ImportJudges, Withdraw, Sweep
<1>8. CASE ScanApplies \/ Disappear \/ Cleanup
  <2>1. \E gone, asked : Deletes(gone, asked)
    BY <1>8 DEF ScanApplies, Disappear, Cleanup
  <2> QED
    BY <2>1, DeletesNeverLeaves
<1>9. CASE ImportRejects \/ ImportDefers \/ \E path \in EditPaths \cup Range(InitialPath) : ImportPrepares(path)
  BY <1>9, ImportJustified
<1> QED
  BY <1>3, <1>4, <1>5, <1>6, <1>7, <1>8, <1>9, RefreshJustified, MovesJustified DEF Next

\* Without a reviewer, a record leaves an effective source that it could keep only for a strictly better
\* one, or, when a publish (finalize.py:180) or a refused import flushes what it decided before it held
\* the lock, for the best of the record; one that decided on candidates that changed since, as a refresh
\* that waited may have, is the one exception.
THEOREM EligibleSourceKept == Spec => EligibleKept
<1>1. Inv /\ ImportInv /\ [Next]_vars => [\A r \in Record : Leaves(r) => Justified(r)]_vars
  BY StepJustified
<1>2. [\A r \in Record : Leaves(r) => Justified(r)]_vars =>
      [\A r \in Record :
         LET s == decision[r].source
         IN  (decision'[r].source # s /\ s \in Choosable(r) /\ s \in Choosable(r)' /\ request' = request)
             => \/ /\ ~\E x \in Source : PublishOf(x, r)
                   /\ decision[r].quality = NoQuality \/ Greater(decision'[r].quality, decision[r].quality)
                \/ \E x \in Source :
                     /\ PublishOf(x, r)
                     /\ DecidedOnOthers(x) \/ decision'[r].source = Best(Candidates(r)').id
                \/ /\ RejectionOf(r)
                   /\ RejectedOnOthers(r) \/ decision'[r].source = Best(Candidates(r)').id
                \/ Locked(r) /\ waits[r].decided.key # SetKey(Candidates(r))]_vars
  BY DEF Leaves, Justified
<1> QED
  BY <1>1, <1>2, InductiveInvariant, PTL DEF Spec, EligibleKept

-----------------------------------------------------------------------------
(* The invariant of the chain that carries a change to the published copy.  *)

\* A decision is one of the current policy, for a source that is in the database.
Sound(d) == d.version = PolicyVersion /\ d.source \in {NoSource} \cup {s \in Source : owner[s] \in Record}

CurrentRow == [source : Source \cup {NoSource}, revision : Nat, path : Path \cup {Nothing}]

\* What a record publishes is a revision of its own, unless the source it came from is deleted.
OwnCurrent(r) ==
  LET i == current[r].revision
  IN  /\ i \in 0..Len(revisions)
      /\ current[r].source # NoSource =>
           /\ i \in DOMAIN revisions /\ revisions[i].record = r /\ revisions[i].source = current[r].source
           /\ revisions[i].path = current[r].path

\* A waiting refresh is still queued, and writes a sound decision.
Waiting(r) ==
  LET s == waits[r].source
  IN  refresh[r] /\ Sound(waits[r].decided) /\ waits[r].decided.source = s /\ s \in Source

ServeTables ==
  /\ onDisk \in [Source -> BOOLEAN] /\ refresh \in [Record -> BOOLEAN] /\ current \in [Record -> CurrentRow]
  /\ \A r \in Record : Sound(decision[r])
  /\ \A s \in Source :
       /\ publish[s].state \in {"none", "queued", "running"}
       /\ IF publish[s].state = "none" THEN publish[s].revision = 0 ELSE owner[s] \in Record
  /\ (request # Nothing /\ request.op = "select") =>
       /\ request.decided.version = PolicyVersion /\ request.decided.source = request.source
       /\ request.source \in Source

\* Nothing is to be published: the file is gone, there is no final revision, or it waits for a review.
Unpublishable(r, s, i) == ~onDisk[s] \/ i = 0 \/ <<r, revisions[i].path>> \notin Fits

\* The four places where the publication of revision i of s for r can be: a queued row, an executing one
\* that read the record after it had the revision, an attempt behind all others, the publication itself.
InQueue(s, i) == publish[s].state = "queued" /\ publish[s].revision = i
InHand(r, s, i) ==
  LET view == publish[s].view
  IN  /\ Executing(s) /\ publish[s].revision = i
      /\ view.record = r /\ view.loaded.source = s /\ view.revisions \in Nat /\ i <= view.revisions
Carries(a, r, s, i) == attempts[a].record = r /\ attempts[a].source = s /\ attempts[a].revision = i
Competes(b, r, s, i) == attempts[b].record = r /\ attempts[b].state \in Pending /\ ~Carries(b, r, s, i)
InJournal(r, s, i) ==
  \E a \in DOMAIN attempts :
    /\ Carries(a, r, s, i) /\ attempts[a].state \in Pending
    /\ \A b \in DOMAIN attempts : Competes(b, r, s, i) => b < a
InPlace(r, s, i) ==
  /\ current[r] = Publication(s, i)
  /\ \A b \in DOMAIN attempts : Competes(b, r, s, i) =>
       \E c \in DOMAIN attempts : c > b /\ Carries(c, r, s, i) /\ attempts[c].state = "finalized"

OnItsWay(r, s, i) == InQueue(s, i) \/ InHand(r, s, i) \/ InJournal(r, s, i) \/ InPlace(r, s, i)

\* A record that no refresh is to decide again has chosen a source, and its latest revision is on its way.
Carried(r) ==
  LET s == decision[r].source
      i == LatestFinal(r, s)
  IN  Choosable(r) # {} => s \in Choosable(r) /\ (Unpublishable(r, s, i) \/ OnItsWay(r, s, i))

Accounted(r) == r \in slips \/ refresh[r] \/ Carried(r)

ServeInv ==
  /\ ServeTables
  /\ \A r \in Record : OwnCurrent(r)
  /\ \A r \in Record : Locked(r) => Waiting(r)
  /\ \A r \in Record : Accounted(r)

-----------------------------------------------------------------------------
(* What an evaluation gives.                                                *)

\* It keeps the source, drops it or takes one of the record's.
LEMMA EvaluatedSource ==
  ASSUME NEW owners, NEW usables, NEW r, NEW previous
  PROVE  LET d == Evaluate(CandidatesIn(owners, usables, r), previous, NoSource)
         IN  d.source \in {previous.source, NoSource} \/ (d.source \in Source /\ owners[d.source] = r)
<1> DEFINE candidates == CandidatesIn(owners, usables, r)
           d == Evaluate(candidates, previous, NoSource)
<1>0. SUFFICES d.source \in {previous.source, NoSource} \/ (d.source \in Source /\ owners[d.source] = r)
  OBVIOUS
<1>1. EligibleOf(candidates) # {} => Best(candidates).id \in Source /\ owners[Best(candidates).id] = r
  BY CandidatesWell, BestIsEligible, EligibleAre
<1> HIDE DEF candidates
<1>2. CASE EligibleOf(candidates) # {}
  BY <1>1, <1>2, ChangeIsBest
<1>3. CASE EligibleOf(candidates) = {}
  <2>1. d \in {previous, Retain(previous, candidates), [NoDecision EXCEPT !.key = SetKey(candidates)]}
    BY <1>3 DEF Evaluate, EvaluateBaseline, EvaluateAutomatic
  <2>2. \A x \in {previous, Retain(previous, candidates), [NoDecision EXCEPT !.key = SetKey(candidates)]} :
          x.source \in {previous.source, NoSource}
    BY DEF Retain, NoDecision
  <2> QED
    BY <2>1, <2>2
<1> QED
  BY <1>2, <1>3

\* With something to choose, it chooses.
LEMMA EvaluatedChooses ==
  ASSUME NEW owners, NEW usables, NEW r, NEW previous, previous.version = PolicyVersion,
         EligibleOf(CandidatesIn(owners, usables, r)) # {}
  PROVE  \E c \in EligibleOf(CandidatesIn(owners, usables, r)) :
           c.id = Evaluate(CandidatesIn(owners, usables, r), previous, NoSource).source
<1> DEFINE candidates == CandidatesIn(owners, usables, r)
           d == Evaluate(candidates, previous, NoSource)
<1>0. SUFFICES \E c \in EligibleOf(candidates) : c.id = d.source
  OBVIOUS
<1>1. Best(candidates) \in EligibleOf(candidates) /\ EligibleOf(candidates) # {}
  BY CandidatesWell, BestIsEligible
<1> HIDE DEF candidates
<1>2. CASE \E c \in EligibleOf(candidates) : c.id = previous.source
  BY <1>1, <1>2, ChangeIsBest
<1>3. CASE ~\E c \in EligibleOf(candidates) : c.id = previous.source
  BY <1>1, <1>3, LostIsReplaced
<1> QED
  BY <1>2, <1>3

LEMMA NothingToChoose ==
  ASSUME NEW r
  PROVE  Choosable(r) = {} <=> EligibleOf(Candidates(r)) = {}
BY DEF Choosable

LEMMA ChoosableIff ==
  ASSUME NEW r, NEW s
  PROVE  /\ s \in Choosable(r) <=> (s \in Source /\ owner[s] = r /\ Eligible(Candidate(s, usable[s])))
         /\ s \in Choosable(r)' <=> (s \in Source /\ owner'[s] = r /\ Eligible(Candidate(s, usable'[s])))
<1>1. (\E c \in EligibleOf(CandidatesIn(owner, usable, r)) : c.id = s)
        <=> (s \in Source /\ owner[s] = r /\ Eligible(Candidate(s, usable[s])))
  BY EligibleIds
<1>2. (\E c \in EligibleOf(CandidatesIn(owner', usable', r)) : c.id = s)
        <=> (s \in Source /\ owner'[s] = r /\ Eligible(Candidate(s, usable'[s])))
  BY EligibleIds
<1> QED
  BY <1>1, <1>2, ChoosableIs

LEMMA ChoosableOwned ==
  ASSUME NEW r, NEW s \in Choosable(r)
  PROVE  s \in Source /\ owner[s] = r /\ s # NoSource
<1>1. PICK c \in EligibleOf(CandidatesIn(owner, usable, r)) : c.id = s
  BY ChoosableIs
<1>2. s \in Source /\ owner[s] = r
  BY <1>1, EligibleAre
<1> QED
  BY <1>2, LibraryRecordAssumption

LEMMA ChoosableStays ==
  ASSUME NEW r, usable' = usable, \A s \in Source : owner'[s] = r <=> owner[s] = r
  PROVE  Choosable(r)' = Choosable(r)
<1>1. {m \in Source : owner'[m] = r} = {m \in Source : owner[m] = r}
  OBVIOUS
<1>2. Candidates(r)' = Candidates(r)
  BY <1>1 DEF Candidates, CandidatesIn
<1> QED
  BY <1>2 DEF Choosable

LEMMA ChoosableOfOthers ==
  ASSUME NEW r, owner' = owner, NEW s, \A x \in Source \ {s} : usable'[x] = usable[x],
         owner[s] # r \/ usable'[s] = usable[s]
  PROVE  Choosable(r)' = Choosable(r)
<1>1. \A x : x \in Choosable(r)' <=> x \in Choosable(r)
  BY ChoosableIff
<1> QED
  BY <1>1 DEF Choosable

\* What the record chose it can still choose, and where there was nothing to choose there is nothing.
ChoiceStays(r) ==
  /\ Choosable(r) = {} => Choosable(r)' = {}
  /\ decision[r].source \in Choosable(r) => decision[r].source \in Choosable(r)'

LEMMA FlushedVersion ==
  ASSUME NEW stored, NEW loaded, NEW new, stored.version = PolicyVersion, new.version = PolicyVersion
  PROVE  Flush(stored, loaded, new).version = PolicyVersion
BY DEF Flush, Columns

-----------------------------------------------------------------------------
(* The latest final revision.                                               *)

LEMMA MaxIs ==
  ASSUME NEW S, S \subseteq Nat, NEW m \in S, \A i \in S : i <= m
  PROVE  Max0(S) = m
<1>1. \A n \in S : (\A i \in S : i <= n) => n = m
  <2>1. SUFFICES ASSUME NEW n \in S, \A i \in S : i <= n
                 PROVE  n = m
    OBVIOUS
  <2>2. n <= m /\ m <= n /\ n \in Nat /\ m \in Nat
    BY <2>1
  <2> QED
    BY <2>2
<1> QED
  BY <1>1 DEF Max0

LEMMA LatestBounds ==
  ASSUME revisions \in Seq(RevisionRow), NEW i \in DOMAIN revisions
  PROVE  LatestFinal(revisions[i].record, revisions[i].source) >= i
<1> DEFINE S == {j \in DOMAIN revisions : revisions[j].record = revisions[i].record /\ revisions[j].source = revisions[i].source}
<1>1. Len(revisions) \in Nat /\ S \subseteq 1..Len(revisions) /\ i \in S
  BY LenProperties
<1>2. LatestFinal(revisions[i].record, revisions[i].source) = Max0(S)
  BY DEF LatestFinal
<1>3. Max0(S) >= i
  <2> HIDE DEF S
  <2> QED
    BY <1>1, MaxOfMany
<1> QED
  BY <1>2, <1>3

\* The revisions a step appends are of these records.
NewFor(rs) == \A i \in DOMAIN revisions' : i \in DOMAIN revisions \/ revisions'[i].record \in rs

LEMMA LatestStays ==
  ASSUME Grows, NEW rs, NewFor(rs), NEW r, r \notin rs, NEW s
  PROVE  LatestFinal(r, s)' = LatestFinal(r, s)
<1>1. {i \in DOMAIN revisions' : revisions'[i].record = r /\ revisions'[i].source = s}
        = {i \in DOMAIN revisions : revisions[i].record = r /\ revisions[i].source = s}
  BY DEF Grows, NewFor
<1> QED
  BY <1>1 DEF LatestFinal

LEMMA LatestAppended ==
  ASSUME revisions \in Seq(RevisionRow), NEW row \in RevisionRow, revisions' = Append(revisions, row)
  PROVE  LatestFinal(row.record, row.source)' = Len(revisions) + 1 /\ NewFor({row.record})
<1>1. /\ Grows /\ Len(revisions) + 1 \in DOMAIN revisions' /\ revisions'[Len(revisions) + 1] = row
      /\ Len(revisions) \in Nat /\ DOMAIN revisions = 1..Len(revisions)
  BY AppendedOne, LenProperties
<1>2. DOMAIN revisions' = 1..(Len(revisions) + 1)
  BY AppendProperties, LenProperties
<1> DEFINE S == {i \in DOMAIN revisions' : revisions'[i].record = row.record /\ revisions'[i].source = row.source}
<1>3. S \subseteq 1..(Len(revisions) + 1) /\ Len(revisions) + 1 \in S
  BY <1>1, <1>2
<1>4. Max0(S) = Len(revisions) + 1
  <2> HIDE DEF S
  <2>1. S \subseteq Nat /\ \A i \in S : i <= Len(revisions) + 1
    BY <1>1, <1>3
  <2> QED
    BY <1>3, <2>1, MaxIs
<1>5. NewFor({row.record})
  BY <1>1, <1>2 DEF NewFor
<1> QED
  BY <1>4, <1>5 DEF LatestFinal

LEMMA AppendedFor ==
  ASSUME revisions \in Seq(RevisionRow), NEW extra \in Seq(RevisionRow), revisions' = revisions \o extra,
         NEW rs, \A j \in DOMAIN extra : extra[j].record \in rs
  PROVE  NewFor(rs)
<1>1. /\ Len(revisions') = Len(revisions) + Len(extra) /\ revisions' \in Seq(RevisionRow)
      /\ \A i \in (Len(revisions) + 1)..(Len(revisions) + Len(extra)) : revisions'[i] = extra[i - Len(revisions)]
  BY ConcatProperties
<1>2. /\ Len(revisions) \in Nat /\ Len(extra) \in Nat /\ DOMAIN revisions = 1..Len(revisions)
      /\ DOMAIN extra = 1..Len(extra) /\ DOMAIN revisions' = 1..Len(revisions')
  BY <1>1, LenProperties
<1>3. SUFFICES ASSUME NEW i \in DOMAIN revisions', i \notin DOMAIN revisions
               PROVE  revisions'[i].record \in rs
  BY DEF NewFor
<1>4. i \in (Len(revisions) + 1)..(Len(revisions) + Len(extra)) /\ i - Len(revisions) \in DOMAIN extra
  BY <1>1, <1>2, <1>3
<1> QED
  BY <1>1, <1>4

-----------------------------------------------------------------------------
(* What keeps the parts of the invariant of the chain.                      *)

\* No source leaves the database.
NoneDeleted == \A s \in Source : owner[s] \in Record => owner'[s] \in Record

LEMMA TablesKept ==
  ASSUME ServeTables, NoneDeleted,
         onDisk' \in [Source -> BOOLEAN], refresh' \in [Record -> BOOLEAN], current' \in [Record -> CurrentRow],
         \A r \in Record : decision'[r] = decision[r] \/ Sound(decision[r])',
         \A s \in Source :
           \/ publish'[s] = publish[s] \/ publish'[s] = NoRow
           \/ publish'[s].state \in {"queued", "running"} /\ owner[s] \in Record,
         request' = request \/ request' = Nothing \/ request'.op # "select"
  PROVE  ServeTables'
<1>1. \A r \in Record : Sound(decision[r])'
  BY DEF ServeTables, Sound, NoneDeleted
<1>2. \A s \in Source :
        /\ publish'[s].state \in {"none", "queued", "running"}
        /\ IF publish'[s].state = "none" THEN publish'[s].revision = 0 ELSE owner'[s] \in Record
  BY DEF ServeTables, NoRow, NoneDeleted
<1>3. (request' # Nothing /\ request'.op = "select") =>
       /\ request'.decided.version = PolicyVersion /\ request'.decided.source = request'.source
       /\ request'.source \in Source
  BY DEF ServeTables
<1> QED
  BY <1>1, <1>2, <1>3 DEF ServeTables

LEMMA CurrentKept ==
  ASSUME TablesInv, Grows, \A r \in Record : OwnCurrent(r),
         \A r \in Record : current'[r] = current[r] \/ current'[r] = NoPublication
  PROVE  \A r \in Record : OwnCurrent(r)'
<1>1. /\ Len(revisions) \in Nat /\ Len(revisions') \in Nat
      /\ DOMAIN revisions = 1..Len(revisions) /\ DOMAIN revisions' = 1..Len(revisions')
  BY LenProperties DEF TablesInv, Grows
<1>2. Len(revisions) <= Len(revisions')
  BY <1>1 DEF Grows
<1> QED
  BY <1>1, <1>2 DEF OwnCurrent, Grows, NoPublication

\* A refresh that waits is left alone.
StillWaits(r) == Locked(r) /\ waits'[r] = waits[r] /\ (refresh[r] => refresh'[r])

LEMMA WaitingKept ==
  ASSUME NoneDeleted, NEW r, Waiting(r), StillWaits(r)
  PROVE  Waiting(r)'
<1>1. waits'[r] = waits[r] /\ refresh'[r]
  BY DEF StillWaits, Waiting
<1>2. Sound(waits[r].decided)'
  BY <1>1 DEF Waiting, Sound, NoneDeleted
<1> QED
  BY <1>1, <1>2 DEF Waiting

\* What a record has of its publication is of use as long as its decision and its revisions stay.
LEMMA CarriedKept ==
  ASSUME NEW r, Carried(r), NEW s, NEW i, s = decision[r].source, s = decision'[r].source,
         i = LatestFinal(r, s), i = LatestFinal(r, s)', i # 0 => revisions'[i].path = revisions[i].path,
         ChoiceStays(r), onDisk'[s] => onDisk[s],
         (s \in Choosable(r) /\ OnItsWay(r, s, i)) => Unpublishable(r, s, i)' \/ OnItsWay(r, s, i)'
  PROVE  Carried(r)'
<1>1. CASE Choosable(r) = {}
  BY <1>1 DEF Carried, ChoiceStays
<1>2. CASE Choosable(r) # {}
  <2>1. s \in Choosable(r) /\ (Unpublishable(r, s, i) \/ OnItsWay(r, s, i))
    BY <1>2 DEF Carried
  <2>2. Unpublishable(r, s, i) => Unpublishable(r, s, i)'
    BY DEF Unpublishable
  <2>3. Unpublishable(r, s, i)' \/ OnItsWay(r, s, i)'
    BY <2>1, <2>2
  <2> QED
    BY <2>1, <2>3 DEF Carried, ChoiceStays
<1> QED
  BY <1>1, <1>2

LEMMA PlacesKept ==
  ASSUME NEW r, NEW s, NEW i, UNCHANGED attempts, current'[r] = current[r],
         i # 0 => revisions'[i].path = revisions[i].path, i # 0,
         publish'[s] = publish[s], OnItsWay(r, s, i)
  PROVE  OnItsWay(r, s, i)'
<1>1. Publication(s, i)' = Publication(s, i)
  BY DEF Publication
<1>2. InQueue(s, i) => InQueue(s, i)'
  BY DEF InQueue
<1>3. InHand(r, s, i) => InHand(r, s, i)'
  BY DEF InHand, Executing
<1>4. InJournal(r, s, i) => InJournal(r, s, i)'
  BY DEF InJournal, Carries, Competes
<1>5. InPlace(r, s, i) => InPlace(r, s, i)'
  BY <1>1 DEF InPlace, Carries, Competes
<1> QED
  BY <1>2, <1>3, <1>4, <1>5 DEF OnItsWay

\* A record whose sources, decision, revisions and publication stay is carried as before.
LEMMA UntouchedCarried ==
  ASSUME revisions \in Seq(RevisionRow), Grows, NEW rs, NewFor(rs), NEW r, r \notin rs, Carried(r),
         ChoiceStays(r), decision'[r].source = decision[r].source, current'[r] = current[r],
         UNCHANGED <<onDisk, attempts, publish>>
  PROVE  Carried(r)'
<1>1. PICK s : s = decision[r].source
  OBVIOUS
<1>2. PICK i : i = LatestFinal(r, s)
  OBVIOUS
<1>3. i = LatestFinal(r, s)'
  BY <1>2, LatestStays
<1>4. i # 0 => revisions'[i].path = revisions[i].path
  BY <1>2, LatestFinalRow DEF Grows
<1>5. (s \in Choosable(r) /\ OnItsWay(r, s, i)) => Unpublishable(r, s, i)' \/ OnItsWay(r, s, i)'
  BY <1>4, PlacesKept DEF Unpublishable
<1>6. s = decision'[r].source /\ (onDisk'[s] => onDisk[s])
  BY <1>1
<1> QED
  BY <1>1, <1>2, <1>3, <1>4, <1>5, <1>6, CarriedKept

\* Asking adds refreshes and takes none away.
LEMMA AskedMore ==
  ASSUME ServeTables, NEW rs, refresh' = Asked(refresh, rs)
  PROVE  /\ refresh' \in [Record -> BOOLEAN]
         /\ \A r \in Record : (refresh[r] => refresh'[r]) /\ (r \in rs => refresh'[r])
BY DEF ServeTables, Asked

-----------------------------------------------------------------------------
(* The steps that publish nothing and decide nothing.                       *)

\* A reviewer who read, a scan that plans and a file that goes change nothing the chain reads; a
\* publication that is taken back is a slip, or its record is asked to decide again.
LEMMA AsideServes ==
  ASSUME Inv, ServeInv, ServeTables',
         UNCHANGED <<owner, usable, decision, revisions, attempts, waits, publish>>,
         \A s \in Source : onDisk'[s] => onDisk[s],
         \A r \in Record : (refresh[r] => refresh'[r]) /\ (r \in slips => r \in slips'),
         \A r \in Record :
           current'[r] = current[r] \/ (current'[r] = NoPublication /\ (refresh'[r] \/ r \in slips'))
  PROVE  ServeInv'
<1>1. Grows /\ NoneDeleted
  BY DEF Inv, TablesInv, Grows, NoneDeleted
<1>2. \A r \in Record : OwnCurrent(r)'
  BY <1>1, CurrentKept DEF Inv, ServeInv
<1>4. \A r \in Record : Choosable(r)' = Choosable(r)
  BY ChoosableStays
<1>5. \A r \in Record : Locked(r)' => Waiting(r)'
  BY <1>1, WaitingKept DEF Locked, StillWaits, ServeInv
<1>6. ASSUME NEW r \in Record, Carried(r), current'[r] = current[r]
      PROVE  Carried(r)'
  <2>1. PICK s : s = decision[r].source
    OBVIOUS
  <2>2. PICK i : i = LatestFinal(r, s)
    OBVIOUS
  <2>3. LatestFinal(r, s)' = i /\ decision'[r].source = s /\ revisions' = revisions
    BY <2>1, <2>2 DEF LatestFinal
  <2>4. CASE s \in Choosable(r)
    <3>1. onDisk'[s] => onDisk[s]
      BY <2>4, ChoosableOwned
    <3>2. OnItsWay(r, s, i) => Unpublishable(r, s, i)' \/ OnItsWay(r, s, i)'
      BY <1>6, <2>3, PlacesKept DEF Unpublishable
    <3>3. ChoiceStays(r)
      BY <1>4 DEF ChoiceStays
    <3> QED
      BY <1>6, <2>1, <2>2, <2>3, <3>1, <3>2, <3>3, CarriedKept
  <2>5. CASE s \notin Choosable(r)
    BY <1>4, <1>6, <2>1, <2>5 DEF Carried
  <2> QED
    BY <2>4, <2>5
<1>7. \A r \in Record : Accounted(r)'
  BY <1>6 DEF ServeInv, Accounted
<1> QED
  BY <1>2, <1>5, <1>7 DEF ServeInv

LEMMA RequestsServe ==
  ASSUME Inv, ServeInv,
         \/ \E s \in Source, path \in EditPaths : EditReads(s, path)
         \/ \E r \in Record, s \in Source : SelectReads(r, s)
         \/ RequestFails \/ RemapReads \/ RemapLists \/ RemapConflicts
         \/ \E s \in Source : FileVanishes(s)
         \/ ScanPlans \/ ScanAborts
         \/ \E s \in Source : ImportBegins(s)
         \/ ImportEnds \/ ImportJudges
  PROVE  ServeInv'
<1>1. /\ UNCHANGED <<owner, usable, decision, revisions, attempts, current, refresh, waits, publish, slips>>
      /\ onDisk' = onDisk \/ \E s \in Source : onDisk' = [onDisk EXCEPT ![s] = FALSE]
  BY DEF EditReads, SelectReads, RequestFails, RemapReads, RemapLists, RemapConflicts, FileVanishes, ScanPlans, ScanAborts,
         ImportBegins, ImportEnds, ImportJudges
<1>2. onDisk' \in [Source -> BOOLEAN] /\ \A s \in Source : onDisk'[s] => onDisk[s]
  BY <1>1 DEF ServeInv, ServeTables
<1>3. NoneDeleted
  BY <1>1 DEF NoneDeleted
<1>4. ASSUME request' = request \/ request' = Nothing \/ request'.op # "select"
      PROVE  ServeTables'
  BY <1>1, <1>2, <1>3, <1>4, TablesKept DEF ServeInv, ServeTables
<1>5. ASSUME NEW r \in Record, NEW s \in Source, SelectReads(r, s)
      PROVE  ServeTables'
  <2> DEFINE d == Evaluate(Candidates(r), decision[r], s)
             new == [op |-> "select", record |-> r, source |-> s, loaded |-> decision[r], decided |-> d]
  <2>1. request' = new /\ ManualAllowed(Candidates(r), s)
    BY <1>5 DEF SelectReads
  <2>2. new.decided = d /\ new.source = s
    OBVIOUS
  <2>3. d.version = PolicyVersion /\ d.source = s
    <3>1. s # NoSource
      BY LibraryRecordAssumption
    <3>2. (CHOOSE c \in EligibleOf(Candidates(r)) : c.id = s).id = s
      BY <2>1 DEF ManualAllowed
    <3> QED
      BY <3>1, <3>2 DEF Evaluate, Select
  <2> HIDE DEF d, new
  <2>4. request'.decided.version = PolicyVersion /\ request'.decided.source = request'.source /\ request'.source \in Source
    BY <2>1, <2>2, <2>3
  <2> QED
    BY <1>1, <1>2, <2>4 DEF ServeInv, ServeTables, Sound
<1>6. \/ request' = request \/ request' = Nothing \/ request'.op # "select"
      \/ \E r \in Record, s \in Source : SelectReads(r, s)
  <2>1. ASSUME NEW s \in Source, NEW path \in EditPaths, EditReads(s, path)
        PROVE  request'.op # "select"
    BY <2>1 DEF EditReads
  <2>2. RemapReads => request'.op # "select"
    BY DEF RemapReads
  <2>3. RemapLists => request'.op # "select"
    <3>1. SUFFICES ASSUME RemapLists
                   PROVE  request'.op # "select"
      OBVIOUS
    <3>2. request # Nothing /\ request.op = "remap" /\ request' = [request EXCEPT !.album = Album]
      BY <3>1 DEF RemapLists
    <3>3. "op" \in DOMAIN request
      BY <3>2 DEF Inv, TablesInv, RequestInv
    <3>4. request'.op = request.op
      BY <3>2, <3>3
    <3> QED
      BY <3>2, <3>4
  <2>4. (RequestFails \/ RemapConflicts \/ ScanPlans \/ ScanAborts \/ \E s \in Source : FileVanishes(s))
          => (request' = request \/ request' = Nothing)
    BY DEF RequestFails, RemapConflicts, ScanPlans, ScanAborts, FileVanishes
  <2>5. ((\E s \in Source : ImportBegins(s)) \/ ImportEnds \/ ImportJudges) => request' = request
    BY DEF ImportBegins, ImportEnds, ImportJudges
  <2> QED
    BY <2>1, <2>2, <2>3, <2>4, <2>5
<1>7. ServeTables'
  BY <1>4, <1>5, <1>6
<1> QED
  BY <1>1, <1>2, <1>7, AsideServes

\* What an operator takes back nobody asks for; what is found missing is asked for again.
LEMMA WithdrawalsServe ==
  ASSUME Inv, ServeInv, (\E r \in Record : Withdraw(r)) \/ Sweep
  PROVE  ServeInv'
<1>1. /\ UNCHANGED <<owner, usable, onDisk, decision, revisions, attempts, waits, publish, request>>
      /\ refresh' \in [Record -> BOOLEAN] /\ current' \in [Record -> CurrentRow]
      /\ \A r \in Record : (refresh[r] => refresh'[r]) /\ (r \in slips => r \in slips')
      /\ \A r \in Record :
           current'[r] = current[r] \/ (current'[r] = NoPublication /\ (refresh'[r] \/ r \in slips'))
  <2>1. NoPublication \in CurrentRow /\ current \in [Record -> CurrentRow] /\ refresh \in [Record -> BOOLEAN]
    BY DEF NoPublication, CurrentRow, ServeInv, ServeTables
  <2>2. ASSUME NEW r \in Record, Withdraw(r)
        PROVE  <1>1!:
    BY <2>1, <2>2 DEF Withdraw
  <2>3. CASE Sweep
    <3>1. PICK lost : /\ current' = [r \in Record |-> IF r \in lost THEN NoPublication ELSE current[r]]
                      /\ refresh' = Asked(refresh, lost)
      BY <2>3 DEF Sweep
    <3>2. UNCHANGED <<owner, usable, onDisk, decision, revisions, attempts, waits, publish, request, slips>>
      BY <2>3 DEF Sweep
    <3>3. refresh' \in [Record -> BOOLEAN] /\ \A r \in Record : (refresh[r] => refresh'[r]) /\ (r \in lost => refresh'[r])
      BY <3>1, AskedMore DEF ServeInv
    <3> QED
      BY <2>1, <3>1, <3>2, <3>3
  <2> QED
    BY <2>2, <2>3
<1>2. NoneDeleted
  BY <1>1 DEF NoneDeleted
<1>3. ServeTables'
  BY <1>1, <1>2, TablesKept DEF ServeInv, ServeTables
<1> QED
  BY <1>1, <1>3, AsideServes

-----------------------------------------------------------------------------
(* Moves of sources, and the writes of a reviewer.                          *)

\* The records rs are accounted for by the step; the others keep what they decided and can choose.
LEMMA GrowthServes ==
  ASSUME Inv, ServeInv, Grows, NoneDeleted, NEW rs, NewFor(rs),
         UNCHANGED <<onDisk, current, attempts, waits, publish>>,
         refresh' \in [Record -> BOOLEAN],
         \A r \in Record : (refresh[r] => refresh'[r]) /\ (r \in slips => r \in slips'),
         request' = request \/ request' = Nothing,
         \A r \in Record : decision'[r] = decision[r] \/ Sound(decision[r])',
         \A r \in Record : r \in rs => Accounted(r)',
         \A r \in Record : r \notin rs => decision'[r].source = decision[r].source /\ ChoiceStays(r)
  PROVE  ServeInv'
<1>1. ServeTables'
  BY TablesKept DEF ServeInv, ServeTables
<1>2. \A r \in Record : OwnCurrent(r)'
  BY CurrentKept DEF Inv, ServeInv
<1>3. \A r \in Record : Locked(r)' => Waiting(r)'
  BY WaitingKept DEF Locked, StillWaits, ServeInv
<1>4. ASSUME NEW r \in Record, r \notin rs, Carried(r)
      PROVE  Carried(r)'
  BY <1>4, UntouchedCarried DEF Inv, TablesInv
<1>5. \A r \in Record : Accounted(r)'
  BY <1>4 DEF Accounted, ServeInv
<1> QED
  BY <1>1, <1>2, <1>3, <1>5 DEF ServeInv

\* What a move appends are revisions of the records it moves to.
LEMMA MovedLog ==
  ASSUME TablesInv, NEW moved \in SUBSET Source, NEW target \in [moved -> Record],
         NEW tagged \in SUBSET moved, NEW path \in Path,
         \/ revisions' = revisions \o Brought(target)
         \/ revisions' = revisions \o Brought(target) \o Finals(target, tagged, path)
  PROVE  Grows /\ NewFor(Range(target))
<1> DEFINE bringing == {s \in DOMAIN target : Inherited(s, target[s]) # 0}
           brought == Brought(target)
           finals == Finals(target, tagged, path)
<1>1. revisions \in Seq(RevisionRow) /\ brought \in Seq(RevisionRow) /\ finals \in Seq(RevisionRow)
  BY BroughtRows, FinalsRows DEF TablesInv
<1>2. \A j \in DOMAIN brought : brought[j].record \in Range(target)
  <2> DEFINE order == SetToSeq(bringing)
  <2>1. IsFiniteSet(bringing)
    BY LibraryRecordAssumption, FS_Subset
  <2>2. \A j \in DOMAIN order : order[j] \in DOMAIN target
    <3>1. \A j \in DOMAIN order : order[j] \in bringing
      <4> HIDE DEF bringing
      <4> QED
        BY <2>1, Enumerated
    <3> QED
      BY <3>1
  <2>3. DOMAIN brought = DOMAIN order /\ \A j \in DOMAIN order : brought[j].record = target[order[j]]
    BY DEF Brought, Revision
  <2> HIDE DEF order, brought
  <2> QED
    BY <2>2, <2>3 DEF Range
<1>3. \A j \in DOMAIN finals : finals[j].record \in Range(target)
  <2> DEFINE order == SetToSeq(tagged)
  <2>1. \A j \in DOMAIN order : order[j] \in DOMAIN target
    BY LibraryRecordAssumption, FS_Subset, Enumerated
  <2>2. DOMAIN finals = DOMAIN order /\ \A j \in DOMAIN order : finals[j].record = target[order[j]]
    BY DEF Finals, Revision
  <2> HIDE DEF order, finals
  <2> QED
    BY <2>1, <2>2 DEF Range
<1> HIDE DEF brought, finals
<1>4. CASE revisions' = revisions \o brought
  BY <1>1, <1>2, <1>4, Appended, AppendedFor
<1>5. CASE revisions' = revisions \o brought \o finals
  <2> DEFINE both == brought \o finals
  <2>1. revisions' = revisions \o both /\ both \in Seq(RevisionRow)
    <3>1. revisions \in Seq(RevisionRow)
      BY <1>1
    <3>2. (revisions \o brought) \o finals = revisions \o (brought \o finals)
      BY <1>1, <3>1, ConcatAssociative
    <3>3. brought \o finals \in Seq(RevisionRow)
      BY <1>1, ConcatProperties
    <3> QED
      BY <1>5, <3>2, <3>3
  <2>2. \A j \in DOMAIN both : both[j].record \in Range(target)
    <3>1. /\ Len(brought) \in Nat /\ Len(finals) \in Nat
          /\ DOMAIN brought = 1..Len(brought) /\ DOMAIN finals = 1..Len(finals)
          /\ DOMAIN both = 1..Len(both) /\ Len(both) = Len(brought) + Len(finals)
          /\ \A j \in 1..(Len(brought) + Len(finals)) :
               both[j] = IF j <= Len(brought) THEN brought[j] ELSE finals[j - Len(brought)]
      BY <1>1, <2>1, ConcatProperties, LenProperties
    <3>2. ASSUME NEW j \in DOMAIN both
          PROVE  both[j].record \in Range(target)
      <4>1. CASE j <= Len(brought)
        BY <1>2, <3>1, <3>2, <4>1
      <4>2. CASE ~(j <= Len(brought))
        <5>1. j - Len(brought) \in DOMAIN finals
          BY <3>1, <3>2, <4>2
        <5> QED
          BY <1>3, <3>1, <3>2, <4>2, <5>1
      <4> QED
        BY <4>1, <4>2
    <3> QED
      BY <3>2
  <2> HIDE DEF both
  <2> QED
    BY <1>1, <2>1, <2>2, Appended, AppendedFor
<1> QED
  BY <1>4, <1>5 DEF brought, finals

\* A decision taken again over the sources of the record is as sound as the one before.
LEMMA EvaluatedSound ==
  ASSUME NEW r \in Record, NEW owners, NEW usables, NEW d,
         d.source \in {NoSource} \cup {s \in Source : owner[s] \in Record}, NoneDeleted,
         \A s \in Source : owners[s] = r => owner'[s] \in Record
  PROVE  LET e == Evaluate(CandidatesIn(owners, usables, r), d, NoSource)
         IN  /\ e.version = PolicyVersion
             /\ e.source \in {NoSource} \cup {s \in Source : owner'[s] \in Record}
BY EvaluatedSource, EvaluatedFor DEF NoneDeleted

\* A record that no source is left of has nothing to choose.
LEMMA Abandoned ==
  ASSUME NEW r, \A s \in Source : owner'[s] # r
  PROVE  Carried(r)'
<1>1. \A s : s \notin Choosable(r)'
  BY ChoosableIff
<1>2. Choosable(r)' = {}
  BY <1>1
<1> QED
  BY <1>2 DEF Carried

LEMMA MoveServes ==
  ASSUME Inv, ServeInv, NEW moved \in SUBSET Source, NEW target \in [moved -> Record],
         \A r \in Touched(target) \cap Record : ~Locked(r),
         owner' = Moved(target), Grows, NewFor(Range(target)),
         UNCHANGED <<usable, onDisk, current, attempts, waits, publish, slips>>,
         request' = request \/ request' = Nothing,
         NEW asked, refresh' = Asked(refresh, asked),
         \A r \in Record : decision'[r] = decision[r] \/ Sound(decision[r])',
         \A r \in Record \ Touched(target) : decision'[r] = decision[r],
         \A r \in Record \cap Touched(target) : r \in asked \/ \A s \in Source : owner'[s] # r
  PROVE  ServeInv'
<1>1. owner \in [Source -> Record \cup {NoRecord}] /\ ServeTables
  BY DEF Inv, TablesInv, ServeInv
<1>2. NoneDeleted
  BY DEF NoneDeleted, Moved
<1>3. Range(target) \subseteq Touched(target)
  BY DEF Touched
<1>4. NewFor(Touched(target))
  BY <1>3 DEF NewFor
<1>5. ASSUME NEW r \in Record, r \notin Touched(target), NEW s \in Source
      PROVE  owner'[s] = r <=> owner[s] = r
  <2>1. \A x \in moved : target[x] # r /\ owner[x] # r
    BY <1>5 DEF Touched, Range
  <2> QED
    BY <2>1 DEF Moved
<1>6. \A r \in Record : r \in Touched(target) => Accounted(r)'
  BY <1>1, AskedMore, Abandoned DEF Accounted
<1>7. \A r \in Record : (refresh[r] => refresh'[r]) /\ (r \in slips => r \in slips')
  BY <1>1, AskedMore
<1>8. refresh' \in [Record -> BOOLEAN]
  BY <1>1, AskedMore
<1>9. \A r \in Record : r \notin Touched(target) => decision'[r].source = decision[r].source /\ ChoiceStays(r)
  BY <1>5, ChoosableStays DEF ChoiceStays
<1> QED
  BY <1>2, <1>4, <1>6, <1>7, <1>8, <1>9, GrowthServes

LEMMA AssociateServes ==
  ASSUME Inv, ServeInv, NEW s \in Source, NEW q \in Record, Associate(s, q)
  PROVE  ServeInv'
<1> DEFINE target == [m \in {s} |-> q]
           asked == {q} \cup {r \in {owner[s]} : Lives(owner', r)}
<1>1. {s} \in SUBSET Source /\ target \in [{s} -> Record]
  OBVIOUS
<1>2. Touched(target) = {owner[s], q} /\ owner' = Moved(target)
  BY DEF Touched, Range, Associate
<1>3. /\ ~Locked(owner[s]) /\ ~Locked(q) /\ revisions' = revisions \o Brought(target)
      /\ decision' = [r \in Record |-> IF r \in Touched(target) THEN DecidedAgain(decision[r], owner', r) ELSE decision[r]]
      /\ refresh' = Asked(refresh, asked)
      /\ UNCHANGED <<usable, onDisk, current, attempts, waits, publish, request, slips>>
  BY DEF Associate
<1>4. owner' = [x \in Source |-> IF x = s THEN q ELSE owner[x]]
  BY <1>2 DEF Moved
<1>5. \A r \in Record \cap Touched(target) : r \in asked \/ \A x \in Source : owner'[x] # r
  <2>1. ASSUME NEW x \in Source, owner'[x] = owner[s]
        PROVE  Lives(owner', owner[s])
    BY <1>4, <2>1 DEF Lives, Range
  <2> QED
    BY <1>2, <2>1
<1>6. \A r \in Touched(target) \cap Record : ~Locked(r)
  BY <1>2, <1>3
<1> HIDE DEF target, asked
<1>7. Grows /\ NewFor(Range(target))
  <2>1. {} \in SUBSET {s} /\ InitialPath[s] \in Path
    BY LibraryRecordAssumption
  <2> QED
    BY <1>1, <1>3, <2>1, MovedLog DEF Inv
<1>8. NoneDeleted
  BY <1>4 DEF NoneDeleted
<1>9. \A r \in Record : decision'[r] = decision[r] \/ Sound(decision[r])'
  <2>1. SUFFICES ASSUME NEW r \in Record, r \in Touched(target)
                 PROVE  Sound(decision[r])'
    BY <1>3
  <2>2. decision'[r] = Evaluate(CandidatesIn(owner', usable, r), decision[r], NoSource)
    BY <1>3, <2>1 DEF DecidedAgain
  <2>3. Sound(decision[r])
    BY DEF ServeInv, ServeTables
  <2> QED
    BY <1>8, <2>2, <2>3, EvaluatedSound DEF Sound
<1>10. \A r \in Record \ Touched(target) : decision'[r] = decision[r]
  BY <1>3
<1> QED
  BY <1>1, <1>2, <1>3, <1>5, <1>6, <1>7, <1>9, <1>10, MoveServes

LEMMA AssociateFolderServes ==
  ASSUME Inv, ServeInv, NEW path \in EditPaths, AssociateFolder(path)
  PROVE  ServeInv'
<1>1. PICK moved \in SUBSET {s \in Source : owner[s] # NoRecord} \ {{}} :
      \E target \in [moved -> Record], retagged \in SUBSET moved :
       /\ \A r \in Touched(target) : ~Locked(r)
       /\ owner' = Moved(target)
       /\ revisions' = revisions \o Brought(target) \o Finals(target, retagged, path)
       /\ decision' = [r \in Record |->
            IF r \in Touched(target) THEN DecidedAgain(decision[r], owner', r) ELSE decision[r]]
       /\ refresh' = Asked(refresh, {r \in Touched(target) : Lives(owner', r)})
  BY DEF AssociateFolder
<1>2. PICK target \in [moved -> Record], retagged \in SUBSET moved :
       /\ \A r \in Touched(target) : ~Locked(r)
       /\ owner' = Moved(target)
       /\ revisions' = revisions \o Brought(target) \o Finals(target, retagged, path)
       /\ decision' = [r \in Record |->
            IF r \in Touched(target) THEN DecidedAgain(decision[r], owner', r) ELSE decision[r]]
       /\ refresh' = Asked(refresh, {r \in Touched(target) : Lives(owner', r)})
  BY <1>1
<1>3. /\ moved \in SUBSET Source
      /\ UNCHANGED <<usable, onDisk, current, attempts, waits, publish, request, slips>>
  BY DEF AssociateFolder
<1> DEFINE asked == {r \in Touched(target) : Lives(owner', r)}
<1>4. refresh' = Asked(refresh, asked)
  BY <1>2
<1>5. \A r \in Record \cap Touched(target) : r \in asked \/ \A s \in Source : owner'[s] # r
  <2>1. ASSUME NEW r, NEW s \in Source, owner'[s] = r
        PROVE  Lives(owner', r)
    <3>1. s \in DOMAIN owner'
      BY <1>2 DEF Moved
    <3> QED
      BY <2>1, <3>1 DEF Lives, Range
  <2> QED
    BY <2>1
<1> HIDE DEF asked
<1>6. Grows /\ NewFor(Range(target))
  BY <1>2, <1>3, MovedLog, LibraryRecordAssumption DEF Inv
<1>7. NoneDeleted
  BY <1>2, <1>3 DEF NoneDeleted, Moved
<1>8. \A r \in Record : decision'[r] = decision[r] \/ Sound(decision[r])'
  <2>1. SUFFICES ASSUME NEW r \in Record, r \in Touched(target)
                 PROVE  Sound(decision[r])'
    BY <1>2
  <2>2. decision'[r] = Evaluate(CandidatesIn(owner', usable, r), decision[r], NoSource)
    BY <1>2, <2>1 DEF DecidedAgain
  <2>3. Sound(decision[r])
    BY DEF ServeInv, ServeTables
  <2> QED
    BY <1>7, <2>2, <2>3, EvaluatedSound DEF Sound
<1>9. \A r \in Record \ Touched(target) : decision'[r] = decision[r]
  BY <1>2
<1>10. \A r \in Touched(target) \cap Record : ~Locked(r)
  BY <1>2
<1> QED
  BY <1>2, <1>3, <1>4, <1>5, <1>6, <1>8, <1>9, <1>10, MoveServes

LEMMA RemapServes ==
  ASSUME Inv, ServeInv, NEW path \in EditPaths, RemapWrites(path)
  PROVE  ServeInv'
<1>0. PICK assigned \in SUBSET {s \in request.album : owner[s] # NoRecord} \ {{}} : \E track \in Injection(assigned, Record) :
       LET owners(s) == Moved([m \in {x \in assigned : x <= s} |-> track[m]])
           turns(r) == {s \in assigned : r \in {owner[s], track[s]}}
           decided(r) == DecidedAgain(DecidedAgain(decision[r], owners(Min(turns(r))), r), owners(Max(turns(r))), r)
           asked == {r \in Touched(track) : \E s \in assigned :
                       r = track[s] \/ (r = owner[s] /\ Lives(owners(s), r))}
       IN  /\ \A s \in assigned : ~Locked(track[s])
           /\ owner' = Moved(track)
           /\ revisions' = revisions \o Brought(track) \o Finals(track, assigned, path)
           /\ decision' = [r \in Record |-> IF r \in Touched(track) THEN decided(r) ELSE decision[r]]
           /\ refresh' = Asked(refresh, asked)
  BY DEF RemapWrites
<1>1. PICK track \in Injection(assigned, Record) :
       LET owners(s) == Moved([m \in {x \in assigned : x <= s} |-> track[m]])
           turns(r) == {s \in assigned : r \in {owner[s], track[s]}}
           decided(r) == DecidedAgain(DecidedAgain(decision[r], owners(Min(turns(r))), r), owners(Max(turns(r))), r)
           asked == {r \in Touched(track) : \E s \in assigned :
                       r = track[s] \/ (r = owner[s] /\ Lives(owners(s), r))}
       IN  /\ \A s \in assigned : ~Locked(track[s])
           /\ owner' = Moved(track)
           /\ revisions' = revisions \o Brought(track) \o Finals(track, assigned, path)
           /\ decision' = [r \in Record |-> IF r \in Touched(track) THEN decided(r) ELSE decision[r]]
           /\ refresh' = Asked(refresh, asked)
  BY <1>0
<1> DEFINE owners(s) == Moved([m \in {x \in assigned : x <= s} |-> track[m]])
           turns(r) == {s \in assigned : r \in {owner[s], track[s]}}
           asked == {r \in Touched(track) : \E s \in assigned :
                       r = track[s] \/ (r = owner[s] /\ Lives(owners(s), r))}
<1>2. /\ RemapHolds /\ request' = Nothing /\ UNCHANGED <<usable, onDisk, current, attempts, waits, publish, slips>>
  BY DEF RemapWrites
<1>3. request.album \subseteq Source /\ \A s \in request.album : owner[s] \in Record => ~Locked(owner[s])
  BY <1>2 DEF RemapHolds, Inv, TablesInv, RequestInv
<1>4. assigned \in SUBSET Source /\ track \in [assigned -> Record]
  BY <1>3 DEF Injection
<1>5. /\ owner' = Moved(track) /\ \A s \in assigned : ~Locked(track[s])
      /\ revisions' = revisions \o Brought(track) \o Finals(track, assigned, path)
      /\ refresh' = Asked(refresh, asked)
      /\ \A r \in Record \ Touched(track) : decision'[r] = decision[r]
  BY <1>1
<1>6. \A r \in Record : r \in Touched(track) =>
        decision'[r] = DecidedAgain(DecidedAgain(decision[r], owners(Min(turns(r))), r), owners(Max(turns(r))), r)
  BY <1>1
<1>7. \A r \in Record \cap Touched(track) : r \in asked \/ \A s \in Source : owner'[s] # r
  <2>1. SUFFICES ASSUME NEW r \in Record, r \in Touched(track), NEW x \in Source, owner'[x] = r
                 PROVE  r \in asked
    OBVIOUS
  <2>2. CASE \E s \in assigned : r = track[s]
    BY <2>1, <2>2
  <2>3. CASE ~\E s \in assigned : r = track[s]
    <3>1. x \notin assigned /\ owner[x] = r
      BY <1>4, <1>5, <2>1, <2>3 DEF Moved
    <3>2. PICK s \in assigned : r = owner[s]
      BY <1>4, <2>1, <2>3 DEF Touched, Range
    <3>3. owners(s)[x] = r /\ DOMAIN owners(s) = Source
      BY <3>1 DEF Moved
    <3>4. Lives(owners(s), r)
      <4> HIDE DEF owners
      <4> QED
        BY <3>3 DEF Lives, Range
    <3> QED
      BY <2>1, <3>2, <3>4
  <2> QED
    BY <2>2, <2>3
<1>8. \A r \in Touched(track) \cap Record : ~Locked(r)
  BY <1>3, <1>4, <1>5 DEF Touched, Range
<1>9. NoneDeleted
  BY <1>4, <1>5 DEF NoneDeleted, Moved
<1>10. \A r \in Record : decision'[r] = decision[r] \/ Sound(decision[r])'
  <2>1. SUFFICES ASSUME NEW r \in Record, r \in Touched(track)
                 PROVE  Sound(decision[r])'
    BY <1>5
  <2>2. PICK n : n = Min(turns(r))
    OBVIOUS
  <2>3. PICK m : m = Max(turns(r))
    OBVIOUS
  <2>4. PICK once : once = Evaluate(CandidatesIn(owners(n), usable, r), decision[r], NoSource)
    OBVIOUS
  <2>5. decision'[r] = Evaluate(CandidatesIn(owners(m), usable, r), once, NoSource)
    BY <1>6, <2>1, <2>2, <2>3, <2>4 DEF DecidedAgain
  <2>6. \A y, x : x \in Source => (owners(y)[x] = r => owner'[x] \in Record)
    <3> SUFFICES ASSUME NEW y, NEW x \in Source, owners(y)[x] = r
                 PROVE  owner'[x] \in Record
      OBVIOUS
    <3> QED
      BY <1>4, <1>5 DEF Moved
  <2>7. Sound(decision[r])
    BY DEF ServeInv, ServeTables
  <2> HIDE DEF owners
  <2>8. once.source \in {NoSource} \cup {x \in Source : owner'[x] \in Record}
    BY <1>9, <2>4, <2>6, <2>7, EvaluatedSource DEF Sound, NoneDeleted
  <2>9. decision'[r].version = PolicyVersion
    BY <2>5, EvaluatedFor
  <2>10. decision'[r].source \in {NoSource} \cup {x \in Source : owner'[x] \in Record}
    BY <2>5, <2>6, <2>8, EvaluatedSource
  <2> QED
    BY <2>9, <2>10 DEF Sound
<1> HIDE DEF asked
<1>11. Grows /\ NewFor(Range(track))
  BY <1>4, <1>5, MovedLog, LibraryRecordAssumption DEF Inv
<1> QED
  BY <1>2, <1>4, <1>5, <1>7, <1>8, <1>10, <1>11, MoveServes

LEMMA AttachServes ==
  ASSUME Inv, ServeInv, NEW s \in Source, NEW q \in Record, Attach(s, q)
  PROVE  ServeInv'
<1>1. /\ owner[s] \in Record \ {q} /\ ~Locked(q) /\ owner' = [owner EXCEPT ![s] = q]
      /\ decision' = [decision EXCEPT ![q] = Evaluate(CandidatesIn(owner', usable, q), decision[q], NoSource)]
      /\ slips' = slips \cup {owner[s], q}
      /\ UNCHANGED <<usable, onDisk, revisions, current, attempts, refresh, waits, publish, request>>
  BY DEF Attach
<1>2. \A x \in Source : owner'[x] = IF x = s THEN q ELSE owner[x]
  BY <1>1 DEF Inv, TablesInv
<1>3. Grows /\ NewFor({owner[s], q}) /\ NoneDeleted
  BY <1>1, <1>2 DEF Inv, TablesInv, Grows, NewFor, NoneDeleted
<1>4. \A r \in Record : decision'[r] = decision[r] \/ Sound(decision[r])'
  <2>1. decision'[q] = Evaluate(CandidatesIn(owner', usable, q), decision[q], NoSource)
    BY <1>1 DEF Inv, TablesInv
  <2>2. Sound(decision[q])
    BY DEF ServeInv, ServeTables
  <2>3. Sound(decision[q])'
    BY <1>3, <2>1, <2>2, EvaluatedSound DEF Sound
  <2> QED
    BY <1>1, <2>3
<1>5. refresh' \in [Record -> BOOLEAN]
  BY <1>1 DEF ServeInv, ServeTables
<1>6. \A r \in Record : r \in {owner[s], q} => Accounted(r)'
  BY <1>1 DEF Accounted
<1>7. ASSUME NEW r \in Record, r \notin {owner[s], q}
      PROVE  decision'[r].source = decision[r].source /\ ChoiceStays(r)
  <2>1. \A x \in Source : owner'[x] = r <=> owner[x] = r
    BY <1>2, <1>7
  <2>2. decision'[r] = decision[r]
    BY <1>1, <1>7
  <2> QED
    BY <1>1, <2>1, <2>2, ChoosableStays DEF ChoiceStays
<1>8. \A r \in Record : r \in slips => r \in slips'
  BY <1>1
<1> QED
  BY <1>1, <1>3, <1>4, <1>5, <1>6, <1>7, <1>8, GrowthServes

\* A reviewer's write asks for the refresh of its record.
LEMMA EditsServe ==
  ASSUME Inv, ServeInv, EditWrites \/ SelectWrites
  PROVE  ServeInv'
<1>1. /\ UNCHANGED <<owner, usable, onDisk, current, attempts, waits, publish, slips>> /\ request' = Nothing
      /\ refresh' = Asked(refresh, {request.record})
  BY DEF EditWrites, SelectWrites
<1>2. /\ refresh' \in [Record -> BOOLEAN]
      /\ \A r \in Record : (refresh[r] => refresh'[r]) /\ (r \in {request.record} => refresh'[r])
  BY <1>1, AskedMore DEF ServeInv
<1>3. Grows /\ NewFor({request.record})
  <2>1. CASE EditWrites
    <3> DEFINE row == Revision(request.record, request.source, request.path, FALSE)
    <3>1. row \in RevisionRow /\ row.record = request.record
      BY <2>1 DEF EditWrites, Inv, TablesInv, RequestInv, RevisionRow, Revision
    <3>2. revisions' = Append(revisions, row)
      BY <2>1 DEF EditWrites
    <3> HIDE DEF row
    <3> QED
      BY <3>1, <3>2, AppendedOne, LatestAppended DEF Inv, TablesInv
  <2>2. CASE SelectWrites
    BY <2>2 DEF SelectWrites, Inv, TablesInv, Grows, NewFor
  <2> QED
    BY <2>1, <2>2
<1>4. NoneDeleted
  BY <1>1 DEF NoneDeleted
<1>5. /\ \A r \in Record : decision'[r] = decision[r] \/ Sound(decision[r])'
      /\ \A r \in Record : r \notin {request.record} => decision'[r] = decision[r]
  <2>1. CASE EditWrites
    BY <2>1 DEF EditWrites
  <2>2. CASE SelectWrites
    <3>0. PICK q : q = request.record
      OBVIOUS
    <3>1. PICK new : new = Flush(decision[q], request.loaded, request.decided)
      OBVIOUS
    <3>2. decision' = [decision EXCEPT ![q] = new] /\ decision = [r \in Record |-> decision[r]]
      BY <2>2, <3>0, <3>1 DEF SelectWrites, Inv, TablesInv
    <3>3. ASSUME q \in Record
          PROVE  Sound(decision[q])'
      <4>1. /\ request.decided.version = PolicyVersion /\ request.decided.source = request.source
            /\ request.source \in Source /\ owner[request.source] # NoRecord
        BY <2>2 DEF SelectWrites, ServeInv, ServeTables
      <4>2. request.source \in {x \in Source : owner'[x] \in Record}
        BY <1>1, <4>1 DEF Inv, TablesInv
      <4>3. Sound(decision[q])
        BY <3>3 DEF ServeInv, ServeTables
      <4>4. new.version = PolicyVersion
        BY <3>1, <4>1, <4>3, FlushedVersion DEF Sound
      <4>5. new.source \in {NoSource} \cup {x \in Source : owner'[x] \in Record}
        BY <1>4, <3>1, <4>1, <4>2, <4>3, FlushedSource DEF Sound, NoneDeleted
      <4>6. decision'[q] = new
        BY <3>2, <3>3
      <4> QED
        BY <4>4, <4>5, <4>6 DEF Sound
    <3> QED
      BY <3>0, <3>2, <3>3
  <2> QED
    BY <2>1, <2>2
<1>6. \A r \in Record : r \in {request.record} => Accounted(r)'
  BY <1>2 DEF Accounted
<1>7. \A r \in Record : (refresh[r] => refresh'[r]) /\ (r \in slips => r \in slips')
  BY <1>1, <1>2
<1>8. \A r \in Record : r \notin {request.record} => decision'[r].source = decision[r].source /\ ChoiceStays(r)
  BY <1>1, <1>5, ChoosableStays DEF ChoiceStays
<1> QED
  BY <1>1, <1>2, <1>3, <1>4, <1>5, <1>6, <1>7, <1>8, GrowthServes

-----------------------------------------------------------------------------
(* The journal.                                                             *)

\* Nothing new competes, and what carries the publication stays as it was.
LEMMA JournalKept ==
  ASSUME NEW r, NEW s, NEW i, DOMAIN attempts' = DOMAIN attempts,
         \A b \in DOMAIN attempts : Competes(b, r, s, i)' => Competes(b, r, s, i),
         \A b \in DOMAIN attempts : Carries(b, r, s, i) => attempts'[b] = attempts[b]
  PROVE  /\ InJournal(r, s, i) => InJournal(r, s, i)'
         /\ (InPlace(r, s, i) /\ current'[r] = current[r] /\ revisions'[i].path = revisions[i].path) => InPlace(r, s, i)'
<1>1. ASSUME InJournal(r, s, i)
      PROVE  InJournal(r, s, i)'
  <2>1. PICK a \in DOMAIN attempts :
          /\ Carries(a, r, s, i) /\ attempts[a].state \in Pending
          /\ \A b \in DOMAIN attempts : Competes(b, r, s, i) => b < a
    BY <1>1 DEF InJournal
  <2>2. Carries(a, r, s, i)' /\ attempts'[a].state \in Pending
    BY <2>1 DEF Carries
  <2>3. \A b \in DOMAIN attempts' : Competes(b, r, s, i)' => b < a
    BY <2>1
  <2> QED
    BY <2>2, <2>3 DEF InJournal
<1>2. ASSUME InPlace(r, s, i), current'[r] = current[r], revisions'[i].path = revisions[i].path
      PROVE  InPlace(r, s, i)'
  <2>1. current'[r] = Publication(s, i)'
    BY <1>2 DEF InPlace, Publication
  <2>2. \A b \in DOMAIN attempts' : Competes(b, r, s, i)' =>
          \E c \in DOMAIN attempts' : c > b /\ Carries(c, r, s, i)' /\ attempts'[c].state = "finalized"
    <3>1. SUFFICES ASSUME NEW b \in DOMAIN attempts', Competes(b, r, s, i)'
                   PROVE  \E c \in DOMAIN attempts' : c > b /\ Carries(c, r, s, i)' /\ attempts'[c].state = "finalized"
      OBVIOUS
    <3>2. PICK c \in DOMAIN attempts : c > b /\ Carries(c, r, s, i) /\ attempts[c].state = "finalized"
      BY <1>2, <3>1 DEF InPlace
    <3>3. Carries(c, r, s, i)' /\ attempts'[c].state = "finalized"
      BY <3>2 DEF Carries
    <3> QED
      BY <3>2, <3>3
  <2> QED
    BY <2>1, <2>2 DEF InPlace
<1> QED
  BY <1>1, <1>2

LEMMA SettlesServe ==
  ASSUME Inv, ServeInv, NEW a \in DOMAIN attempts, Settles(a)
  PROVE  ServeInv'
<1>1. PICK q : q = attempts[a].record
  OBVIOUS
<1>2. /\ UNCHANGED <<owner, usable, onDisk, decision, revisions, refresh, waits, publish, request>>
      /\ \/ attempts[a].state = "prepared" /\ attempts' = [attempts EXCEPT ![a].state = "exposed"] /\ UNCHANGED <<current, slips>>
         \/ /\ attempts' = [attempts EXCEPT ![a].state = "failed"] /\ UNCHANGED current /\ slips' = slips \cup {q}
            /\ attempts[a].state \in Pending
         \/ /\ Finalize(a) /\ slips' = IF Overtaken(a) THEN slips \cup {q} ELSE slips
  BY <1>1 DEF Settles, Expose, Finalize, FinalizeFails, Pending
<1>3. attempts \in Seq(AttemptRow) /\ DOMAIN attempts = 1..Len(attempts) /\ Len(attempts) \in Nat
  BY LenProperties DEF Inv, TablesInv
<1>4. attempts[a] \in AttemptRow /\ q \in Record
  <2>1. attempts[a] \in AttemptRow
    BY <1>3, ElementOfSeq
  <2> QED
    BY <1>1, <2>1 DEF AttemptRow
<1>5. PICK x \in {"exposed", "failed", "finalized"} :
        /\ attempts' = [attempts EXCEPT ![a].state = x]
        /\ x = "exposed" => current' = current
        /\ x = "failed" => q \in slips'
        /\ x = "finalized" => current' = [current EXCEPT ![q] = Publication(attempts[a].source, attempts[a].revision)]
  <2>1. CASE Finalize(a)
    BY <1>1, <2>1 DEF Finalize
  <2> QED
    BY <1>2, <2>1
<1>6. /\ DOMAIN attempts' = DOMAIN attempts /\ \A b \in DOMAIN attempts \ {a} : attempts'[b] = attempts[b]
      /\ attempts'[a].record = attempts[a].record /\ attempts'[a].source = attempts[a].source
      /\ attempts'[a].revision = attempts[a].revision /\ attempts'[a].state = x
  BY <1>4, <1>5 DEF AttemptRow
<1>7. attempts[a].state \in Pending /\ attempts[a].state # "deleted"
  BY <1>2 DEF Finalize, Pending
<1>8. Grows /\ NoneDeleted
  BY <1>2 DEF Inv, TablesInv, Grows, NoneDeleted
<1>9. /\ current' \in [Record -> CurrentRow]
      /\ \A r \in Record : OwnCurrent(r)'
      /\ \A r \in Record : \/ current'[r] = current[r]
                           \/ /\ r = q /\ current'[r].source = attempts[a].source
                              /\ current'[r].revision = attempts[a].revision
  <2>1. CASE UNCHANGED current
    BY <1>8, <2>1, CurrentKept DEF Inv, ServeInv, ServeTables
  <2>2. CASE Finalize(a)
    <3>1. PICK new : new = Publication(attempts[a].source, attempts[a].revision)
      OBVIOUS
    <3>2. current' = [current EXCEPT ![q] = new] /\ current \in [Record -> CurrentRow]
      BY <1>1, <2>2, <3>1 DEF Finalize, ServeInv, ServeTables
    <3>3. /\ attempts[a].revision \in DOMAIN revisions /\ revisions[attempts[a].revision].record = q
          /\ revisions[attempts[a].revision].source = attempts[a].source
      BY <1>1, <1>7 DEF Inv, LogInv, OwnAttempt
    <3>4. revisions[attempts[a].revision].path \in Path /\ attempts[a].revision \in 1..Len(revisions) /\ attempts[a].source \in Source
      <4>1. DOMAIN revisions = 1..Len(revisions) /\ revisions[attempts[a].revision] \in RevisionRow
        BY <3>3, ElementOfSeq, LenProperties DEF Inv, TablesInv
      <4> QED
        BY <1>4, <3>3, <4>1 DEF RevisionRow, AttemptRow
    <3>5. /\ new.source = attempts[a].source /\ new.revision = attempts[a].revision
          /\ new.path = revisions[attempts[a].revision].path /\ new \in CurrentRow
      BY <3>1, <3>4 DEF Publication, CurrentRow
    <3>6. current' \in [Record -> CurrentRow] /\ \A r \in Record : current'[r] = IF r = q THEN new ELSE current[r]
      BY <3>2, <3>5
    <3>7. \A r \in Record : OwnCurrent(r)'
      <4>1. ASSUME NEW r \in Record, r # q
            PROVE  OwnCurrent(r)'
        BY <1>2, <3>6, <4>1 DEF OwnCurrent, ServeInv
      <4>2. OwnCurrent(q)'
        BY <1>2, <1>4, <3>3, <3>4, <3>5, <3>6 DEF OwnCurrent
      <4> QED
        BY <4>1, <4>2
    <3> QED
      BY <3>5, <3>6, <3>7
  <2> QED
    BY <1>2, <2>1, <2>2
<1>10. ServeTables'
  BY <1>2, <1>8, <1>9, TablesKept DEF ServeInv, ServeTables
<1>12. \A r \in Record : ChoiceStays(r)
  BY <1>2, ChoosableStays DEF ChoiceStays
<1>13. \A r \in Record : Locked(r)' => Waiting(r)'
  BY <1>2, <1>8, WaitingKept DEF Locked, StillWaits, ServeInv
<1>14. ASSUME NEW r \in Record, Carried(r), r \notin slips'
       PROVE  Carried(r)'
  <2>1. PICK s : s = decision[r].source
    OBVIOUS
  <2>2. PICK i : i = LatestFinal(r, s)
    OBVIOUS
  <2>3. i = LatestFinal(r, s)' /\ s = decision'[r].source /\ onDisk' = onDisk /\ revisions' = revisions
    BY <1>2, <2>1, <2>2 DEF LatestFinal
  <2>4. (InQueue(s, i) => InQueue(s, i)') /\ (InHand(r, s, i) => InHand(r, s, i)')
    BY <1>2 DEF InQueue, InHand, Executing
  <2>5. \A b \in DOMAIN attempts : Competes(b, r, s, i)' => Competes(b, r, s, i)
    BY <1>6, <1>7 DEF Competes, Carries
  <2>6. CASE ~Carries(a, r, s, i)
    <3>1. \A b \in DOMAIN attempts : Carries(b, r, s, i) => attempts'[b] = attempts[b]
      BY <1>6, <2>6
    <3>2. InJournal(r, s, i) => InJournal(r, s, i)'
      BY <1>6, <2>5, <3>1, JournalKept
    <3>3. ASSUME InPlace(r, s, i)
          PROVE  InPlace(r, s, i)'
      <4>1. CASE current'[r] = current[r]
        BY <1>6, <2>3, <2>5, <3>1, <3>3, <4>1, JournalKept
      <4>2. CASE current'[r] # current[r]
        <5>1. r = q /\ Competes(a, r, s, i)
          BY <1>1, <1>7, <1>9, <2>6, <4>2 DEF Competes
        <5>2. PICK c \in DOMAIN attempts : c > a /\ Carries(c, r, s, i) /\ attempts[c].state = "finalized"
          BY <3>3, <5>1 DEF InPlace
        <5>3. Overtaken(a) /\ Finalize(a)
          BY <1>1, <1>2, <4>2, <5>1, <5>2 DEF Overtaken, Carries
        <5>4. q \in slips'
          BY <1>2, <5>3 DEF Finalize
        <5> QED
          BY <1>14, <5>1, <5>4
      <4> QED
        BY <4>1, <4>2
    <3> QED
      BY <1>12, <1>14, <2>1, <2>2, <2>3, <2>4, <3>2, <3>3, CarriedKept DEF OnItsWay
  <2>7. CASE Carries(a, r, s, i)
    <3>1. r = q /\ \A b \in DOMAIN attempts : Carries(b, r, s, i)' <=> Carries(b, r, s, i)
      BY <1>1, <1>6, <2>7 DEF Carries
    <3>2. x # "failed"
      BY <1>5, <1>14, <3>1
    <3>3. CASE x = "exposed"
      <4>1. InJournal(r, s, i)  => InJournal(r, s, i)'
        BY <1>6, <1>7, <2>5, <3>1, <3>3 DEF InJournal, Pending
      <4>2. current' = current
        BY <1>5, <3>3
      <4>3. InPlace(r, s, i) => InPlace(r, s, i)'
        BY <1>6, <1>7, <2>3, <2>5, <3>1, <4>2 DEF InPlace, Publication, Pending
      <4> QED
        BY <1>12, <1>14, <2>1, <2>2, <2>3, <2>4, <4>1, <4>3, CarriedKept DEF OnItsWay
    <3>4. CASE x = "finalized"
      <4>1. current'[r] = Publication(s, i)'
        <5>1. current'[r] = Publication(attempts[a].source, attempts[a].revision)
          BY <1>4, <1>5, <3>1, <3>4 DEF ServeInv, ServeTables
        <5> QED
          BY <2>3, <2>7, <5>1 DEF Publication, Carries
      <4>2. InJournal(r, s, i) => InJournal(r, s, i)' \/ InPlace(r, s, i)'
        <5>1. SUFFICES ASSUME NEW a0 \in DOMAIN attempts, Carries(a0, r, s, i), attempts[a0].state \in Pending,
                              \A b \in DOMAIN attempts : Competes(b, r, s, i) => b < a0
                       PROVE  InJournal(r, s, i)' \/ InPlace(r, s, i)'
          BY DEF InJournal
        <5>2. CASE a0 = a
          <6>1. \A b \in DOMAIN attempts' : Competes(b, r, s, i)' => a > b /\ Carries(a, r, s, i)' /\ attempts'[a].state = "finalized"
            BY <1>3, <1>6, <2>5, <2>7, <3>1, <3>4, <5>1, <5>2
          <6> QED
            BY <1>6, <4>1, <6>1 DEF InPlace
        <5>3. CASE a0 # a
          BY <1>6, <2>5, <3>1, <5>1, <5>3 DEF InJournal
        <5> QED
          BY <5>2, <5>3
      <4>3. InPlace(r, s, i) => InPlace(r, s, i)'
        BY <1>6, <2>5, <3>1, <3>4, <4>1 DEF InPlace
      <4> QED
        BY <1>12, <1>14, <2>1, <2>2, <2>3, <2>4, <4>2, <4>3, CarriedKept DEF OnItsWay
    <3> QED
      BY <3>2, <3>3, <3>4
  <2> QED
    BY <2>6, <2>7
<1>15. \A r \in Record : Accounted(r)'
  <2>1. \A r \in Record : r \in slips => r \in slips'
    BY <1>2
  <2>2. refresh' = refresh
    BY <1>2
  <2> QED
    BY <1>14, <2>1, <2>2 DEF Accounted, ServeInv
<1> QED
  BY <1>9, <1>10, <1>13, <1>15 DEF ServeInv

-----------------------------------------------------------------------------
(* The refresh.                                                             *)

\* The revision a refresh asks for is then the latest of its record and source, and new rows are of its record.
LEMMA WantedIsLatest ==
  ASSUME TablesInv, NEW r \in Record, NEW s \in Source, revisions' = RevisionsAfterRefresh(r, s)
  PROVE  NewFor({r}) /\ LatestFinal(r, s)' = WantedRevision(r, s)
<1>1. revisions \in Seq(RevisionRow)
  BY DEF TablesInv
<1>2. CASE Recovers(r, s)
  <2> DEFINE row == Revision(r, s, revisions[LatestAnywhere(s)].path, FALSE)
  <2>1. LatestAnywhere(s) \in DOMAIN revisions
    BY <1>1, <1>2, LatestAnywhereRow DEF Recovers
  <2>2. revisions[LatestAnywhere(s)] \in RevisionRow
    BY <1>1, <2>1, ElementOfSeq, LenProperties
  <2>3. row \in RevisionRow /\ row.source = s /\ row.record = r
    BY <2>2 DEF RevisionRow, Revision
  <2>4. revisions' = Append(revisions, row) /\ WantedRevision(r, s) = Len(revisions) + 1
    BY <1>2 DEF RevisionsAfterRefresh, WantedRevision
  <2> HIDE DEF row
  <2> QED
    BY <1>1, <2>3, <2>4, LatestAppended
<1>3. CASE ~Recovers(r, s)
  BY <1>3 DEF RevisionsAfterRefresh, WantedRevision, LatestFinal, NewFor
<1> QED
  BY <1>2, <1>3

\* Another record is carried as before, unless its queued row was taken for this one.
LEMMA OthersCarried ==
  ASSUME Inv, NEW r, NEW q \in Record \ {r}, NEW s, Carried(q), Grows, NewFor({r}), ~Executing(s),
         \A x \in Source : publish'[x] = publish[x] \/ (x = s /\ Crossed(s) \ {r} \subseteq slips'),
         decision'[q] = decision[q], UNCHANGED <<owner, usable, onDisk, current, attempts>>
  PROVE  q \in slips' \/ Carried(q)'
<1>1. PICK x : x = decision[q].source
  OBVIOUS
<1>2. PICK i : i = LatestFinal(q, x)
  OBVIOUS
<1>3. i = LatestFinal(q, x)'
  BY <1>2, LatestStays
<1>4. i # 0 => revisions'[i].path = revisions[i].path /\ revisions[i].record = q
  BY <1>2, LatestFinalRow DEF Inv, TablesInv, Grows
<1>5. ChoiceStays(q)
  BY ChoosableStays DEF ChoiceStays
<1>6. CASE x \in Choosable(q) /\ publish'[x] # publish[x]
  <2>1. x = s /\ Crossed(s) \ {r} \subseteq slips'
    BY <1>6, ChoosableOwned
  <2>2. (i # 0 /\ InQueue(x, i)) => q \in slips'
    BY <1>4, <2>1 DEF InQueue, Crossed
  <2>3. ~InHand(q, x, i)
    BY <2>1 DEF InHand
  <2>4. (InJournal(q, x, i) => InJournal(q, x, i)') /\ (i # 0 => (InPlace(q, x, i) => InPlace(q, x, i)'))
    BY <1>4 DEF InJournal, InPlace, Carries, Competes, Publication
  <2>5. q \in slips' \/ (OnItsWay(q, x, i) => (Unpublishable(q, x, i)' \/ OnItsWay(q, x, i)'))
    BY <2>2, <2>3, <2>4 DEF OnItsWay, Unpublishable
  <2>6. x = decision'[q].source /\ (onDisk'[x] => onDisk[x])
    BY <1>1
  <2> QED
    BY <1>1, <1>2, <1>3, <1>4, <1>5, <2>5, <2>6, CarriedKept
<1>7. CASE ~(x \in Choosable(q) /\ publish'[x] # publish[x])
  <2>1. (x \in Choosable(q) /\ OnItsWay(q, x, i)) => (Unpublishable(q, x, i)' \/ OnItsWay(q, x, i)')
    BY <1>4, <1>7, PlacesKept DEF Unpublishable
  <2>2. x = decision'[q].source /\ (onDisk'[x] => onDisk[x])
    BY <1>1
  <2> QED
    BY <1>1, <1>2, <1>3, <1>4, <1>5, <2>1, <2>2, CarriedKept
<1> QED
  BY <1>6, <1>7

LEMMA RefreshWaitsServes ==
  ASSUME Inv, ServeInv, NEW r \in Record, RefreshWaits(r)
  PROVE  ServeInv'
<1>1. PICK d : d = Evaluate(CandidatesIn(owner, usable, r), decision[r], NoSource)
  OBVIOUS
<1> DEFINE w == [source |-> d.source, decided |-> d]
<1>2. /\ waits' = [waits EXCEPT ![r] = w] /\ refresh[r] /\ d.source # NoSource
      /\ UNCHANGED <<owner, usable, onDisk, decision, revisions, current, attempts, refresh, publish, request, slips>>
  BY <1>1 DEF RefreshWaits, Candidates, Publishes
<1>3. \A q \in Record : waits'[q] = IF q = r THEN w ELSE waits[q]
  BY <1>2 DEF Inv, TablesInv
<1>4. w.source = d.source /\ w.decided = d
  OBVIOUS
<1> HIDE DEF w
<1>5. Sound(d)
  <2>1. Sound(decision[r])
    BY DEF ServeInv, ServeTables
  <2> QED
    BY <1>1, <2>1, EvaluatedSource, EvaluatedFor DEF Sound
<1>7. \A q \in Record : ChoiceStays(q)
  BY <1>2, ChoosableStays DEF ChoiceStays
<1>8. ASSUME NEW q \in Record, Locked(q)'
      PROVE  Waiting(q)'
  <2>1. CASE q = r
    BY <1>2, <1>3, <1>4, <1>5, <2>1 DEF Waiting, Sound
  <2>2. CASE q # r
    <3>1. Locked(q) /\ waits'[q] = waits[q]
      BY <1>3, <1>8, <2>2 DEF Locked
    <3>2. NoneDeleted /\ StillWaits(q)
      BY <1>2, <3>1 DEF NoneDeleted, StillWaits
    <3> QED
      BY <3>1, <3>2, WaitingKept DEF ServeInv
  <2> QED
    BY <2>1, <2>2
<1>9. ServeTables'
  BY <1>2 DEF ServeInv, ServeTables, Sound
<1>10. \A q \in Record : OwnCurrent(q)'
  BY <1>2 DEF ServeInv, OwnCurrent
<1>11. Grows /\ NewFor({})
  BY <1>2 DEF Inv, TablesInv, Grows, NewFor
<1>12. \A q \in Record : Carried(q) => Carried(q)'
  BY <1>2, <1>7, <1>11, UntouchedCarried DEF Inv, TablesInv
<1>13. \A q \in Record : Accounted(q)'
  BY <1>2, <1>12 DEF ServeInv, Accounted
<1> QED
  BY <1>8, <1>9, <1>10, <1>13 DEF ServeInv

LEMMA NewlyCarried ==
  ASSUME NEW r, NEW s, NEW i, decision'[r].source = s, LatestFinal(r, s)' = i,
         Choosable(r)' = {} \/ s \in Choosable(r)', Unpublishable(r, s, i)' \/ OnItsWay(r, s, i)'
  PROVE  Carried(r)'
BY DEF Carried

\* What a record evaluates it chooses, when there is something to choose.
LEMMA ChosenIsChoosable ==
  ASSUME NEW r, NEW d, decision[r].version = PolicyVersion,
         d = Evaluate(CandidatesIn(owner, usable, r), decision[r], NoSource)
  PROVE  Choosable(r) = {} \/ d.source \in Choosable(r)
<1>1. CASE EligibleOf(CandidatesIn(owner, usable, r)) # {}
  BY <1>1, EvaluatedChooses, ChoosableIs
<1> QED
  BY <1>1, NothingToChoose DEF Candidates

\* The publication is what a refresh wants, and nothing else is on its way.
LEMMA AlreadyServed ==
  ASSUME Inv, ServeInv, NEW r \in Record, NEW s \in Source, NEW i, i = WantedRevision(r, s), i # 0,
         current[r].source = s, current[r].revision = i, ~OthersPending(r, s, LatestFinal(r, s)),
         revisions' = RevisionsAfterRefresh(r, s), UNCHANGED <<current, attempts>>
  PROVE  InPlace(r, s, i)'
<1>1. s # NoSource /\ Len(revisions) \in Nat
  BY LibraryRecordAssumption, LenProperties DEF Inv, TablesInv
<1>2. i \in 0..Len(revisions) /\ revisions[i].path = current[r].path
  BY <1>1 DEF ServeInv, OwnCurrent
<1>3. ~Recovers(r, s)
  BY <1>1, <1>2 DEF WantedRevision
<1>4. revisions' = revisions /\ i = LatestFinal(r, s)
  BY <1>3 DEF WantedRevision, RevisionsAfterRefresh
<1>5. current[r] = Publication(s, i)
  <2>1. current[r] \in CurrentRow
    BY DEF ServeInv, ServeTables
  <2>2. current[r] = [source |-> current[r].source, revision |-> current[r].revision, path |-> current[r].path]
    BY <2>1 DEF CurrentRow
  <2> QED
    BY <1>2, <2>2 DEF Publication
<1>6. \A b \in DOMAIN attempts : ~Competes(b, r, s, i)
  BY <1>4 DEF OthersPending, Competes, Carries
<1> QED
  BY <1>4, <1>5, <1>6 DEF InPlace, Publication, Competes, Carries

LEMMA RefreshRunServes ==
  ASSUME Inv, ServeInv, NEW r \in Record, RefreshRun(r)
  PROVE  ServeInv'
<1>1. PICK d : d = Evaluate(CandidatesIn(owner, usable, r), decision[r], NoSource)
  OBVIOUS
<1>2. PICK s : s = d.source
  OBVIOUS
<1>3. PICK asks \in BOOLEAN : asks <=> Publishes(r, d)
  OBVIOUS
<1>4. /\ refresh[r] /\ ~Locked(r)
      /\ asks => ~Executing(s) /\ ~Awaited(s)
      /\ decision' = [decision EXCEPT ![r] = d]
      /\ refresh' = [refresh EXCEPT ![r] = FALSE]
      /\ revisions' = IF s = NoSource THEN revisions ELSE RevisionsAfterRefresh(r, s)
      /\ publish' = IF asks THEN [publish EXCEPT ![s] = Row(WantedRevision(r, s))] ELSE publish
      /\ UNCHANGED <<owner, usable, onDisk, current, attempts, waits, request>>
  BY <1>1, <1>2, <1>3 DEF RefreshRun, Candidates
<1>5. /\ \A q \in Record \ {r} : q \in slips => q \in slips'
      /\ asks => Crossed(s) \ {r} \subseteq slips'
      /\ (~asks /\ OthersPending(r, s, LatestFinal(r, s))) => r \in slips'
  <2>1. slips' = LET kept == (IF asks THEN slips \cup Crossed(s) ELSE slips) \ {r}
                 IN  IF ~asks /\ OthersPending(r, s, LatestFinal(r, s)) THEN kept \cup {r} ELSE kept
    BY <1>1, <1>2, <1>3 DEF RefreshRun, Candidates
  <2> QED
    BY <2>1
<1>6. /\ decision'[r] = d /\ \A q \in Record \ {r} : decision'[q] = decision[q] /\ refresh'[q] = refresh[q]
      /\ \A x \in Source : publish'[x] = IF asks /\ x = s THEN Row(WantedRevision(r, s)) ELSE publish[x]
      /\ refresh' \in [Record -> BOOLEAN]
  BY <1>4 DEF Inv, TablesInv, ServeInv, ServeTables
<1>7. asks => s # NoSource /\ WantedRevision(r, s) # 0
  BY <1>2, <1>3 DEF Publishes
<1>8. Sound(d)
  <2>1. Sound(decision[r])
    BY DEF ServeInv, ServeTables
  <2> QED
    BY <1>1, <2>1, EvaluatedSource, EvaluatedFor DEF Sound
<1>9. s # NoSource => s \in Source /\ owner[s] \in Record
  BY <1>2, <1>8 DEF Sound
<1>10. Grows /\ NewFor({r}) /\ (s # NoSource => LatestFinal(r, s)' = WantedRevision(r, s))
  <2>1. TablesInv
    BY DEF Inv
  <2>2. CASE s = NoSource
    BY <1>4, <2>1, <2>2, Unchanged DEF TablesInv, NewFor
  <2>3. CASE s # NoSource
    BY <1>4, <1>9, <2>1, <2>3, RefreshedLog, WantedIsLatest
  <2> QED
    BY <2>2, <2>3
<1>11. NoneDeleted /\ \A q \in Record : Choosable(q)' = Choosable(q) /\ ChoiceStays(q)
  BY <1>4, ChoosableStays DEF NoneDeleted, ChoiceStays
<1>12. ServeTables'
  <2>1. \A q \in Record : decision'[q] = decision[q] \/ Sound(decision[q])'
    BY <1>4, <1>6, <1>8 DEF Sound
  <2>2. \A x \in Source : publish'[x] = publish[x] \/ (publish'[x].state \in {"queued", "running"} /\ owner[x] \in Record)
    BY <1>6, <1>7, <1>9 DEF Row
  <2> QED
    BY <1>4, <1>6, <1>11, <2>1, <2>2, TablesKept DEF ServeInv, ServeTables
<1>13. \A q \in Record : OwnCurrent(q)'
  BY <1>4, <1>10, CurrentKept DEF Inv, ServeInv
<1>15. ASSUME NEW q \in Record, Locked(q)'
       PROVE  Waiting(q)'
  <2>1. Locked(q) /\ q # r /\ Waiting(q)
    BY <1>4, <1>15 DEF Locked, ServeInv
  <2>2. StillWaits(q)
    BY <1>4, <1>6, <2>1 DEF StillWaits
  <2> QED
    BY <1>11, <2>1, <2>2, WaitingKept
<1>16. ASSUME NEW q \in Record \ {r}, Carried(q)
       PROVE  q \in slips' \/ Carried(q)'
  <2>1. CASE asks
    <3>1. \A x \in Source : publish'[x] = publish[x] \/ (x = s /\ Crossed(s) \ {r} \subseteq slips')
      BY <1>5, <1>6, <2>1
    <3>2. decision'[q] = decision[q] /\ ~Executing(s) /\ Grows /\ NewFor({r})
      BY <1>4, <1>6, <1>10, <2>1
    <3>3. UNCHANGED <<owner, usable, onDisk, current, attempts>>
      BY <1>4
    <3> QED
      BY <1>16, <3>1, <3>2, <3>3, OthersCarried
  <2>2. CASE ~asks
    BY <1>4, <1>6, <1>10, <1>11, <1>16, <2>2, UntouchedCarried DEF Inv, TablesInv
  <2> QED
    BY <2>1, <2>2
<1>17. r \in slips' \/ Carried(r)'
  <2>1. Choosable(r)' = {} \/ s \in Choosable(r)'
    <3>1. decision[r].version = PolicyVersion
      BY DEF ServeInv, ServeTables, Sound
    <3> QED
      BY <1>1, <1>2, <1>11, <3>1, ChosenIsChoosable
  <2>2. CASE s = NoSource
    <3>1. Choosable(r)' = {}
      BY <1>11, <2>1, <2>2, ChoosableOwned
    <3> QED
      BY <3>1 DEF Carried
  <2>3. CASE s # NoSource
    <3>1. PICK i : i = WantedRevision(r, s)
      OBVIOUS
    <3>2. LatestFinal(r, s)' = i /\ decision'[r].source = s /\ s \in Source
      BY <1>2, <1>6, <1>9, <1>10, <2>3, <3>1
    <3>3. CASE asks
      <4>1. InQueue(s, i)'
        BY <1>6, <3>1, <3>2, <3>3 DEF InQueue, Row
      <4> QED
        BY <2>1, <3>2, <4>1, NewlyCarried DEF OnItsWay
    <3>4. CASE ~asks /\ i = 0
      BY <2>1, <3>2, <3>4, NewlyCarried DEF Unpublishable
    <3>5. CASE ~asks /\ i # 0 /\ r \notin slips'
      <4>1. current[r].source = s /\ current[r].revision = i
        BY <1>2, <1>3, <2>3, <3>1, <3>5 DEF Publishes
      <4>2. ~OthersPending(r, s, LatestFinal(r, s))
        BY <1>5, <3>5
      <4>3. InPlace(r, s, i)'
        BY <1>4, <2>3, <3>1, <3>2, <3>5, <4>1, <4>2, AlreadyServed
      <4> QED
        BY <2>1, <3>2, <4>3, NewlyCarried DEF OnItsWay
    <3> QED
      BY <3>3, <3>4, <3>5
  <2> QED
    BY <2>2, <2>3
<1>18. \A q \in Record : Accounted(q)'
  BY <1>5, <1>6, <1>16, <1>17 DEF ServeInv, Accounted
<1> QED
  BY <1>12, <1>13, <1>15, <1>18 DEF ServeInv

LEMMA RefreshResumesServes ==
  ASSUME Inv, ServeInv, NEW r \in Record, RefreshResumes(r)
  PROVE  ServeInv'
<1>1. PICK d : d = waits[r].decided
  OBVIOUS
<1>2. PICK s : s = waits[r].source
  OBVIOUS
<1>3. PICK i : i = WantedRevision(r, s)
  OBVIOUS
<1>4. /\ Locked(r) /\ ~Executing(s) /\ waits' = [waits EXCEPT ![r] = Nothing]
      /\ refresh' = [refresh EXCEPT ![r] = FALSE]
      /\ decision' = [decision EXCEPT ![r] = d]
      /\ revisions' = RevisionsAfterRefresh(r, s)
      /\ publish' = IF publish[s].state = "queued" THEN [publish EXCEPT ![s] = Row(i)] ELSE publish
      /\ slips' = IF publish[s].state = "queued" /\ s \in Choosable(r)
                  THEN (slips \cup Crossed(s)) \ {r} ELSE slips \cup Crossed(s) \cup {r}
      /\ UNCHANGED <<owner, usable, onDisk, current, attempts, request>>
  BY <1>1, <1>2, <1>3 DEF RefreshResumes
<1>5. Waiting(r)
  BY <1>4 DEF ServeInv
<1>6. Sound(d) /\ d.source = s /\ s \in Source
  BY <1>1, <1>2, <1>5 DEF Waiting
<1>7. Grows /\ NewFor({r}) /\ LatestFinal(r, s)' = i /\ i # 0
  BY <1>2, <1>3, <1>4, <1>6, RefreshedLog, WantedIsLatest, KnownIsWanted DEF Inv, LogInv
<1>8. /\ decision'[r] = d /\ \A q \in Record \ {r} : decision'[q] = decision[q] /\ refresh'[q] = refresh[q]
      /\ \A x \in Source : publish'[x] = IF publish[s].state = "queued" /\ x = s THEN Row(i) ELSE publish[x]
      /\ refresh' \in [Record -> BOOLEAN]
      /\ \A q \in Record : waits'[q] = IF q = r THEN Nothing ELSE waits[q]
  BY <1>4 DEF Inv, TablesInv, ServeInv, ServeTables
<1>9. NoneDeleted /\ \A q \in Record : Choosable(q)' = Choosable(q)
  BY <1>4, ChoosableStays DEF NoneDeleted
<1>10. ServeTables'
  <2>1. \A q \in Record : decision'[q] = decision[q] \/ Sound(decision[q])'
    BY <1>4, <1>6, <1>8 DEF Sound
  <2>2. \A x \in Source : publish'[x] = publish[x] \/ (publish'[x].state \in {"queued", "running"} /\ owner[x] \in Record)
    BY <1>8 DEF Row, ServeInv, ServeTables
  <2> QED
    BY <1>4, <1>8, <1>9, <2>1, <2>2, TablesKept DEF ServeInv, ServeTables
<1>11. \A q \in Record : OwnCurrent(q)'
  BY <1>4, <1>7, CurrentKept DEF Inv, ServeInv
<1>13. ASSUME NEW q \in Record, Locked(q)'
       PROVE  Waiting(q)'
  <2>1. Locked(q) /\ q # r /\ Waiting(q)
    BY <1>8, <1>13 DEF Locked, ServeInv
  <2>2. StillWaits(q)
    BY <1>8, <2>1 DEF StillWaits
  <2> QED
    BY <1>9, <2>1, <2>2, WaitingKept
<1>14. ASSUME NEW q \in Record \ {r}, Carried(q)
       PROVE  q \in slips' \/ Carried(q)'
  <2>1. Crossed(s) \ {r} \subseteq slips'
    BY <1>4
  <2>2. \A x \in Source : publish'[x] = publish[x] \/ (x = s /\ Crossed(s) \ {r} \subseteq slips')
    BY <1>8, <2>1
  <2>3. decision'[q] = decision[q] /\ ~Executing(s) /\ Grows /\ NewFor({r})
    BY <1>4, <1>7, <1>8
  <2>4. UNCHANGED <<owner, usable, onDisk, current, attempts>>
    BY <1>4
  <2> QED
    BY <1>14, <2>2, <2>3, <2>4, OthersCarried
<1>15. r \in slips' \/ Carried(r)'
  <2>1. SUFFICES ASSUME r \notin slips'
                 PROVE  Carried(r)'
    OBVIOUS
  <2>2. publish[s].state = "queued" /\ s \in Choosable(r)
    BY <1>4, <2>1
  <2>4. InQueue(s, i)'
    BY <1>6, <1>8, <2>2 DEF InQueue, Row
  <2>5. decision'[r].source = s
    BY <1>6, <1>8
  <2> QED
    BY <1>7, <1>9, <2>2, <2>4, <2>5, NewlyCarried DEF OnItsWay
<1>16. \A q \in Record : Accounted(q)'
  BY <1>4, <1>8, <1>14, <1>15 DEF ServeInv, Accounted
<1> QED
  BY <1>10, <1>11, <1>13, <1>16 DEF ServeInv

-----------------------------------------------------------------------------
(* The publish.                                                             *)

LEMMA JournalPlacesKept ==
  ASSUME NEW r, NEW s, NEW i, UNCHANGED attempts, current'[r] = current[r],
         i # 0 => revisions'[i].path = revisions[i].path, i # 0
  PROVE  (InJournal(r, s, i) => InJournal(r, s, i)') /\ (InPlace(r, s, i) => InPlace(r, s, i)')
<1>1. Publication(s, i)' = Publication(s, i)
  BY DEF Publication
<1>2. InJournal(r, s, i) => InJournal(r, s, i)'
  BY DEF InJournal, Carries, Competes
<1>3. InPlace(r, s, i) => InPlace(r, s, i)'
  BY <1>1 DEF InPlace, Carries, Competes
<1> QED
  BY <1>2, <1>3

\* A step of the row of s leaves a record carried when its publication was not the row, or is still on its way.
LEMMA RowStepCarried ==
  ASSUME TablesInv, NEW r \in Record, Carried(r), NEW s,
         UNCHANGED <<owner, revisions, onDisk, current, attempts>>,
         ChoiceStays(r), decision'[r].source = decision[r].source,
         \A x \in Source \ {s} : publish'[x] = publish[x],
         \A i \in Nat \ {0} :
           (/\ i = LatestFinal(r, s) /\ decision[r].source = s /\ s \in Choosable(r)
            /\ (InQueue(s, i) \/ InHand(r, s, i)))
             => Unpublishable(r, s, i)' \/ OnItsWay(r, s, i)'
  PROVE  Carried(r)'
<1>1. PICK x : x = decision[r].source
  OBVIOUS
<1>2. PICK i : i = LatestFinal(r, x)
  OBVIOUS
<1>3. i = LatestFinal(r, x)' /\ x = decision'[r].source /\ onDisk' = onDisk
  BY <1>1, <1>2 DEF LatestFinal
<1>4. i \in Nat
  BY <1>2, LatestFinalRow, LenProperties DEF TablesInv
<1>5. ASSUME x \in Choosable(r), OnItsWay(r, x, i)
      PROVE  Unpublishable(r, x, i)' \/ OnItsWay(r, x, i)'
  <2>1. CASE i = 0
    BY <2>1 DEF Unpublishable
  <2>2. CASE i # 0 /\ x # s
    BY <1>5, <2>2, PlacesKept, ChoosableOwned
  <2>3. CASE i # 0 /\ x = s
    <3>1. InJournal(r, s, i) \/ InPlace(r, s, i) => OnItsWay(r, s, i)'
      BY <2>3, JournalPlacesKept DEF OnItsWay
    <3> QED
      BY <1>1, <1>2, <1>4, <1>5, <2>3, <3>1 DEF OnItsWay
  <2> QED
    BY <2>1, <2>2, <2>3
<1> QED
  BY <1>1, <1>2, <1>3, <1>5, CarriedKept

\* What is left of the invariant when the row of s ends or goes on.
LEMMA RowStepServes ==
  ASSUME Inv, ServeInv, NEW s \in Source, publish[s].state # "none",
         UNCHANGED <<owner, revisions, onDisk, current, refresh, waits, request>>,
         \A x \in Source \ {s} : publish'[x] = publish[x],
         publish'[s] = NoRow \/ publish'[s].state \in {"queued", "running"},
         \A r \in Record : decision'[r] = decision[r] \/ Sound(decision[r])',
         \A r \in Record : Accounted(r)'
  PROVE  ServeInv'
<1>1. NoneDeleted /\ Grows
  BY DEF NoneDeleted, Inv, TablesInv, Grows
<1>2. ServeTables'
  <2>1. \A x \in Source :
           \/ publish'[x] = publish[x] \/ publish'[x] = NoRow
           \/ publish'[x].state \in {"queued", "running"} /\ owner[x] \in Record
    BY DEF ServeInv, ServeTables
  <2> QED
    BY <1>1, <2>1, TablesKept DEF ServeInv, ServeTables
<1>3. \A r \in Record : OwnCurrent(r)'
  BY <1>1, CurrentKept DEF Inv, ServeInv
<1>4. ASSUME NEW r \in Record, Locked(r)'
      PROVE  Waiting(r)'
  <2>1. Waiting(r) /\ StillWaits(r)
    BY <1>4 DEF Locked, StillWaits, ServeInv
  <2> QED
    BY <1>1, <2>1, WaitingKept
<1> QED
  BY <1>2, <1>3, <1>4 DEF ServeInv

LEMMA PublishReadsServes ==
  ASSUME Inv, ServeInv, NEW s \in Source, PublishReads(s)
  PROVE  ServeInv'
<1>1. PICK r : r = owner[s]
  OBVIOUS
<1>2. PICK view : view = [record |-> r, loaded |-> decision[r],
                          decided |-> Evaluate(Candidates(r), decision[r], NoSource),
                          revisions |-> Len(revisions), current |-> current[r]]
  OBVIOUS
<1> DEFINE row == [state |-> "running", revision |-> publish[s].revision, view |-> view]
<1>3. /\ publish[s].state = "queued" /\ publish' = [publish EXCEPT ![s] = row]
      /\ UNCHANGED <<owner, usable, onDisk, decision, revisions, current, attempts, refresh, waits, request, slips>>
  BY <1>1, <1>2 DEF PublishReads
<1>4. view.record = r /\ view.loaded = decision[r] /\ view.revisions = Len(revisions)
  BY <1>2
<1>5. row.state = "running" /\ row.revision = publish[s].revision /\ row.view = view
  OBVIOUS
<1> HIDE DEF row
<1>6. publish'[s] = row /\ \A x \in Source \ {s} : publish'[x] = publish[x]
  BY <1>3 DEF Inv, TablesInv
<1>8. ASSUME NEW q \in Record, Carried(q)
      PROVE  Carried(q)'
  <2>1. ChoiceStays(q)
    BY <1>3, ChoosableStays DEF ChoiceStays
  <2>2. ASSUME NEW i \in Nat \ {0}, i = LatestFinal(q, s), decision[q].source = s, s \in Choosable(q),
               InQueue(s, i) \/ InHand(q, s, i)
        PROVE  InHand(q, s, i)'
    <3>1. q = r
      BY <1>1, <2>2, ChoosableOwned
    <3>2. i <= Len(revisions)
      BY <2>2, LatestFinalRow, LenProperties DEF Inv, TablesInv
    <3>3. publish[s].revision = i
      BY <1>3, <2>2 DEF InQueue, InHand
    <3> QED
      BY <1>4, <1>5, <1>6, <2>2, <3>1, <3>2, <3>3 DEF InHand, Executing
  <2> QED
    BY <1>3, <1>6, <1>8, <2>1, <2>2, RowStepCarried DEF Inv, OnItsWay
<1>9. \A q \in Record : Accounted(q)'
  BY <1>3, <1>8 DEF ServeInv, Accounted
<1> QED
  BY <1>3, <1>5, <1>6, <1>9, RowStepServes

\* What a publish writes of a decision is sound: the foreign key refuses a source that is gone.
LEMMA FlushedSound ==
  ASSUME NEW stored, NEW loaded, NEW new, Sound(stored), new.version = PolicyVersion,
         new.source \in {NoSource, loaded.source} \cup {x \in Source : owner[x] \in Record}
  PROVE  Sound(Flush(stored, loaded, new))
<1>1. Flush(stored, loaded, new).version = PolicyVersion
  BY FlushedVersion DEF Sound
<1>2. Flush(stored, loaded, new).source = IF new.source = loaded.source THEN stored.source ELSE new.source
  BY FlushedSource
<1> QED
  BY <1>1, <1>2 DEF Sound

LEMMA DecidedVersion ==
  ASSUME NEW d, NEW loaded, NEW r, DecidedFor(d, loaded, r)
  PROVE  d.version = PolicyVersion
<1>1. PICK owners, usables : d = Evaluate(CandidatesIn(owners, usables, r), loaded, NoSource)
  BY DEF DecidedFor
<1> QED
  BY <1>1, EvaluatedFor

LEMMA ReadSound ==
  ASSUME Inv, NEW s \in Source, PublishHolds(s), NEW stored, Sound(stored)
  PROVE  LET view == publish[s].view
         IN  view.decided.version = PolicyVersion /\ Sound(Flush(stored, view.loaded, view.decided))
<1>1. PICK view : view = publish[s].view
  OBVIOUS
<1>2. view.decided.version = PolicyVersion
  <2>1. Evaluated(s)
    BY DEF PublishHolds, Inv, DecisionInv
  <2> QED
    BY <1>1, <2>1, DecidedVersion DEF Evaluated
<1>3. view.decided.source \in {NoSource, view.loaded.source} \cup {x \in Source : owner[x] \in Record}
  BY <1>1 DEF PublishHolds, Writable, Inv, TablesInv
<1> QED
  BY <1>1, <1>2, <1>3, FlushedSound

\* Decided once more, from what it had read: still sound.
LEMMA AgainSound ==
  ASSUME Inv, NEW s \in Source, PublishHolds(s), NEW stored, Sound(stored), NEW usables, NEW r \in Record
  PROVE  LET view == publish[s].view
             first == Flush(stored, view.loaded, view.decided)
             again == Evaluate(CandidatesIn(owner, usables, r), view.decided, NoSource)
         IN  Sound(Flush(first, view.decided, again))
<1>1. PICK view : view = publish[s].view
  OBVIOUS
<1>2. PICK first : first = Flush(stored, view.loaded, view.decided)
  OBVIOUS
<1>3. PICK again : again = Evaluate(CandidatesIn(owner, usables, r), view.decided, NoSource)
  OBVIOUS
<1>4. Sound(first)
  BY <1>1, <1>2, ReadSound
<1>5. /\ again.version = PolicyVersion
      /\ again.source \in {NoSource, view.decided.source} \cup {x \in Source : owner[x] \in Record}
  BY <1>3, EvaluatedFor, EvaluatedSource
<1>6. Sound(Flush(first, view.decided, again))
  BY <1>4, <1>5, FlushedSound
<1> QED
  BY <1>1, <1>2, <1>3, <1>6

\* The row goes: its record is the only one that can have had its publication there.
LEMMA GoneServes ==
  ASSUME Inv, ServeInv, NEW s \in Source, Executing(s),
         NEW r, r = publish[s].view.record, NEW i, i = publish[s].revision,
         UNCHANGED <<owner, revisions, onDisk, current, attempts, refresh, waits, request>>,
         publish' = [publish EXCEPT ![s] = NoRow],
         \A q \in Record \ {r} : decision'[q] = decision[q],
         r \in Record => Sound(decision[r])',
         \A q \in Record : (q \in slips => q \in slips') /\ (q \in slips' \/ Choosable(q)' = Choosable(q)),
         (r \in Record /\ r \notin slips') =>
           /\ decision'[r].source = decision[r].source
           /\ (i # 0 /\ i = LatestFinal(r, s) /\ decision[r].source = s /\ InHand(r, s, i))
                => Unpublishable(r, s, i)' \/ OnItsWay(r, s, i)'
  PROVE  ServeInv'
<1>1. publish'[s] = NoRow /\ \A x \in Source \ {s} : publish'[x] = publish[x]
  BY DEF Inv, TablesInv
<1>3. ASSUME NEW q \in Record, Carried(q), q \notin slips'
      PROVE  Carried(q)'
  <2>1. ASSUME NEW j \in Nat \ {0}, j = LatestFinal(q, s), decision[q].source = s, s \in Choosable(q),
               InQueue(s, j) \/ InHand(q, s, j)
        PROVE  Unpublishable(q, s, j)' \/ OnItsWay(q, s, j)'
    <3>1. InHand(q, s, j) /\ q = r /\ j = i
      BY <2>1 DEF InQueue, InHand, Executing
    <3> QED
      BY <1>3, <2>1, <3>1
  <2>2. ChoiceStays(q) /\ decision'[q].source = decision[q].source
    BY <1>3 DEF ChoiceStays
  <2>3. TablesInv
    BY DEF Inv
  <2> QED
    BY <1>1, <1>3, <2>1, <2>2, <2>3, RowStepCarried
<1>4. \A q \in Record : Accounted(q)'
  BY <1>3 DEF ServeInv, Accounted
<1>5. \A q \in Record : decision'[q] = decision[q] \/ Sound(decision[q])'
  OBVIOUS
<1>6. publish[s].state # "none"
  BY DEF Executing
<1> QED
  BY <1>1, <1>4, <1>5, <1>6, RowStepServes

LEMMA PublishAbortedServes ==
  ASSUME Inv, ServeInv, NEW s \in Source, PublishAborted(s) \/ PublishFails(s)
  PROVE  ServeInv'
<1>1. PICK view : view = publish[s].view
  OBVIOUS
<1>2. PICK i : i = publish[s].revision
  OBVIOUS
<1>3. PICK row \in {NoRow, Row(i)} : publish' = [publish EXCEPT ![s] = row]
  BY <1>2 DEF PublishAborted, PublishFails
<1>4. /\ Executing(s) /\ (row = Row(i) \/ Foreign(s, view))
      /\ \A q \in Record : q \in slips => q \in slips'
      /\ UNCHANGED <<owner, usable, onDisk, decision, revisions, current, attempts, refresh, waits, request>>
  <2>1. CASE PublishAborted(s)
    <3>1. publish' = [publish EXCEPT ![s] = Row(i)] /\ slips' = slips /\ Executing(s)
      BY <1>2, <2>1 DEF PublishAborted
    <3>2. row = Row(i)
      BY <1>3, <3>1 DEF Inv, TablesInv
    <3> QED
      BY <2>1, <3>1, <3>2 DEF PublishAborted
  <2>2. CASE PublishFails(s)
    BY <1>1, <2>2 DEF PublishFails, PublishHolds
  <2> QED
    BY <2>1, <2>2
<1>5. publish'[s] = row /\ \A x \in Source \ {s} : publish'[x] = publish[x]
  BY <1>3 DEF Inv, TablesInv
<1>7. ASSUME NEW q \in Record, Carried(q)
      PROVE  Carried(q)'
  <2>1. ASSUME NEW j \in Nat \ {0}, j = LatestFinal(q, s), decision[q].source = s, s \in Choosable(q),
               InQueue(s, j) \/ InHand(q, s, j)
        PROVE  InQueue(s, j)'
    <3>1. InHand(q, s, j) /\ i = j /\ view.record = q
      BY <1>1, <1>2, <1>4, <2>1 DEF InQueue, InHand, Executing
    <3>2. revisions[j].record = q
      BY <2>1, LatestFinalRow DEF Inv, TablesInv
    <3>3. ~Foreign(s, view)
      <4>1. ~(j > view.revisions)
        BY <1>1, <2>1, <3>1 DEF InHand
      <4> QED
        BY <1>2, <3>1, <3>2, <4>1 DEF Foreign
    <3>4. publish'[s] = Row(i)
      BY <1>4, <1>5, <3>3
    <3> QED
      BY <3>1, <3>4 DEF InQueue, Row
  <2>2. ChoiceStays(q)
    BY <1>4, ChoosableStays DEF ChoiceStays
  <2>3. TablesInv
    BY DEF Inv
  <2> QED
    BY <1>4, <1>5, <1>7, <2>1, <2>2, <2>3, RowStepCarried DEF OnItsWay
<1>8. \A q \in Record : Accounted(q)'
  BY <1>4, <1>7 DEF ServeInv, Accounted
<1>9. publish'[s] = NoRow \/ publish'[s].state \in {"queued", "running"}
  BY <1>5 DEF Row
<1> QED
  BY <1>4, <1>5, <1>8, <1>9, RowStepServes DEF Executing

\* Published or in the journal, with nothing else on its way.
LEMMA RedundantServed ==
  ASSUME NEW r, NEW s, NEW i, ~OthersPending(r, s, i), UNCHANGED <<revisions, current, attempts>>,
         \/ current[r] = Publication(s, i)
         \/ \E a \in DOMAIN attempts : /\ attempts[a].record = r /\ attempts[a].source = s
                                       /\ attempts[a].revision = i /\ attempts[a].state \in Pending
  PROVE  OnItsWay(r, s, i)'
<1>1. \A b \in DOMAIN attempts : ~Competes(b, r, s, i)'
  BY DEF OthersPending, Competes, Carries
<1>2. CASE current[r] = Publication(s, i)
  BY <1>1, <1>2 DEF OnItsWay, InPlace, Publication
<1>3. ASSUME NEW a \in DOMAIN attempts, attempts[a].record = r, attempts[a].source = s,
             attempts[a].revision = i, attempts[a].state \in Pending
      PROVE  InJournal(r, s, i)'
  <2>1. Carries(a, r, s, i)' /\ attempts'[a].state \in Pending
    BY <1>3 DEF Carries
  <2> QED
    BY <1>1, <2>1 DEF InJournal
<1> QED
  BY <1>2, <1>3 DEF OnItsWay

LEMMA PublishFlushesServe ==
  ASSUME Inv, ServeInv, NEW s \in Source,
         PublishStale(s) \/ PublishReviewed(s) \/ PublishUnchanged(s) \/ PublishConflicts(s)
  PROVE  ServeInv'
<1>1. PICK view : view = publish[s].view
  OBVIOUS
<1>2. PICK r : r = view.record
  OBVIOUS
<1>3. PICK i : i = publish[s].revision
  OBVIOUS
<1>4. /\ PublishHolds(s) /\ PublishEnds(s, view)
      /\ UNCHANGED <<owner, usable, onDisk, revisions, current, attempts, refresh, waits, request>>
  BY <1>1 DEF PublishStale, PublishReviewed, PublishUnchanged, PublishConflicts, Ready
<1>5. slips \cup Diverted(r) \subseteq slips'
  <2>1. Diverted(r) \subseteq {r}
    BY DEF Diverted
  <2> QED
    BY <1>1, <1>2, <2>1 DEF PublishStale, PublishReviewed, PublishUnchanged, PublishConflicts
<1>6. Executing(s) /\ publish' = [publish EXCEPT ![s] = NoRow]
  BY <1>4 DEF PublishHolds, PublishEnds
<1>7. \A q \in Record : decision'[q] = IF q = r THEN Flush(decision[r], view.loaded, view.decided) ELSE decision[q]
  BY <1>2, <1>4 DEF PublishEnds, Inv, TablesInv
<1>8. r \in Record => Sound(decision[r])'
  <2>1. SUFFICES ASSUME r \in Record
                 PROVE  Sound(decision[r])'
    OBVIOUS
  <2>2. Sound(decision[r])
    BY <2>1 DEF ServeInv, ServeTables
  <2>3. Sound(Flush(decision[r], view.loaded, view.decided))
    BY <1>1, <1>4, <2>2, ReadSound
  <2> QED
    BY <1>4, <1>7, <2>1, <2>3 DEF Sound
<1>9. r \notin slips' => decision'[r].source = decision[r].source
  BY <1>5 DEF Diverted
<1>10. ASSUME r \in Record, r \notin slips', i # 0, i = LatestFinal(r, s), decision[r].source = s, InHand(r, s, i)
       PROVE  Unpublishable(r, s, i)' \/ OnItsWay(r, s, i)'
  <2>1. CASE PublishStale(s)
    <3>1. view.decided.source # s /\ view.loaded.source = s
      BY <1>1, <1>10, <2>1 DEF PublishStale, Superseded, InHand
    <3>2. decision'[r].source # s
      BY <1>7, <1>10, <3>1, FlushedSource
    <3> QED
      BY <1>9, <1>10, <3>2
  <2>2. CASE PublishReviewed(s)
    BY <1>1, <1>2, <1>3, <1>4, <2>2 DEF PublishReviewed, Unpublishable
  <2>3. CASE PublishConflicts(s)
    BY <1>1, <1>2, <1>10, <2>3 DEF PublishConflicts
  <2>4. CASE PublishUnchanged(s)
    <3>1. ~OthersPending(r, s, i) /\ (view.current = Publication(s, i) => current[r] = view.current)
      <4>1. slips' = LET outdated == view.current = Publication(s, i) /\ current[r] # view.current
                     IN  (IF outdated \/ OthersPending(r, s, i) THEN slips \cup {r} ELSE slips) \cup Diverted(r)
        BY <1>1, <1>2, <1>3, <2>4 DEF PublishUnchanged
      <4> QED
        BY <1>10, <4>1
    <3>2. Redundant(s, view)
      BY <1>1, <2>4 DEF PublishUnchanged
    <3>3. \/ current[r] = Publication(s, i)
          \/ \E a \in DOMAIN attempts : /\ attempts[a].record = r /\ attempts[a].source = s
                                        /\ attempts[a].revision = i /\ attempts[a].state \in Pending
      BY <1>2, <1>3, <3>1, <3>2 DEF Redundant
    <3> QED
      BY <1>4, <3>1, <3>3, RedundantServed
  <2> QED
    BY <2>1, <2>2, <2>3, <2>4
<1>11. \A q \in Record : Choosable(q)' = Choosable(q)
  BY <1>4, ChoosableStays
<1>13. \A q \in Record \ {r} : decision'[q] = decision[q]
  BY <1>7
<1>14. \A q \in Record : (q \in slips => q \in slips') /\ (q \in slips' \/ Choosable(q)' = Choosable(q))
  BY <1>5, <1>11
<1>15. UNCHANGED <<owner, usable, onDisk, revisions, current, attempts, refresh, waits, request>>
  BY <1>4
<1> QED
  BY <1>1, <1>2, <1>3, <1>6, <1>8, <1>9, <1>10, <1>13, <1>14, <1>15, GoneServes

LEMMA PublishQuarantinesServes ==
  ASSUME Inv, ServeInv, NEW s \in Source, PublishQuarantines(s)
  PROVE  ServeInv'
<1>1. PICK view : view = publish[s].view
  OBVIOUS
<1>2. PICK r : r = view.record
  OBVIOUS
<1>3. PICK i : i = publish[s].revision
  OBVIOUS
<1> DEFINE first == Flush(decision[r], view.loaded, view.decided)
           again == Evaluate(CandidatesIn(owner, usable', r), view.decided, NoSource)
           new == Flush(first, view.decided, again)
<1>4. /\ PublishHolds(s) /\ usable' = [usable EXCEPT ![s] = FALSE] /\ publish' = [publish EXCEPT ![s] = NoRow]
      /\ slips' = slips \cup {r, owner[s]}
      /\ UNCHANGED <<owner, onDisk, revisions, current, attempts, refresh, waits, request>>
  BY <1>1, <1>2 DEF PublishQuarantines, Ready
<1>5. decision' = [decision EXCEPT ![r] = new]
  BY <1>1, <1>2 DEF PublishQuarantines
<1>6. \A x \in Source \ {s} : usable'[x] = usable[x]
  BY <1>4 DEF Inv, TablesInv
<1>7. r \in Record => Sound(decision[r])'
  <2>1. SUFFICES ASSUME r \in Record
                 PROVE  Sound(decision[r])'
    OBVIOUS
  <2>2. Sound(decision[r])
    BY <2>1 DEF ServeInv, ServeTables
  <2>3. Sound(new)
    BY <1>1, <1>4, <2>1, <2>2, AgainSound
  <2> HIDE DEF new
  <2>4. decision'[r] = new
    BY <1>5, <2>1 DEF Inv, TablesInv
  <2> QED
    BY <1>4, <2>3, <2>4 DEF Sound
<1> HIDE DEF new
<1>8. \A q \in Record \ {r} : decision'[q] = decision[q]
  BY <1>5 DEF Inv, TablesInv
<1>9. ASSUME NEW q \in Record, q \notin slips'
      PROVE  Choosable(q)' = Choosable(q)
  BY <1>4, <1>6, <1>9, ChoosableOfOthers
<1>10. r \in slips' /\ \A q \in Record : (q \in slips => q \in slips') /\ (q \in slips' \/ Choosable(q)' = Choosable(q))
  BY <1>4, <1>9
<1>11. Executing(s)
  BY <1>4 DEF PublishHolds
<1> QED
  BY <1>1, <1>2, <1>3, <1>4, <1>7, <1>8, <1>10, <1>11, GoneServes

\* When the row of s is not behind what the journal and the publication have, what is on its way is its revision.
LEMMA OnItsWayIsRow ==
  ASSUME Inv, ServeInv, NEW s \in Source, Executing(s), NEW r \in Record, NEW i, i = publish[s].revision,
         revisions[i].record = r, ~Outdated(r, s, i), OnItsWay(r, s, LatestFinal(r, s))
  PROVE  LatestFinal(r, s) = i
<1>1. PICK j : j = LatestFinal(r, s)
  OBVIOUS
<1>2. i \in DOMAIN revisions /\ revisions[i].source = s /\ publish[s].state # "none"
  BY DEF Inv, LogInv, OwnRow, Executing
<1>3. revisions \in Seq(RevisionRow) /\ Len(revisions) \in Nat /\ DOMAIN revisions = 1..Len(revisions)
  BY LenProperties DEF Inv, TablesInv
<1>4. j >= i /\ j \in Nat /\ i \in Nat
  BY <1>1, <1>2, <1>3, LatestBounds, LatestFinalRow
<1>6. CASE InJournal(r, s, j)
  BY <1>1, <1>2, <1>4, <1>6 DEF InJournal, Carries, Pending, Outdated
<1>7. CASE InPlace(r, s, j)
  <2>1. current[r].source = s /\ current[r].revision = j
    BY <1>7 DEF InPlace, Publication
  <2> QED
    BY <1>1, <1>2, <1>4, <2>1 DEF Outdated
<1>8. CASE InQueue(s, j) \/ InHand(r, s, j)
  BY <1>1, <1>8 DEF InQueue, InHand, Executing
<1> QED
  BY <1>1, <1>6, <1>7, <1>8 DEF OnItsWay

\* An attempt for another record changes nothing for this one.
LEMMA OthersAttempt ==
  ASSUME NEW q, NEW x, NEW j, UNCHANGED current, revisions'[j].path = revisions[j].path, NEW n, n \notin DOMAIN attempts,
         DOMAIN attempts' = DOMAIN attempts \cup {n}, \A a \in DOMAIN attempts : attempts'[a] = attempts[a],
         attempts'[n].record # q
  PROVE  (InJournal(q, x, j) => InJournal(q, x, j)') /\ (InPlace(q, x, j) => InPlace(q, x, j)')
<1>1. \A b \in DOMAIN attempts' : Competes(b, q, x, j)' => b \in DOMAIN attempts /\ Competes(b, q, x, j)
  BY DEF Competes, Carries
<1>2. \A a \in DOMAIN attempts : a \in DOMAIN attempts' /\ attempts'[a] = attempts[a]
  OBVIOUS
<1>3. InJournal(q, x, j) => InJournal(q, x, j)'
  BY <1>1, <1>2 DEF InJournal, Carries
<1>4. InPlace(q, x, j) => InPlace(q, x, j)'
  BY <1>1, <1>2 DEF InPlace, Carries, Publication
<1> QED
  BY <1>3, <1>4

LEMMA PublishPreparesServes ==
  ASSUME Inv, ServeInv, NEW s \in Source, PublishPrepares(s)
  PROVE  ServeInv'
<1>1. PICK view : view = publish[s].view
  OBVIOUS
<1>2. PICK r : r = view.record
  OBVIOUS
<1>3. PICK i : i = publish[s].revision
  OBVIOUS
<1>4. PICK n : n = Len(attempts) + 1
  OBVIOUS
<1> DEFINE attempt == [record |-> r, source |-> s, revision |-> i, state |-> "prepared"]
           first == Flush(decision[r], view.loaded, view.decided)
           again == Evaluate(CandidatesIn(owner, usable', r), view.decided, NoSource)
           new == Flush(first, view.decided, again)
<1>5. /\ PublishHolds(s) /\ ~Foreign(s, view) /\ attempts' = Append(attempts, attempt)
      /\ publish' = [publish EXCEPT ![s] = NoRow]
      /\ slips' = (IF decision[r].source = s /\ ~Outdated(r, s, i) THEN slips ELSE slips \cup {r})
                    \cup Diverted(r) \cup Regained(s)
      /\ usable' = [usable EXCEPT ![s] = TRUE]
      /\ UNCHANGED <<owner, onDisk, revisions, current, refresh, waits, request>>
  BY <1>1, <1>2, <1>3 DEF PublishPrepares, Ready
<1>6. decision' = [decision EXCEPT ![r] = new]
  BY <1>1, <1>2 DEF PublishPrepares
<1>7. attempt.record = r /\ attempt.source = s /\ attempt.revision = i /\ attempt.state = "prepared"
  OBVIOUS
<1>8. /\ DOMAIN attempts' = DOMAIN attempts \cup {n} /\ n \notin DOMAIN attempts /\ attempts'[n] = attempt
      /\ \A a \in DOMAIN attempts : a < n /\ attempts'[a] = attempts[a]
  <2> HIDE DEF attempt
  <2>1. Len(attempts) \in Nat /\ DOMAIN attempts = 1..Len(attempts)
    BY LenProperties DEF Inv, TablesInv
  <2> QED
    BY <1>4, <1>5, <2>1
<1> HIDE DEF attempt
<1>9. Executing(s) /\ i \in DOMAIN revisions /\ revisions[i].source = s /\ revisions[i].record = r /\ r \in Record
  <2>1. Executing(s) /\ i \in DOMAIN revisions /\ revisions[i].source = s
    BY <1>3, <1>5 DEF PublishHolds, Executing, Inv, LogInv, OwnRow
  <2>2. revisions[i].record = r
    BY <1>2, <1>3, <1>5 DEF Foreign
  <2>3. revisions[i] \in RevisionRow
    BY <2>1, ElementOfSeq, LenProperties DEF Inv, TablesInv
  <2> QED
    BY <2>1, <2>2, <2>3 DEF RevisionRow
<1>10. Sound(decision[r])'
  <2>1. Sound(decision[r])
    BY <1>9 DEF ServeInv, ServeTables
  <2>2. Sound(new)
    BY <1>1, <1>5, <1>9, <2>1, AgainSound
  <2> HIDE DEF new
  <2>3. decision'[r] = new
    BY <1>6, <1>9 DEF Inv, TablesInv
  <2> QED
    BY <1>5, <2>2, <2>3 DEF Sound
<1> HIDE DEF new
<1>11. \A q \in Record \ {r} : decision'[q] = decision[q]
  BY <1>6 DEF Inv, TablesInv
<1>12. publish'[s] = NoRow /\ \A x \in Source \ {s} : publish'[x] = publish[x]
  BY <1>5 DEF Inv, TablesInv
<1>13. \A q \in Record : q \in slips => q \in slips'
  BY <1>5
<1>14. ASSUME NEW q \in Record, q \notin slips'
       PROVE  ChoiceStays(q)
  <2>1. \A x \in Source \ {s} : usable'[x] = usable[x]
    BY <1>5 DEF Inv, TablesInv
  <2>2. owner[s] # q \/ usable'[s] = usable[s]
    BY <1>5, <1>14 DEF Regained, Inv, TablesInv
  <2>3. Choosable(q)' = Choosable(q)
    BY <1>5, <2>1, <2>2, ChoosableOfOthers
  <2> QED
    BY <2>3 DEF ChoiceStays
<1>15. ASSUME NEW q \in Record, Carried(q), q \notin slips'
       PROVE  Carried(q)'
  <2>1. PICK x : x = decision[q].source
    OBVIOUS
  <2>2. PICK j : j = LatestFinal(q, x)
    OBVIOUS
  <2>3. j = LatestFinal(q, x)' /\ revisions' = revisions /\ onDisk' = onDisk
    BY <1>5, <2>2 DEF LatestFinal
  <2>4. CASE q # r
    <3>1. (x \in Source /\ (InQueue(x, j) \/ InHand(q, x, j))) => (InQueue(x, j)' \/ InHand(q, x, j)')
      <4>1. (InQueue(x, j) \/ InHand(q, x, j)) => x # s
        BY <1>1, <1>2, <1>9, <2>4 DEF InQueue, InHand, Executing
      <4> QED
        BY <1>12, <4>1 DEF InQueue, InHand, Executing
    <3>2. (InJournal(q, x, j) => InJournal(q, x, j)') /\ (InPlace(q, x, j) => InPlace(q, x, j)')
      BY <1>5, <1>7, <1>8, <2>4, OthersAttempt
    <3>3. (x \in Choosable(q) /\ OnItsWay(q, x, j)) => OnItsWay(q, x, j)'
      BY <3>1, <3>2, ChoosableOwned DEF OnItsWay
    <3>4. decision'[q].source = x
      BY <1>11, <2>1, <2>4
    <3> QED
      BY <1>14, <1>15, <2>1, <2>2, <2>3, <3>3, <3>4, CarriedKept
  <2>5. CASE q = r
    <3>1. x = s /\ decision'[r].source = x /\ ~Outdated(r, s, i)
      BY <1>5, <1>15, <2>1, <2>5 DEF Diverted
    <3>2. OnItsWay(r, s, j) => InJournal(r, s, j)'
      <4>1. SUFFICES ASSUME OnItsWay(r, s, j)
                     PROVE  InJournal(r, s, j)'
        OBVIOUS
      <4>2. j = i
        BY <1>3, <1>9, <2>2, <2>5, <3>1, <4>1, OnItsWayIsRow
      <4>3. Carries(n, r, s, i)' /\ attempts'[n].state \in Pending
        BY <1>7, <1>8 DEF Carries, Pending
      <4>4. \A b \in DOMAIN attempts' : Competes(b, r, s, i)' => b < n
        BY <1>8, <4>3 DEF Competes
      <4> QED
        BY <1>8, <4>2, <4>3, <4>4 DEF InJournal
    <3> QED
      BY <1>14, <1>15, <2>1, <2>2, <2>3, <2>5, <3>1, <3>2, CarriedKept DEF OnItsWay
  <2> QED
    BY <2>4, <2>5
<1>16. \A q \in Record : Accounted(q)'
  BY <1>5, <1>13, <1>15 DEF ServeInv, Accounted
<1>17. \A q \in Record : decision'[q] = decision[q] \/ Sound(decision[q])'
  BY <1>10, <1>11
<1> QED
  BY <1>5, <1>9, <1>12, <1>16, <1>17, RowStepServes DEF Executing

-----------------------------------------------------------------------------
(* The sources that are deleted.                                            *)

\* What a row loses when the sources gone are deleted.
LEMMA ScannedRows ==
  ASSUME Inv, ServeInv, NEW gone, NEW asked, Deletes(gone, asked)
  PROVE  /\ \A s \in Source : /\ owner'[s] = IF s \in gone THEN NoRecord ELSE owner[s]
                              /\ publish'[s] = IF s \in gone THEN NoRow ELSE publish[s]
         /\ DOMAIN revisions' = DOMAIN revisions /\ Len(revisions') = Len(revisions)
         /\ \A i \in DOMAIN revisions :
              /\ revisions'[i].record = revisions[i].record /\ revisions'[i].path = revisions[i].path
              /\ revisions'[i].source = IF revisions[i].source \in gone THEN NoSource ELSE revisions[i].source
         /\ DOMAIN attempts' = DOMAIN attempts
         /\ \A a \in DOMAIN attempts :
              /\ attempts'[a].record = attempts[a].record /\ attempts'[a].source = attempts[a].source
              /\ attempts'[a].revision = attempts[a].revision
              /\ attempts'[a].state = IF attempts[a].source \in gone THEN "deleted" ELSE attempts[a].state
         /\ \A r \in Record :
              /\ current'[r] \in CurrentRow
              /\ current'[r].source = IF current[r].source \in gone THEN NoSource ELSE current[r].source
              /\ current'[r].revision = current[r].revision /\ current'[r].path = current[r].path
              /\ decision'[r].version = decision[r].version
              /\ decision'[r].source = IF decision[r].source \in gone THEN NoSource ELSE decision[r].source
<1> DEFINE bared(i) == [revisions[i] EXCEPT !.source = IF @ \in gone THEN NoSource ELSE @]
           marked(a) == [attempts[a] EXCEPT !.state = IF attempts[a].source \in gone THEN "deleted" ELSE @]
           cut(r) == [current[r] EXCEPT !.source = IF @ \in gone THEN NoSource ELSE @]
           stripped(d) == [f \in Columns |->
                             IF f \in {"source", "baseline"} /\ d[f] \in gone THEN NoSource ELSE d[f]]
<1>1. /\ owner' = [s \in Source |-> IF s \in gone THEN NoRecord ELSE owner[s]]
      /\ decision' = [r \in Record |-> stripped(decision[r])]
      /\ revisions' = [i \in DOMAIN revisions |-> bared(i)]
      /\ current' = [r \in Record |-> cut(r)]
      /\ attempts' = [a \in DOMAIN attempts |-> marked(a)]
      /\ publish' = [s \in Source |-> IF s \in gone THEN NoRow ELSE publish[s]]
  BY DEF Deletes
<1>2. /\ revisions \in Seq(RevisionRow) /\ DOMAIN revisions = 1..Len(revisions) /\ Len(revisions) \in Nat
      /\ attempts \in Seq(AttemptRow) /\ DOMAIN attempts = 1..Len(attempts)
  BY LenProperties DEF Inv, TablesInv
<1>3. \A i \in DOMAIN revisions :
        /\ bared(i) \in RevisionRow /\ bared(i).record = revisions[i].record /\ bared(i).path = revisions[i].path
        /\ bared(i).source = IF revisions[i].source \in gone THEN NoSource ELSE revisions[i].source
  <2>1. SUFFICES ASSUME NEW i \in DOMAIN revisions
                 PROVE  /\ bared(i) \in RevisionRow /\ bared(i).record = revisions[i].record
                        /\ bared(i).path = revisions[i].path
                        /\ bared(i).source = IF revisions[i].source \in gone THEN NoSource ELSE revisions[i].source
    OBVIOUS
  <2>2. revisions[i] \in RevisionRow
    BY <1>2, ElementOfSeq
  <2> QED
    BY <2>2 DEF RevisionRow
<1>4. \A a \in DOMAIN attempts :
        /\ marked(a).record = attempts[a].record /\ marked(a).source = attempts[a].source
        /\ marked(a).revision = attempts[a].revision
        /\ marked(a).state = IF attempts[a].source \in gone THEN "deleted" ELSE attempts[a].state
  <2>1. SUFFICES ASSUME NEW a \in DOMAIN attempts
                 PROVE  /\ marked(a).record = attempts[a].record /\ marked(a).source = attempts[a].source
                        /\ marked(a).revision = attempts[a].revision
                        /\ marked(a).state = IF attempts[a].source \in gone THEN "deleted" ELSE attempts[a].state
    OBVIOUS
  <2>2. attempts[a] \in AttemptRow
    BY <1>2, ElementOfSeq
  <2>3. PICK state : state = IF attempts[a].source \in gone THEN "deleted" ELSE attempts[a].state
    OBVIOUS
  <2>4. marked(a) = [attempts[a] EXCEPT !.state = state]
    BY <2>3
  <2> HIDE DEF marked
  <2> QED
    BY <2>2, <2>3, <2>4 DEF AttemptRow
<1>5. \A r \in Record :
        /\ cut(r) \in CurrentRow /\ cut(r).revision = current[r].revision /\ cut(r).path = current[r].path
        /\ cut(r).source = IF current[r].source \in gone THEN NoSource ELSE current[r].source
  <2>1. SUFFICES ASSUME NEW r \in Record
                 PROVE  /\ cut(r) \in CurrentRow /\ cut(r).revision = current[r].revision
                        /\ cut(r).path = current[r].path
                        /\ cut(r).source = IF current[r].source \in gone THEN NoSource ELSE current[r].source
    OBVIOUS
  <2>2. current[r] \in CurrentRow
    BY DEF ServeInv, ServeTables
  <2> QED
    BY <2>2 DEF CurrentRow
<1>6. \A r \in Record :
        /\ stripped(decision[r]).version = decision[r].version
        /\ stripped(decision[r]).source = IF decision[r].source \in gone THEN NoSource ELSE decision[r].source
  BY DEF Columns
<1> HIDE DEF bared, marked, cut, stripped
<1>7. DOMAIN revisions' = DOMAIN revisions /\ revisions' \in Seq(RevisionRow)
  BY <1>1, <1>2, <1>3, IsASeq
<1>8. Len(revisions') = Len(revisions)
  <2>1. DOMAIN revisions' = 1..Len(revisions') /\ Len(revisions') \in Nat
    BY <1>7, LenProperties
  <2> QED
    BY <1>2, <1>7, <2>1
<1> QED
  BY <1>1, <1>3, <1>4, <1>5, <1>6, <1>7, <1>8

\* A record that loses no source keeps the place its publication is at.
LEMMA ScannedPlaces ==
  ASSUME NEW gone, NEW r \in Record, NEW s \in Source \ gone, NEW i, i \in DOMAIN revisions,
         DOMAIN attempts' = DOMAIN attempts, publish'[s] = publish[s],
         revisions'[i].path = revisions[i].path,
         \A a \in DOMAIN attempts :
              /\ attempts'[a].record = attempts[a].record /\ attempts'[a].source = attempts[a].source
              /\ attempts'[a].revision = attempts[a].revision
              /\ attempts'[a].state = IF attempts[a].source \in gone THEN "deleted" ELSE attempts[a].state,
         current'[r] \in CurrentRow, current'[r].revision = current[r].revision, current'[r].path = current[r].path,
         current'[r].source = IF current[r].source \in gone THEN NoSource ELSE current[r].source,
         OnItsWay(r, s, i)
  PROVE  OnItsWay(r, s, i)'
<1>1. \A b \in DOMAIN attempts : Competes(b, r, s, i)' => Competes(b, r, s, i)
  BY DEF Competes, Carries, Pending
<1>2. \A a \in DOMAIN attempts : Carries(a, r, s, i) => Carries(a, r, s, i)' /\ attempts'[a].state = attempts[a].state
  BY DEF Carries
<1>3. InQueue(s, i) => InQueue(s, i)'
  BY DEF InQueue
<1>4. InHand(r, s, i) => InHand(r, s, i)'
  BY DEF InHand, Executing
<1>5. InJournal(r, s, i) => InJournal(r, s, i)'
  BY <1>1, <1>2 DEF InJournal
<1>6. InPlace(r, s, i) => InPlace(r, s, i)'
  <2>1. ASSUME InPlace(r, s, i)
        PROVE  current'[r] = Publication(s, i)'
    <3>1. current[r].source = s /\ current[r].revision = i /\ current[r].path = revisions[i].path
      BY <2>1 DEF InPlace, Publication
    <3>2. current'[r] = [source |-> current'[r].source, revision |-> current'[r].revision, path |-> current'[r].path]
      BY DEF CurrentRow
    <3> QED
      BY <3>1, <3>2 DEF Publication
  <2> QED
    BY <1>1, <1>2, <2>1 DEF InPlace
<1> QED
  BY <1>3, <1>4, <1>5, <1>6 DEF OnItsWay

LEMMA DeletesServe ==
  ASSUME Inv, ServeInv, NEW gone, NEW asked, Deletes(gone, asked),
         \A s \in Source : usable'[s] = usable[s] \/ owner[s] \in asked,
         UNCHANGED <<onDisk, waits, request>>
  PROVE  ServeInv'
<1> DEFINE deprived == {owner[s] : s \in gone} \cap Record
<1>2. /\ \A s \in Source : /\ owner'[s] = IF s \in gone THEN NoRecord ELSE owner[s]
                           /\ publish'[s] = IF s \in gone THEN NoRow ELSE publish[s]
      /\ DOMAIN revisions' = DOMAIN revisions /\ Len(revisions') = Len(revisions)
  BY ScannedRows
<1>3. \A i \in DOMAIN revisions :
        /\ revisions'[i].record = revisions[i].record /\ revisions'[i].path = revisions[i].path
        /\ revisions'[i].source = IF revisions[i].source \in gone THEN NoSource ELSE revisions[i].source
  BY ScannedRows
<1>4. /\ DOMAIN attempts' = DOMAIN attempts
      /\ \A a \in DOMAIN attempts :
           /\ attempts'[a].record = attempts[a].record /\ attempts'[a].source = attempts[a].source
           /\ attempts'[a].revision = attempts[a].revision
           /\ attempts'[a].state = IF attempts[a].source \in gone THEN "deleted" ELSE attempts[a].state
  BY ScannedRows
<1>5. \A r \in Record :
        /\ current'[r] \in CurrentRow
        /\ current'[r].source = IF current[r].source \in gone THEN NoSource ELSE current[r].source
        /\ current'[r].revision = current[r].revision /\ current'[r].path = current[r].path
  BY ScannedRows
<1>6. \A r \in Record :
        /\ decision'[r].version = decision[r].version
        /\ decision'[r].source = IF decision[r].source \in gone THEN NoSource ELSE decision[r].source
  BY ScannedRows
<1>7. /\ \A r \in Record : Locked(r) => waits[r].source \notin gone
      /\ refresh' = Asked(refresh, asked)
      /\ slips' = slips \cup {r \in deprived : ~refresh'[r]}
      /\ current' = [r \in Record |-> current'[r]]
  BY DEF Deletes
<1>8. refresh' \in [Record -> BOOLEAN] /\ \A r \in Record : (refresh[r] => refresh'[r]) /\ (r \in asked => refresh'[r])
  BY <1>7 DEF Asked, ServeInv, ServeTables
<1>9. \A r \in Record : r \in deprived => r \in slips' \/ refresh'[r]
  BY <1>7
<1>10. \A s \in Source, r \in Record : owner'[s] = r => owner[s] = r
  BY <1>2, LibraryRecordAssumption
<1>11. ServeTables'
  <2>1. \A r \in Record : Sound(decision[r])'
    BY <1>2, <1>6 DEF ServeInv, ServeTables, Sound
  <2>2. \A s \in Source :
          /\ publish'[s].state \in {"none", "queued", "running"}
          /\ IF publish'[s].state = "none" THEN publish'[s].revision = 0 ELSE owner'[s] \in Record
    BY <1>2 DEF ServeInv, ServeTables, NoRow
  <2>3. current' \in [Record -> CurrentRow]
    BY <1>5, <1>7
  <2> QED
    BY <1>7, <1>8, <2>1, <2>2, <2>3 DEF ServeInv, ServeTables
<1>12. ASSUME NEW r \in Record
       PROVE  OwnCurrent(r)'
  <2>1. current'[r].source # NoSource => current[r].source # NoSource /\ current'[r].source = current[r].source /\ current[r].source \notin gone
    BY <1>5
  <2>2. OwnCurrent(r)
    BY DEF ServeInv
  <2> QED
    BY <1>2, <1>3, <1>5, <2>1, <2>2 DEF OwnCurrent
<1>14. ASSUME NEW r \in Record, Locked(r)'
       PROVE  Waiting(r)'
  <2>1. Locked(r) /\ Waiting(r) /\ waits'[r] = waits[r]
    BY <1>7, <1>14 DEF Locked, ServeInv
  <2>2. PICK s : s = waits[r].source
    OBVIOUS
  <2>3. s \notin gone /\ s \in Source /\ owner'[s] = owner[s] /\ publish'[s] = publish[s]
    BY <1>2, <1>7, <2>1, <2>2 DEF Waiting
  <2>6. refresh'[r] /\ waits[r].decided.version = PolicyVersion /\ waits[r].decided.source = s
    BY <1>8, <2>1, <2>2 DEF Waiting, Sound
  <2>7. s # NoSource => owner'[s] \in Record
    BY <2>1, <2>2, <2>3, <2>6 DEF Waiting, Sound
  <2> QED
    BY <2>1, <2>2, <2>3, <2>6, <2>7 DEF Waiting, Sound
<1>15. ASSUME NEW r \in Record, r \notin deprived, r \notin asked, Carried(r)
       PROVE  Carried(r)'
  <2>1. \A s \in Source : owner[s] = r => s \notin gone
    BY <1>15
  <2>2. Choosable(r)' = Choosable(r)
    <3>1. \A s \in Source : /\ owner'[s] = r <=> owner[s] = r
                            /\ owner[s] = r => usable'[s] = usable[s]
      BY <1>2, <1>10, <1>15, <2>1
    <3>2. \A x : x \in Choosable(r)' <=> x \in Choosable(r)
      BY <3>1, ChoosableIff
    <3> QED
      BY <3>2 DEF Choosable
  <2>3. PICK s : s = decision[r].source
    OBVIOUS
  <2>4. PICK i : i = LatestFinal(r, s)
    OBVIOUS
  <2>5. SUFFICES ASSUME s \in Choosable(r)
                 PROVE  Carried(r)'
    BY <1>15, <2>2, <2>3 DEF Carried
  <2>6. s \in Source \ gone /\ s # NoSource /\ decision'[r].source = s /\ publish'[s] = publish[s]
    BY <1>2, <1>6, <2>1, <2>3, <2>5, ChoosableOwned
  <2>7. LatestFinal(r, s)' = i
    <3>1. {j \in DOMAIN revisions' : revisions'[j].record = r /\ revisions'[j].source = s}
            = {j \in DOMAIN revisions : revisions[j].record = r /\ revisions[j].source = s}
      BY <1>2, <1>3, <2>6
    <3> QED
      BY <2>4, <3>1 DEF LatestFinal
  <2>8. i # 0 => i \in DOMAIN revisions
    BY <2>4, LatestFinalRow DEF Inv, TablesInv
  <2>9. i # 0 => revisions'[i].path = revisions[i].path
    BY <1>3, <2>8
  <2>10. OnItsWay(r, s, i) => Unpublishable(r, s, i)' \/ OnItsWay(r, s, i)'
    <3>1. CASE i = 0
      BY <3>1 DEF Unpublishable
    <3>2. CASE i # 0
      <4>1. /\ current'[r] \in CurrentRow /\ current'[r].revision = current[r].revision
            /\ current'[r].path = current[r].path
            /\ current'[r].source = IF current[r].source \in gone THEN NoSource ELSE current[r].source
        BY <1>5
      <4> HIDE DEF deprived
      <4> QED
        BY <1>4, <2>6, <2>8, <2>9, <3>2, <4>1, ScannedPlaces
    <3> QED
      BY <3>1, <3>2
  <2> QED
    BY <1>15, <2>2, <2>3, <2>4, <2>6, <2>7, <2>9, <2>10, CarriedKept DEF ChoiceStays
<1>16. \A r \in Record : Accounted(r)'
  BY <1>7, <1>8, <1>9, <1>15 DEF ServeInv, Accounted
<1> QED
  BY <1>11, <1>12, <1>14, <1>16 DEF ServeInv

LEMMA DeletionsServe ==
  ASSUME Inv, ServeInv, ScanApplies \/ Disappear \/ Cleanup
  PROVE  ServeInv'
<1>1. CASE ScanApplies
  <2>1. Deletes(scan.gone, scan.refresh) /\ UNCHANGED <<usable, onDisk, waits, request>>
    BY <1>1 DEF ScanApplies
  <2> QED
    BY <2>1, DeletesServe
<1>2. CASE Disappear
  <2>1. PICK missing \in SUBSET Source :
          LET published == {s \in missing : \E r \in Record : current[r].source = s}
              asked == {owner[s] : s \in published}
          IN  /\ Deletes(missing \ published, asked)
              /\ usable' = [s \in Source |-> IF s \in published THEN FALSE ELSE usable[s]]
              /\ UNCHANGED <<onDisk, waits, request>>
    BY <1>2 DEF Disappear
  <2>2. PICK published : published = {s \in missing : \E r \in Record : current[r].source = s}
    OBVIOUS
  <2>3. PICK asked : asked = {owner[s] : s \in published}
    OBVIOUS
  <2>4. /\ Deletes(missing \ published, asked) /\ UNCHANGED <<onDisk, waits, request>>
        /\ usable' = [s \in Source |-> IF s \in published THEN FALSE ELSE usable[s]]
    BY <2>1, <2>2, <2>3
  <2>5. \A s \in Source : usable'[s] = usable[s] \/ owner[s] \in asked
    BY <2>3, <2>4
  <2> QED
    BY <2>4, <2>5, DeletesServe
<1>3. CASE Cleanup
  <2>1. PICK gone : Deletes(gone, {}) /\ UNCHANGED <<usable, onDisk, waits, request>>
    BY <1>3 DEF Cleanup
  <2> QED
    BY <2>1, DeletesServe
<1> QED
  BY <1>1, <1>2, <1>3

-----------------------------------------------------------------------------
(* The import.                                                              *)

LEMMA ImportRejectsServes ==
  ASSUME Inv, ImportInv, ServeInv, ImportRejects
  PROVE  ServeInv'
<1>1. PICK r : r = import.record
  OBVIOUS
<1>2. PICK s : s = import.source
  OBVIOUS
<1>3. PICK view : view = import.view
  OBVIOUS
<1> DEFINE new == Flush(decision[r], view.loaded, view.decided)
<1>4. /\ import # Nothing /\ view # Nothing /\ Writable(view.loaded, view.decided)
      /\ usable' = [usable EXCEPT ![s] = FALSE] /\ decision' = [decision EXCEPT ![r] = new]
      /\ slips' = slips \cup Diverted(r) \cup {q \in {owner[s]} : decision'[q].source = s}
      /\ UNCHANGED <<owner, onDisk, revisions, current, attempts, refresh, waits, publish, request>>
  BY <1>1, <1>2, <1>3 DEF ImportRejects
<1>5. r \in Record /\ s \in Source /\ DecidedFor(view.decided, view.loaded, r)
  BY <1>1, <1>2, <1>3, <1>4 DEF ImportInv
<1>6. Sound(new)
  <2>1. Sound(decision[r])
    BY <1>5 DEF ServeInv, ServeTables
  <2>2. view.decided.version = PolicyVersion
    BY <1>5, DecidedVersion
  <2>3. view.decided.source \in {NoSource, view.loaded.source} \cup {x \in Source : owner[x] \in Record}
    BY <1>4 DEF Writable, Inv, TablesInv
  <2> QED
    BY <2>1, <2>2, <2>3, FlushedSound
<1> HIDE DEF new
<1>7. decision'[r] = new /\ \A q \in Record \ {r} : decision'[q] = decision[q]
  BY <1>4, <1>5 DEF Inv, TablesInv
<1>8. usable' \in [Source -> BOOLEAN] /\ \A x \in Source : x # s => usable'[x] = usable[x]
  BY <1>4 DEF Inv, TablesInv
<1>9. \A x \in Source : usable'[x] => usable[x]
  BY <1>4, <1>8 DEF Inv, TablesInv
<1>10. ASSUME NEW q \in Record, q \notin slips'
       PROVE  decision'[q].source = decision[q].source /\ ChoiceStays(q)
  <2>1. decision'[q].source = decision[q].source
    BY <1>4, <1>7, <1>10 DEF Diverted
  <2>2. Choosable(q)' \subseteq Choosable(q)
    BY <1>4, <1>8, <1>9, ChoosableShrinks DEF Inv, TablesInv
  <2>3. PICK x : x = decision[q].source
    OBVIOUS
  <2>4. ASSUME x \in Choosable(q)
        PROVE  x \in Choosable(q)'
    <3>1. x \in Source /\ owner[x] = q
      BY <2>4, ChoosableOwned
    <3>2. x # s
      BY <1>4, <1>10, <2>1, <2>3, <3>1
    <3>3. usable'[x] = usable[x] /\ owner'[x] = owner[x]
      BY <1>4, <1>8, <3>1, <3>2
    <3> QED
      BY <2>4, <3>3, ChoosableIff
  <2> QED
    BY <2>1, <2>2, <2>3, <2>4 DEF ChoiceStays
<1>11. Grows /\ NoneDeleted /\ NewFor(slips')
  BY <1>4 DEF Inv, TablesInv, Grows, NoneDeleted, NewFor
<1>12. \A q \in Record : decision'[q] = decision[q] \/ Sound(decision[q])'
  BY <1>4, <1>6, <1>7 DEF Sound
<1>13. \A q \in Record : (refresh[q] => refresh'[q]) /\ (q \in slips => q \in slips')
  BY <1>4
<1>14. refresh' \in [Record -> BOOLEAN]
  BY <1>4 DEF ServeInv, ServeTables
<1>15. \A q \in Record : q \in slips' => Accounted(q)'
  BY DEF Accounted
<1> QED
  BY <1>4, <1>10, <1>11, <1>12, <1>13, <1>14, <1>15, GrowthServes

\* What both endings of an accepted import have in common.
LEMMA ImportDecided ==
  ASSUME Inv, ImportInv, ServeInv, ImportDecides, UNCHANGED owner
  PROVE  /\ import.record \in Record /\ import.source \in Source
         /\ decision'[import.record] =
              Evaluate(CandidatesIn(owner', usable', import.record), decision[import.record], NoSource)
         /\ \A q \in Record \ {import.record} : decision'[q] = decision[q]
         /\ \A q \in Record : decision'[q] = decision[q] \/ Sound(decision[q])'
         /\ \A q \in Record : q \notin Regained(import.source) => Choosable(q)' = Choosable(q)
<1>1. PICK r : r = import.record
  OBVIOUS
<1>2. PICK s : s = import.source
  OBVIOUS
<1> DEFINE e == Evaluate(CandidatesIn(owner, usable', r), decision[r], NoSource)
<1>3. /\ r \in Record /\ s \in Source
      /\ usable' = [usable EXCEPT ![s] = TRUE] /\ decision' = [decision EXCEPT ![r] = e]
  BY <1>1, <1>2 DEF ImportDecides, ImportInv
<1>4. Sound(e)
  <2>1. Sound(decision[r])
    BY <1>3 DEF ServeInv, ServeTables
  <2> QED
    BY <1>3, <2>1, EvaluatedSource, EvaluatedFor DEF Sound
<1> HIDE DEF e
<1>5. decision'[r] = e /\ \A q \in Record \ {r} : decision'[q] = decision[q]
  BY <1>3 DEF Inv, TablesInv
<1>6. \A q \in Record : decision'[q] = decision[q] \/ Sound(decision[q])'
  BY <1>4, <1>5 DEF Sound
<1>7. ASSUME NEW q \in Record, q \notin Regained(s)
      PROVE  Choosable(q)' = Choosable(q)
  <2>1. \A x \in Source \ {s} : usable'[x] = usable[x]
    BY <1>3 DEF Inv, TablesInv
  <2>2. owner[s] # q \/ usable'[s] = usable[s]
    BY <1>3, <1>7 DEF Regained, Inv, TablesInv
  <2> QED
    BY <2>1, <2>2, ChoosableOfOthers
<1>8. decision'[r] = Evaluate(CandidatesIn(owner', usable', r), decision[r], NoSource)
  BY <1>5 DEF e
<1> QED
  BY <1>1, <1>2, <1>3, <1>5, <1>6, <1>7, <1>8

LEMMA ImportDefersServes ==
  ASSUME Inv, ImportInv, ServeInv, ImportDefers
  PROVE  ServeInv'
<1>1. /\ ImportDecides /\ slips' = slips \cup Diverted(import.record) \cup Regained(import.source)
      /\ UNCHANGED <<owner, onDisk, revisions, current, attempts, refresh, waits, publish, request>>
  BY DEF ImportDefers
<1>2. /\ \A q \in Record \ {import.record} : decision'[q] = decision[q]
      /\ \A q \in Record : decision'[q] = decision[q] \/ Sound(decision[q])'
      /\ \A q \in Record : q \notin Regained(import.source) => Choosable(q)' = Choosable(q)
  BY <1>1, ImportDecided
<1>3. ASSUME NEW q \in Record, q \notin slips'
      PROVE  decision'[q].source = decision[q].source /\ ChoiceStays(q)
  BY <1>1, <1>2, <1>3 DEF Diverted, ChoiceStays
<1>4. Grows /\ NoneDeleted /\ NewFor(slips')
  BY <1>1 DEF Inv, TablesInv, Grows, NoneDeleted, NewFor
<1>5. \A q \in Record : (refresh[q] => refresh'[q]) /\ (q \in slips => q \in slips')
  BY <1>1
<1>6. refresh' \in [Record -> BOOLEAN]
  BY <1>1 DEF ServeInv, ServeTables
<1>7. \A q \in Record : q \in slips' => Accounted(q)'
  BY DEF Accounted
<1> QED
  BY <1>1, <1>2, <1>3, <1>4, <1>5, <1>6, <1>7, GrowthServes

\* The import publishes a new latest revision behind all the attempts of its record: when its source is
\* the effective one that is what the record is to publish, and otherwise it is a slip.
LEMMA ImportPreparesServes ==
  ASSUME Inv, ImportInv, ServeInv, NEW path \in Path, ImportPrepares(path)
  PROVE  ServeInv'
<1>1. PICK r : r = import.record
  OBVIOUS
<1>2. PICK s : s = import.source
  OBVIOUS
<1>3. PICK i : i = Len(revisions) + 1
  OBVIOUS
<1>4. PICK n : n = Len(attempts) + 1
  OBVIOUS
<1> DEFINE row == Revision(r, s, path, FALSE)
           attempt == [record |-> r, source |-> s, revision |-> i, state |-> "prepared"]
<1>5. /\ ImportDecides /\ revisions' = Append(revisions, row) /\ attempts' = Append(attempts, attempt)
      /\ slips' = IF decision'[r].source = s /\ owner[s] = r THEN slips ELSE slips \cup {r} \cup Regained(s)
      /\ UNCHANGED <<owner, onDisk, current, refresh, waits, publish, request>>
  BY <1>1, <1>2, <1>3 DEF ImportPrepares
<1>6. /\ r \in Record /\ s \in Source
      /\ decision'[r] = Evaluate(CandidatesIn(owner', usable', r), decision[r], NoSource)
      /\ \A q \in Record \ {r} : decision'[q] = decision[q]
      /\ \A q \in Record : decision'[q] = decision[q] \/ Sound(decision[q])'
      /\ \A q \in Record : q \notin Regained(s) => Choosable(q)' = Choosable(q)
  BY <1>1, <1>2, <1>5, ImportDecided
<1>7. row \in RevisionRow /\ row.record = r /\ row.source = s
  BY <1>6 DEF Revision, RevisionRow
<1>8. /\ attempt.record = r /\ attempt.source = s /\ attempt.revision = i /\ attempt.state = "prepared"
      /\ Len(attempts) \in Nat /\ DOMAIN attempts = 1..Len(attempts)
  BY LenProperties DEF Inv, TablesInv
<1> HIDE DEF row, attempt
<1>9. Grows /\ NewFor({r}) /\ LatestFinal(r, s)' = i /\ i # 0
  <2>1. revisions \in Seq(RevisionRow) /\ Len(revisions) \in Nat
    BY LenProperties DEF Inv, TablesInv
  <2>2. PICK z : z = row
    OBVIOUS
  <2>3. z \in RevisionRow /\ z.record = r /\ z.source = s /\ revisions' = Append(revisions, z)
    BY <1>5, <1>7, <2>2
  <2>4. Grows
    BY <2>1, <2>3, AppendedOne
  <2>5. LatestFinal(z.record, z.source)' = Len(revisions) + 1 /\ NewFor({z.record})
    BY <2>1, <2>3, LatestAppended
  <2> QED
    BY <1>3, <2>1, <2>3, <2>4, <2>5
<1>10. /\ DOMAIN attempts' = DOMAIN attempts \cup {n} /\ n \notin DOMAIN attempts /\ attempts'[n] = attempt
       /\ \A a \in DOMAIN attempts : a < n /\ attempts'[a] = attempts[a]
  BY <1>4, <1>5, <1>8
<1>11. NoneDeleted /\ refresh' \in [Record -> BOOLEAN] /\ current' \in [Record -> CurrentRow]
  BY <1>5 DEF NoneDeleted, ServeInv, ServeTables
<1>12. ServeTables'
  BY <1>5, <1>6, <1>11, TablesKept DEF ServeInv, ServeTables
<1>13. \A q \in Record : OwnCurrent(q)'
  BY <1>5, <1>9, CurrentKept DEF Inv, ServeInv
<1>14. \A q \in Record : Locked(q)' => Waiting(q)'
  BY <1>5, <1>11, WaitingKept DEF Locked, StillWaits, ServeInv
<1>15. ASSUME NEW q \in Record \ {r}, Carried(q), q \notin slips'
       PROVE  Carried(q)'
  <2>1. PICK x : x = decision[q].source
    OBVIOUS
  <2>2. PICK j : j = LatestFinal(q, x)
    OBVIOUS
  <2>3. j = LatestFinal(q, x)' /\ decision'[q].source = x
    BY <1>6, <1>9, <2>1, <2>2, LatestStays
  <2>4. j # 0 => revisions'[j].path = revisions[j].path
    BY <1>9, <2>2, LatestFinalRow DEF Grows, Inv, TablesInv
  <2>5. ChoiceStays(q)
    BY <1>5, <1>6, <1>15 DEF Regained, ChoiceStays
  <2>6. OnItsWay(q, x, j) => Unpublishable(q, x, j)' \/ OnItsWay(q, x, j)'
    <3>1. CASE j = 0
      BY <3>1 DEF Unpublishable
    <3>2. CASE j # 0
      <4>1. (InQueue(x, j) => InQueue(x, j)') /\ (InHand(q, x, j) => InHand(q, x, j)')
        BY <1>5 DEF InQueue, InHand, Executing
      <4>2. attempts'[n].record # q
        BY <1>8, <1>10
      <4>3. (InJournal(q, x, j) => InJournal(q, x, j)') /\ (InPlace(q, x, j) => InPlace(q, x, j)')
        BY <1>5, <1>10, <2>4, <3>2, <4>2, OthersAttempt
      <4> QED
        BY <4>1, <4>3 DEF OnItsWay
    <3> QED
      BY <3>1, <3>2
  <2>7. onDisk' = onDisk
    BY <1>5
  <2> QED
    BY <1>15, <2>1, <2>2, <2>3, <2>4, <2>5, <2>6, <2>7, CarriedKept
<1>16. ASSUME r \notin slips'
       PROVE  Carried(r)'
  <2>1. decision'[r].source = s
    BY <1>5, <1>16
  <2>2. Choosable(r)' = {} \/ s \in Choosable(r)'
    <3>1. decision[r].version = PolicyVersion
      BY <1>6 DEF ServeInv, ServeTables, Sound
    <3>2. CASE EligibleOf(CandidatesIn(owner', usable', r)) # {}
      <4>1. \E c \in EligibleOf(CandidatesIn(owner', usable', r)) : c.id = s
        BY <1>6, <2>1, <3>1, <3>2, EvaluatedChooses
      <4> QED
        BY <4>1, ChoosableIs
    <3>3. CASE EligibleOf(CandidatesIn(owner', usable', r)) = {}
      BY <3>3 DEF Choosable, Candidates
    <3> QED
      BY <3>2, <3>3
  <2>3. Carries(n, r, s, i)' /\ attempts'[n].state \in Pending
    BY <1>8, <1>10 DEF Carries, Pending
  <2>4. \A b \in DOMAIN attempts' : Competes(b, r, s, i)' => b < n
    BY <1>10, <2>3 DEF Competes
  <2>5. InJournal(r, s, i)'
    BY <1>10, <2>3, <2>4 DEF InJournal
  <2> QED
    BY <1>9, <2>1, <2>2, <2>5, NewlyCarried DEF OnItsWay
<1>17. \A q \in Record : Accounted(q)'
  BY <1>5, <1>15, <1>16 DEF ServeInv, Accounted
<1> QED
  BY <1>12, <1>13, <1>14, <1>17 DEF ServeInv

-----------------------------------------------------------------------------
(* The initial state.                                                       *)

\* The first revisions are one of each source.
LEMMA FirstRevisions ==
  /\ Cardinality(Source) \in Nat /\ InitialSources \in [1..Cardinality(Source) -> Source]
  /\ \A s \in Source : \E i \in 1..Cardinality(Source) : InitialSources[i] = s
  /\ \A i, j \in 1..Cardinality(Source) : InitialSources[i] = InitialSources[j] => i = j
<1>1. IsFiniteSet(Source) /\ Cardinality(Source) \in Nat /\ ExistsBijection(1..Cardinality(Source), Source)
  BY LibraryRecordAssumption, FS_CardinalityType
<1>2. PICK n \in Nat : n = Cardinality(Source)
  BY <1>1
<1>3. \E f \in [1..n -> Source] : IsInjective(f)
  BY <1>1, <1>2 DEF ExistsBijection, Bijection, Injection, IsInjective
<1>4. PICK f : f = InitialSources
  OBVIOUS
<1>5. f \in [1..n -> Source] /\ IsInjective(f)
  BY <1>2, <1>3, <1>4 DEF InitialSources, SetToSeq
<1>6. f \in Injection(1..n, Source)
  BY <1>5 DEF Injection
<1>7. Cardinality(1..n) = n
  BY FS_Interval
<1>8. f \in Surjection(1..n, Source)
  BY <1>1, <1>2, <1>6, <1>7, FS_Injection
<1> QED
  BY <1>1, <1>2, <1>4, <1>5, <1>8 DEF Surjection, IsInjective

\* What a published record publishes is the only revision of the source it chooses.
LEMMA InitPublished ==
  ASSUME Init, NEW r \in Published
  PROVE  \E s \in Choosable(r), i \in DOMAIN revisions :
           /\ decision[r].source = s /\ LatestFinal(r, s) = i /\ current[r] = Publication(s, i)
           /\ current[r] = [source |-> s, revision |-> i, path |-> InitialPath[s]]
           /\ revisions[i].record = r /\ revisions[i].source = s /\ revisions[i].path = InitialPath[s]
<1>1. r \in Record
  BY LibraryRecordAssumption
<1>2. PICK n \in Nat : n = Cardinality(Source)
  BY FirstRevisions
<1>3. /\ owner = InitialRecord /\ usable = [s \in Source |-> TRUE]
      /\ decision[r] = Evaluate(CandidatesIn(owner, usable, r), NoDecision, NoSource)
      /\ DOMAIN revisions = 1..n
      /\ \A i \in 1..n : revisions[i] = Revision(InitialRecord[InitialSources[i]], InitialSources[i],
                             InitialPath[InitialSources[i]], InitialRecord[InitialSources[i]] \in ProviderRecord)
      /\ current[r] = LET k == CHOOSE k \in DOMAIN revisions : InitialSources[k] = decision[r].source
                      IN  [source |-> InitialSources[k], revision |-> k, path |-> InitialPath[InitialSources[k]]]
  BY <1>1, <1>2 DEF Init
<1>4. PICK s : s = decision[r].source
  OBVIOUS
<1>5. s \in Choosable(r)
  <2>1. EligibleOf(CandidatesIn(owner, usable, r)) # {}
    BY <1>3, PublishedAssumption
  <2>2. NoDecision.version = PolicyVersion
    BY DEF NoDecision
  <2>3. \E c \in EligibleOf(CandidatesIn(owner, usable, r)) : c.id = s
    <3>1. \E c \in EligibleOf(CandidatesIn(owner, usable, r)) :
            c.id = Evaluate(CandidatesIn(owner, usable, r), NoDecision, NoSource).source
      BY <2>1, <2>2, EvaluatedChooses
    <3>2. decision[r] = Evaluate(CandidatesIn(owner, usable, r), NoDecision, NoSource)
      BY <1>3
    <3> QED
      BY <1>4, <3>1, <3>2
  <2> QED
    BY <2>3, ChoosableIs
<1>6. s \in Source /\ InitialRecord[s] = r
  BY <1>3, <1>5, ChoosableOwned
<1>7. PICK i : i = CHOOSE k \in DOMAIN revisions : InitialSources[k] = s
  OBVIOUS
<1>8. i \in 1..n /\ InitialSources[i] = s
  BY <1>2, <1>3, <1>6, <1>7, FirstRevisions
<1>9. current[r] = [source |-> s, revision |-> i, path |-> InitialPath[s]]
  BY <1>3, <1>4, <1>7, <1>8
<1>10. revisions[i].record = r /\ revisions[i].source = s /\ revisions[i].path = InitialPath[s]
  BY <1>3, <1>6, <1>8 DEF Revision
<1>11. LatestFinal(r, s) = i
  <2> DEFINE S == {j \in DOMAIN revisions : revisions[j].record = r /\ revisions[j].source = s}
  <2>1. \A j \in S : j = i
    BY <1>2, <1>3, <1>8, FirstRevisions DEF Revision
  <2>2. i \in S /\ S \subseteq Nat
    BY <1>3, <1>8, <1>10
  <2>3. LatestFinal(r, s) = Max0(S)
    BY DEF LatestFinal
  <2> HIDE DEF S
  <2>4. \A j \in S : j <= i
    BY <2>1, <2>2
  <2>5. Max0(S) = i
    BY <2>2, <2>4, MaxIs
  <2> QED
    BY <2>3, <2>5
<1> QED
  BY <1>3, <1>4, <1>5, <1>8, <1>9, <1>10, <1>11 DEF Publication

LEMMA InitServe == Init => ServeInv
<1> SUFFICES ASSUME Init
             PROVE  ServeInv
  OBVIOUS
<1>1. /\ owner = InitialRecord /\ usable = [s \in Source |-> TRUE] /\ onDisk = [s \in Source |-> TRUE]
      /\ \A r \in Record : decision[r] = Evaluate(CandidatesIn(owner, usable, r), NoDecision, NoSource)
      /\ current = [r \in Record |-> current[r]] /\ \A r \in Record \ Published : current[r] = NoPublication
      /\ attempts = <<>> /\ refresh = [r \in Record |-> r \notin Published]
      /\ publish = [s \in Source |-> NoRow] /\ request = Nothing /\ \A r \in Record : ~Locked(r)
  BY DEF Init, Locked
<1>2. Len(revisions) \in Nat /\ DOMAIN revisions = 1..Len(revisions)
  <2>1. Inv
    BY InitInv
  <2> QED
    BY <2>1, LenProperties DEF Inv, TablesInv
<1>3. ASSUME NEW r \in Record
      PROVE  Sound(decision[r])
  <2>1. NoDecision.version = PolicyVersion /\ NoDecision.source = NoSource
    BY DEF NoDecision
  <2> QED
    BY <1>1, <2>1, EvaluatedFor, EvaluatedSource DEF Sound
<1>4. ASSUME NEW r \in Record
      PROVE  current[r] \in CurrentRow /\ OwnCurrent(r)
  <2>1. CASE r \in Published
    <3>1. PICK s \in Choosable(r), i \in DOMAIN revisions :
             /\ current[r] = [source |-> s, revision |-> i, path |-> InitialPath[s]]
             /\ revisions[i].record = r /\ revisions[i].source = s /\ revisions[i].path = InitialPath[s]
      BY <2>1, InitPublished
    <3>2. s \in Source /\ InitialPath[s] \in Path
      BY <3>1, ChoosableOwned, LibraryRecordAssumption
    <3> QED
      BY <1>2, <3>1, <3>2 DEF CurrentRow, OwnCurrent
  <2>2. CASE r \notin Published
    BY <1>1, <1>2, <2>2 DEF NoPublication, CurrentRow, OwnCurrent
  <2> QED
    BY <2>1, <2>2
<1>5. ServeTables
  BY <1>1, <1>3, <1>4 DEF ServeTables, NoRow
<1>7. ASSUME NEW r \in Published
      PROVE  Carried(r)
  <2>1. PICK s \in Choosable(r), i \in DOMAIN revisions :
           decision[r].source = s /\ LatestFinal(r, s) = i /\ current[r] = Publication(s, i)
    BY InitPublished
  <2>2. InPlace(r, s, i)
    BY <1>1, <2>1 DEF InPlace
  <2> QED
    BY <2>1, <2>2 DEF Carried, OnItsWay
<1>8. \A r \in Record : Accounted(r)
  BY <1>1, <1>7 DEF Accounted
<1> QED
  BY <1>1, <1>4, <1>5, <1>8 DEF ServeInv

-----------------------------------------------------------------------------
(* The theorems of the chain.                                               *)

LEMMA NextServe == Inv /\ ImportInv /\ ServeInv /\ [Next]_vars => ServeInv'
<1> SUFFICES ASSUME Inv, ImportInv, ServeInv, [Next]_vars
             PROVE  ServeInv'
  OBVIOUS
<1>1. ASSUME NEW r \in Record, Refreshes(r)
      PROVE  ServeInv'
  BY <1>1, RefreshRunServes, RefreshWaitsServes, RefreshResumesServes DEF Refreshes
<1>2. ASSUME NEW s \in Source, PublishReads(s) \/ PublishFinishes(s) \/ PublishAborted(s)
      PROVE  ServeInv'
  BY <1>2, PublishReadsServes, PublishAbortedServes, PublishFlushesServe, PublishQuarantinesServes, PublishPreparesServes
     DEF PublishFinishes
<1>3. ASSUME NEW a \in DOMAIN attempts, Settles(a)
      PROVE  ServeInv'
  BY <1>3, SettlesServe
<1>4. ASSUME NEW s \in Source, NEW q \in Record, Associate(s, q) \/ Attach(s, q)
      PROVE  ServeInv'
  BY <1>4, AssociateServes, AttachServes
<1>5. ASSUME NEW path \in EditPaths, AssociateFolder(path) \/ RemapWrites(path)
      PROVE  ServeInv'
  BY <1>5, AssociateFolderServes, RemapServes
<1>6. CASE EditWrites \/ SelectWrites
  BY <1>6, EditsServe
<1>7. CASE ScanApplies \/ Disappear \/ Cleanup
  BY <1>7, DeletionsServe
<1>8. CASE ImportRejects \/ ImportDefers
  BY <1>8, ImportRejectsServes, ImportDefersServes
<1>9. ASSUME NEW path \in EditPaths \cup Range(InitialPath), ImportPrepares(path)
      PROVE  ServeInv'
  <2>1. path \in Path
    BY LibraryRecordAssumption DEF Range
  <2> QED
    BY <1>9, <2>1, ImportPreparesServes
<1>10. CASE (\E r \in Record : Withdraw(r)) \/ Sweep
  BY <1>10, WithdrawalsServe
<1>11. CASE UNCHANGED vars
  BY <1>11, AsideServes DEF vars, ServeInv, ServeTables, Sound
<1> QED
  BY <1>1, <1>2, <1>3, <1>4, <1>5, <1>6, <1>7, <1>8, <1>9, <1>10, <1>11, RequestsServe DEF Next

\* A change that no slip befell is, at every moment, in the queue, in an executing publish that read it,
\* in the journal behind everything else of its record, or published.
THEOREM ChainInvariant == Spec => []ServeInv
<1> QED
  BY InitServe, NextServe, InductiveInvariant, PTL DEF Spec

\* When the chain is idle, a record that no slip befell publishes the latest final revision of its
\* effective source: no interleaving of refreshes, publishes, journal passes and moves of sources loses it.
THEOREM QuietIsServed == Spec => []QuietServed
<1>1. ServeInv => QuietServed
  <2>1. SUFFICES ASSUME ServeInv, Quiet, NEW r \in Record, r \notin slips, EligibleOf(Candidates(r)) # {}
                 PROVE  LET s == decision[r].source
                            i == LatestFinal(r, s)
                        IN  /\ s \in {c.id : c \in EligibleOf(Candidates(r))}
                            /\ (onDisk[s] /\ i # 0 /\ <<r, revisions[i].path>> \in Fits) => current[r] = Publication(s, i)
    BY DEF QuietServed, Served
  <2>2. PICK s : s = decision[r].source
    OBVIOUS
  <2>3. PICK i : i = LatestFinal(r, s)
    OBVIOUS
  <2>4. Carried(r) /\ Choosable(r) # {}
    BY <2>1, NothingToChoose DEF ServeInv, Accounted, Quiet
  <2>5. s \in Choosable(r) /\ (Unpublishable(r, s, i) \/ OnItsWay(r, s, i))
    BY <2>2, <2>3, <2>4 DEF Carried
  <2>6. s \in Source
    BY <2>5, ChoosableOwned
  <2>7. OnItsWay(r, s, i) => current[r] = Publication(s, i)
    BY <2>1, <2>6 DEF OnItsWay, InQueue, InHand, Executing, InJournal, Carries, InPlace, Quiet, HasPending
  <2> QED
    BY <2>2, <2>3, <2>5, <2>7 DEF Unpublishable, Choosable
<1> QED
  BY <1>1, ChainInvariant, PTL

\* Every table keeps its type.
THEOREM TypesHold == Spec => []TypeOK
<1>1. Inv /\ ServeInv => TypeOK
  <2> SUFFICES ASSUME Inv, ServeInv
               PROVE  TypeOK
    OBVIOUS
  <2>1. Len(revisions) \in Nat /\ DOMAIN revisions = 1..Len(revisions)
    BY LenProperties DEF Inv, TablesInv
  <2>2. /\ owner \in [Source -> Record \cup {NoRecord}] /\ usable \in [Source -> BOOLEAN]
        /\ onDisk \in [Source -> BOOLEAN] /\ refresh \in [Record -> BOOLEAN]
    BY DEF Inv, TablesInv, ServeInv, ServeTables
  <2>3. \A r \in Record : decision[r].source \in Source \cup {NoSource}
    BY DEF ServeInv, ServeTables, Sound
  <2>4. \A i \in DOMAIN revisions : revisions[i].record \in Record /\ revisions[i].path \in Path
    <3>1. \A i \in DOMAIN revisions : revisions[i] \in RevisionRow
      BY <2>1, ElementOfSeq DEF Inv, TablesInv
    <3> QED
      BY <3>1 DEF RevisionRow
  <2>5. \A r \in Record : current[r].revision \in 0..Len(revisions)
    BY DEF ServeInv, OwnCurrent
  <2>6. \A a \in DOMAIN attempts : attempts[a].state \in Pending \cup {"failed", "finalized", "deleted"}
    <3>1. \A a \in DOMAIN attempts : attempts[a] \in AttemptRow
      BY ElementOfSeq, LenProperties DEF Inv, TablesInv
    <3> QED
      BY <3>1 DEF AttemptRow
  <2>7. \A r \in Record : Locked(r) => refresh[r] /\ waits[r].source \in Source
    BY DEF ServeInv, Waiting
  <2>8. ASSUME NEW s \in Source
        PROVE  publish[s].state \in {"none", "queued", "running"} /\ publish[s].revision \in 0..Len(revisions)
    <3>1. publish[s].state = "none" => publish[s].revision = 0
      BY DEF ServeInv, ServeTables
    <3>2. publish[s].state # "none" => publish[s].revision \in DOMAIN revisions
      BY DEF Inv, LogInv, OwnRow
    <3> QED
      BY <2>1, <3>1, <3>2 DEF ServeInv, ServeTables
  <2> QED
    BY <2>2, <2>3, <2>4, <2>5, <2>6, <2>7, <2>8 DEF TypeOK
<1> QED
  BY <1>1, InductiveInvariant, ChainInvariant, PTL
=============================================================================
