-------------------------- MODULE MCProviderLookup --------------------------
(* Two recordings: the first is a track of release 11, the second a track  *)
(* of 11, a data track of 12 and also on an unofficial release.  The file  *)
(* agrees with 11 on the whole; the durations of 12 are far off.           *)
EXTENDS ProviderLookup

MCRecording == {1, 2}
MCRelease == {11, 12, 13}
MCLists == <<<<11, 12>>, <<13, 12, 11>>>>
MCUnofficial == {13}
MCTracks == [r \in MCRelease |-> CASE r = 11 -> {1, 2} [] r = 12 -> {1} [] OTHER -> {2}]
MCDataTracks == [r \in MCRelease |-> IF r = 12 THEN {2} ELSE {}]
MCAgreement ==
    [r \in MCRelease |-> [c \in Component |->
        CASE c = "duration" -> IF r = 11 THEN 90 ELSE -400
          [] c \in {"track_number", "disc_number"} -> PositionFact(1, r - 10)
          [] c = "track_total" -> PositionFact(0, 9)
          [] OTHER -> IF r = 11 THEN 80 ELSE 0]]
MCHeard == {<<>>, <<[id |-> 2, score |-> 95], [id |-> 1, score |-> 40]>>}
MCKnown == {<<11, 1>>}
MCFound == {<<>>, <<[id |-> 2, score |-> 100]>>, <<[id |-> 1, score |-> 1], [id |-> 2, score |-> 70]>>}
=============================================================================
