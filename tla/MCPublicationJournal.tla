------------------------ MODULE MCPublicationJournal ------------------------
(* Small instances of PublicationJournal for TLC.                          *)
EXTENDS PublicationJournal, TLC

CONSTANTS r1, r2, x, y

I(r, p, v) == [record |-> r, target |-> p, revision |-> v]

(* Two revisions of one source at one path, which another record claims.   *)
PathIntents == {I(r1, x, 1), I(r1, x, 2), I(r2, x, 1)}

(* One record whose source has two revisions or moves to another path, and *)
(* a second record that claims the first path.                             *)
MixedIntents == {I(r1, x, 1), I(r1, x, 2), I(r1, y, 1), I(r2, x, 1)}
=============================================================================
