------------------------- MODULE MCSourceLifecycle -------------------------
(* Small instances of SourceLifecycle for TLC.                             *)
EXTENDS SourceLifecycle, TLC

\* The last path is below a second root.
TwoRoots == [p \in Path |-> IF p = NumPaths THEN "r2" ELSE "r1"]

FileSymmetry == Permutations(File)
=============================================================================
