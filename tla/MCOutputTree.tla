---------------------------- MODULE MCOutputTree ----------------------------
(* Small instances of OutputTree for TLC.                                  *)
EXTENDS OutputTree, TLC

CONSTANTS r1, w1, w2

WorkerSymmetry == Permutations(Worker)
=============================================================================
