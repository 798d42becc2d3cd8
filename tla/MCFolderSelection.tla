------------------------- MODULE MCFolderSelection -------------------------
(* Small instances of FolderSelection for TLC.                             *)
EXTENDS FolderSelection, TLC

FolderSymmetry == Permutations(Member) \union Permutations(Release)
=============================================================================
