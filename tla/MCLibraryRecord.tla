-------------------------- MODULE MCLibraryRecord --------------------------
(* Two records and two sources of different quality, which move between them. *)
EXTENDS LibraryRecord

CONSTANTS r1, r2, p1, p2

MCSource == {1, 2}
MCMedia == [s \in MCSource |->
  [codec |-> IF s = 1 THEN "FLAC" ELSE "MP3", depth |-> IF s = 1 THEN 16 ELSE 0, rate |-> 44,
   channels |-> 2, bitrate |-> IF s = 1 THEN 0 ELSE 320]]
\* The facts of a source never change here except its state.
MCSetKey(candidates) == {<<c.id, c.state>> : c \in candidates}
MCInitialRecord == [s \in MCSource |-> IF s = 1 THEN r1 ELSE r2]
MCInitialPath == [s \in MCSource |-> p1]
MCProviderRecord == {r2}
MCFits == {<<r1, p1>>, <<r2, p1>>, <<r2, p2>>}
=============================================================================
