-------------------------- MODULE MCRequestPacing --------------------------
(* Instances of RequestPacing for TLC. *)
EXTENDS RequestPacing

MCDelays == {0, 1}
MCHints == {0, 3}
============================================================================
