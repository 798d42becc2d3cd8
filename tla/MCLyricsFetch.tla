--------------------------- MODULE MCLyricsFetch ---------------------------
(* Instances of LyricsFetch for TLC. *)
EXTENDS LyricsFetch

MCInputs == {"short", "long", "untagged"}
MCDurations == [input \in MCInputs |->
                  CASE input = "short" -> 2 [] input = "long" -> 4 [] OTHER -> None]
\* Valid for both inputs, for the long one only, for none.
MCLines == {<<<<1>>, <<1, 2>>>>, <<<<0>>, <<3>>>>, <<<<2>>, <<1>>>>}
============================================================================
