--------------------------- MODULE MCSimpleGapBuffer ---------------------------
(***************************************************************************)
(* Values for TLC: two letters, up to two at a time.                       *)
(***************************************************************************)
EXTENDS SimpleGapBuffer

CONSTANTS a, b

MCChar   == {a, b}
MCInputs == {<< >>, <<a, b>>, <<b, b, a>>}
===============================================================================
