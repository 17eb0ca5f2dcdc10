------------------------------ MODULE MCPieceTable ------------------------------
(***************************************************************************)
(* Values for TLC: two letters, up to three characters at a time.          *)
(***************************************************************************)
EXTENDS PieceTable

CONSTANTS a, b

MCChar   == {a, b}
MCInputs == {<< >>, <<a>>, <<a, b>>, <<b, b, a>>}
===============================================================================
