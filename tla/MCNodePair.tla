------------------------------- MODULE MCNodePair -------------------------------
(***************************************************************************)
(* Values for TLC: one or two characters at a time, two letters.           *)
(***************************************************************************)
EXTENDS NodePair

CONSTANTS a, b

MCChar   == {a, b}
MCInputs == {<<a>>, <<a, b>>}
===============================================================================
