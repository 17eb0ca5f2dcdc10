-------------------------------- MODULE MCFuzzer --------------------------------
(***************************************************************************)
(* Values for TLC: one or two equal letters at a time, as do_insert draws. *)
(***************************************************************************)
EXTENDS Fuzzer, TLC

CONSTANTS a, b

Symmetry == Permutations(Node)

TwoChars == {a, b}
Repeats  == {<<a>>, <<b>>, <<a, a>>}
===============================================================================
