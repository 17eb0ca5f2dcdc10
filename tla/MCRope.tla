--------------------------------- MODULE MCRope ---------------------------------
(***************************************************************************)
(* Values for TLC: a character of one byte and one of two.                 *)
(***************************************************************************)
EXTENDS Rope, TLC

CONSTANTS a, u

(* malloc may hand out any block.                                          *)
Symmetry == Permutations(Node)

TheChars == {a, u}
TheWidth == [c \in TheChars |-> IF c = a THEN 1 ELSE 2]
TheInputs == {<<a>>, <<u>>, <<a, u>>, <<u, Nul, a>>, <<a, Bad>>}
===============================================================================
