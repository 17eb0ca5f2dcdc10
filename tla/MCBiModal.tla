------------------------------- MODULE MCBiModal -------------------------------
(***************************************************************************)
(* Values for TLC.                                                         *)
(***************************************************************************)
EXTENDS BiModalDocs, TLC

CONSTANTS a, b

(* Node identities are interchangeable: the pool may hand out any block.    *)
Symmetry == Permutations(Node)

OneChar == {a}
TwoChars == {a, b}

Words == {<<a>>, <<a, b>>}
Runs  == {<<a>>, <<a, a>>, <<a, a, a>>}
RunsAndEmpty == {<< >>} \cup {<<a>>, <<a, a>>}
===============================================================================
