------------------------------ MODULE MCFat16 ------------------------------
(* Two names; the cfg gives the sizes of the volume.                       *)
EXTENDS Fat16

CONSTANTS nA, nB

MCName == {nA, nB}
MCSymmetry == Permutations(MCName)
=============================================================================
