---------------------------- MODULE MCPrograms ----------------------------
(* Two files, a small table and a small heap.                              *)
EXTENDS Programs, TLC

CONSTANTS fA, fB

MCFile == {fA, fB}
MCClusters == [f \in MCFile |-> 1]
FileSymmetry == Permutations(MCFile)

\* For the runs without symmetry: fB has a second cluster.
MCClusters2 == [f \in MCFile |-> IF f = fB THEN 2 ELSE 1]
=============================================================================
