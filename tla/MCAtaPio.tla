------------------------------ MODULE MCAtaPio ------------------------------
(* A drive of three sectors with two contents, commands of up to two.      *)
EXTENDS AtaPio

CONSTANTS dA, dB

MCData == {dA, dB}
=============================================================================
