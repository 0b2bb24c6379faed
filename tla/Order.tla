-------------------------------- MODULE Order --------------------------------
(***************************************************************************)
(* The places a loop stops at, in the order it meets them.                 *)
(***************************************************************************)
EXTENDS Integers, FiniteSets

Ascending(q) == \A i, j \in DOMAIN q : i < j => q[i] < q[j]

\* A loop that counts upwards meets the numbers of S so.
InOrder(S) == CHOOSE q \in [1..Cardinality(S) -> S] : Ascending(q)
=============================================================================
