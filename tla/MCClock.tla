------------------------------ MODULE MCClock ------------------------------
(* Three registers of three values each, one of which goes from one figure   *)
(* to two.                                                                 *)
EXTENDS Clock

MCFirst == <<8, 1, 19>>
MCLast  == <<10, 3, 21>>
=============================================================================
